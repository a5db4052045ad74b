---------------------------- MODULE ForgeAnswers ----------------------------
(***************************************************************************)
(* What the server makes of what a forge answers                           *)
(* (server/src/auth/github.rs, gitlab.rs, gitea.rs, backoff.rs).           *)
(*                                                                         *)
(* An answer is kept to what the code looks at: the status, whether the    *)
(* headers say that a limit was hit and when to come back, the permissions *)
(* block of the repository, the scopes of the token, and whether the       *)
(* repository is private.                                                  *)
(***************************************************************************)
EXTENDS FiniteSets

Providers == {"github", "gitlab", "gitea"}

\* "other" is any other status; "lost" is no answer, or none in time, or a body
\* that does not parse.
Statuses == {"ok", "unauthorized", "forbidden", "not_found", "too_many",
             "unavailable", "other", "lost"}

\* What the block grants.  "absent": there is none, or it is all false.  "push"
\* may be more: Admin is decided, kept and judged just as Write is.
Blocks == {"absent", "low", "push"}

\* "unsaid": the token is of a kind that has no scopes.
Scopes == {"unsaid", "read", "public", "write"}

Answers ==
  [status : Statuses, limited : BOOLEAN, block : Blocks, scopes : Scopes,
   private : BOOLEAN]

Levels == {"read", "write"}

Refusals == {"unauthenticated", "forbidden"}

Decisions == Levels \cup Refusals

\* "none": what Decision::of makes no decision of, RateLimited and Forge.
Outcomes == Decisions \cup {"none"}

-----------------------------------------------------------------------------
(* A limit.  GitHub says one with a 403, too, and then in the headers;     *)
(* what stands in front of a Gitea says it with a 503 that says when to    *)
(* come back.                                                              *)

RateLimited(a) == a.limited

Throttled(p, a) ==
  CASE p = "github" -> a.status \in {"forbidden", "too_many"} /\ RateLimited(a)
    [] p = "gitlab" -> a.status = "too_many"
    [] p = "gitea"  -> \/ a.status = "too_many"
                       \/ a.status = "unavailable" /\ a.limited

-----------------------------------------------------------------------------
(* send: an answer that is not ok.                                         *)

\* Mutant of GithubSend: the status alone decides.
GithubSendByStatus(a) ==
  IF a.status = "unauthorized" THEN "unauthenticated"
  ELSE IF a.status \in {"forbidden", "not_found"} THEN "forbidden"
  ELSE "none"

GithubSend(a) ==
  IF a.status = "unauthorized" THEN "unauthenticated"
  ELSE IF Throttled("github", a) THEN "none"
  ELSE IF a.status \in {"forbidden", "not_found"} THEN "forbidden"
  ELSE "none"

GitlabSend(a) ==
  IF a.status = "unauthorized" THEN "unauthenticated"
  ELSE IF a.status \in {"forbidden", "not_found"} THEN "forbidden"
  ELSE "none"

GiteaSend(a) ==
  IF Throttled("gitea", a) THEN "none"
  ELSE IF a.status = "unauthorized" THEN "unauthenticated"
  ELSE IF a.status \in {"forbidden", "not_found"} THEN "forbidden"
  ELSE "none"

Send(p, a) ==
  CASE p = "github" -> GithubSend(a)
    [] p = "gitlab" -> GitlabSend(a)
    [] p = "gitea"  -> GiteaSend(a)

-----------------------------------------------------------------------------
(* permission.  That GitHub or Gitea answered at all is proof of read      *)
(* access; GitLab also shows a project to whoever may do too little with   *)
(* it.                                                                     *)

\* may_write.
GithubMayWrite(a) ==
  \/ a.scopes \in {"unsaid", "write"}
  \/ a.scopes = "public" /\ ~a.private

\* Mutant of GithubPermission: the block is enough.
GithubPermissionByBlock(a) ==
  IF a.status # "ok" THEN GithubSend(a)
  ELSE IF a.block = "push" THEN "write"
  ELSE "read"

GithubPermission(a) ==
  IF a.status # "ok" THEN GithubSend(a)
  ELSE IF a.block = "push" /\ GithubMayWrite(a) THEN "write"
  ELSE "read"

\* What may_write finds once it is answered.
GitlabMayWrite(a) == a.scopes \in {"unsaid", "write"}

\* As it is until the token's scopes are known.
GitlabPermission(a) ==
  IF a.status # "ok" THEN GitlabSend(a)
  ELSE IF a.block = "push" THEN "write"
  ELSE IF a.block = "low" THEN "read"
  ELSE "forbidden"

\* They are asked for only if the token could write.
AsksScopes(p, a) == p = "gitlab" /\ a.status = "ok" /\ a.block = "push"

GiteaPermission(a) ==
  IF a.status # "ok" THEN GiteaSend(a)
  ELSE IF a.block = "push" THEN "write"
  ELSE "read"

Permission(p, a) ==
  CASE p = "github" -> GithubPermission(a)
    [] p = "gitlab" -> GitlabPermission(a)
    [] p = "gitea"  -> GiteaPermission(a)

-----------------------------------------------------------------------------
(* public: asked with no credentials, or as the App of the server          *)
(* (identified), which is let into private repositories.  A forge that is  *)
(* unhelpful is taken for a refusal, one that was not reached is not.      *)

\* Mutant of GithubPublic: an answer is enough, whoever asked.
GithubPublicByStatus(identified, a) ==
  IF a.status = "ok" THEN "read"
  ELSE IF Throttled("github", a) \/ a.status = "lost" THEN "none"
  ELSE "unauthenticated"

GithubPublic(identified, a) ==
  IF a.status = "ok" /\ ~(identified /\ a.private) THEN "read"
  ELSE IF Throttled("github", a) \/ a.status = "lost" THEN "none"
  ELSE "unauthenticated"

\* Mutant of GitlabPublic: refused as a token would be.
GitlabPublicAsToken(a) ==
  IF a.status = "ok" THEN "read"
  ELSE IF Throttled("gitlab", a) \/ a.status = "lost" THEN "none"
  ELSE IF a.status = "not_found" THEN "forbidden"
  ELSE "unauthenticated"

GitlabPublic(a) ==
  IF a.status = "ok" THEN "read"
  ELSE IF Throttled("gitlab", a) \/ a.status = "lost" THEN "none"
  ELSE "unauthenticated"

GiteaPublic(a) ==
  IF a.status = "ok" THEN "read"
  ELSE IF Throttled("gitea", a) \/ a.status = "lost" THEN "none"
  ELSE "unauthenticated"

Public(p, identified, a) ==
  CASE p = "github" -> GithubPublic(identified, a)
    [] p = "gitlab" -> GitlabPublic(a)
    [] p = "gitea"  -> GiteaPublic(a)

\* login: whose a token is.
Login(p, a) == IF a.status = "ok" THEN "read" ELSE Send(p, a)

-----------------------------------------------------------------------------
(* What the forge meant, without how the code gets there: the levels it    *)
(* grants, or that it refuses the caller, or neither.                      *)

CanWrite(p, a) ==
  /\ a.status = "ok"
  /\ a.block = "push"
  /\ \/ p = "gitea"
     \/ a.scopes \in {"unsaid", "write"}
     \/ p = "github" /\ a.scopes = "public" /\ ~a.private

Meant(p, a) ==
     {l \in {"read"} : a.status = "ok" /\ ~(p = "gitlab" /\ a.block = "absent")}
  \cup {l \in {"write"} : CanWrite(p, a)}
  \cup {r \in {"unauthenticated"} : a.status = "unauthorized"}
  \cup {r \in {"forbidden"} :
          \/ a.status \in {"forbidden", "not_found"} /\ ~Throttled(p, a)
          \/ a.status = "ok" /\ p = "gitlab" /\ a.block = "absent"}

\* Whose a token is concerns no repository.
MeantLogin(p, a) == Meant(p, [a EXCEPT !.block = "low"])

\* Anybody may read what is public.  Every answer that says neither that nor
\* that the server is asking too much is taken for a refusal.
MeantPublic(p, a) ==
     {l \in {"read"} : a.status = "ok" /\ ~a.private}
  \cup {r \in {"unauthenticated"} :
          /\ ~Throttled(p, a)
          /\ a.status # "lost"
          /\ ~(a.status = "ok" /\ ~a.private)}
=============================================================================
