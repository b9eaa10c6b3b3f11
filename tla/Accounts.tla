------------------------------ MODULE Accounts ------------------------------
(***************************************************************************)
(* How accounts come to be - by registration or by the seed script - and     *)
(* how the seed script fills the catalogue.  Requests, starts of the API     *)
(* that run the script, and admins who edit the catalogue go on at the same  *)
(* time; every handler looks first and commits later, and the unique keys of *)
(* the database decide in between.                                          *)
(***************************************************************************)
EXTENDS Integers

CONSTANTS
  Applicants,           \* bound: calls of /auth/register; each would create the account of its id
  SeedRuns,             \* bound: runs of the seed script; as ids, of the accounts they would create
  Emails, Usernames,    \* normalised: lower case; names that are not reserved
  SeedEmail, SeedName,  \* SEED_ADMIN_EMAIL, SEED_ADMIN_USERNAME
  SeedSlugs,            \* the slugs of ALL_PROBLEMS
  FreeSlug,             \* a slug that is not among them
  Casts                 \* bound: sets of ids, with Admin or not, that act in the same behaviour

ASSUME AccountsAssumption ==
  /\ Applicants \subseteq Nat /\ SeedRuns \subseteq Nat /\ 0 \notin Applicants \union SeedRuns
  /\ Applicants \intersect SeedRuns = {}
  /\ SeedEmail \in Emails /\ SeedName \in Usernames
  /\ FreeSlug \notin SeedSlugs

VARIABLES
  account,  \* account[i]: the row of users with its roles
  signup,   \* signup[i]: how far the registration is, and who it is for
  proof,    \* proof[i]: the link of account i that verifies its email
  audit,    \* audit_logs: actions with their actors
  seed,     \* seed[s]: how far the script is, what it has found and holds
  tagRows,  \* the tags of the catalogue are there
  shelf,    \* shelf[c]: who made the problem that has slug c; 0 for none, Admin for an admin
  cast      \* the calls, runs and admins of this behaviour

accountVars == <<account, signup, proof, audit, seed, tagRows, shelf, cast>>

Ids == Applicants \union SeedRuns
Shelf == SeedSlugs \union {FreeSlug}
Admin == -1
SeedRoles == {"ADMIN", "USER"}
NoAccount == [there |-> FALSE, email |-> "", name |-> "", verified |-> FALSE, roles |-> {}]

\* found: the account that exists already; adds: roles it lacks, or that there are no tags;
\* moved: slugs that admins took away since the script read them.
NoRun == [at |-> "idle", found |-> 0, adds |-> {}, holds |-> FALSE, seen |-> {}, moved |-> {},
          admin |-> FALSE]

AccountsTypeOK ==
  /\ \A i \in Ids : /\ account[i].there \in BOOLEAN /\ account[i].verified \in BOOLEAN
                    /\ account[i].there => /\ account[i].email \in Emails
                                            /\ account[i].name \in Usernames
                    /\ account[i].roles \subseteq SeedRoles
                    /\ proof[i] \in {"none", "valid", "used"}
  /\ \A i \in Applicants :
       signup[i].at \in {"idle", "looked", "joined", "created", "refused", "lost"}
  /\ \A s \in SeedRuns :
       /\ seed[s].at \in {"idle", "user", "tags", "flush", "slugs", "commit", "done", "failed"}
       /\ seed[s].found \in Ids \union {0} /\ seed[s].seen \union seed[s].moved \subseteq Shelf
  /\ audit \subseteq {"auth.register", "auth.email_verified"} \X Ids
  /\ tagRows \in BOOLEAN
  /\ \A c \in Shelf : shelf[c] \in SeedRuns \union {0, Admin}
  /\ cast \in Casts

\* A database that has been migrated.
AccountsInit ==
  /\ account = [i \in Ids |-> NoAccount]
  /\ signup = [i \in Applicants |-> [at |-> "idle", email |-> "", name |-> ""]]
  /\ proof = [i \in Ids |-> "none"]
  /\ audit = {}
  /\ seed = [s \in SeedRuns |-> NoRun]
  /\ tagRows = FALSE
  /\ shelf = [c \in Shelf |-> 0]
  /\ cast \in Casts

-----------------------------------------------------------------------------
(* Registration and verification                                           *)

\* get_by_email, get_by_username
ByEmail(email) == {i \in Ids : account[i].there /\ account[i].email = email}
ByName(name) == {i \in Ids : account[i].there /\ account[i].name = name}
Taken(email, name) == ByEmail(email) \union ByName(name) # {}

\* create_user, and record_audit, which stages a row for the caller's commit.
NewAccount(email, name, verified, roles) ==
  [there |-> TRUE, email |-> email, name |-> name, verified |-> verified, roles |-> roles]
Audited(action, i) == audit \union {<<action, i>>}

Stage(i, at) == signup' = [signup EXCEPT ![i].at = at]

\* register: its checks, with 409 if one fails.
RegisterChecks(i) ==
  /\ i \in cast /\ signup[i].at = "idle"
  /\ \A j \in Applicants \intersect cast : j < i => signup[j].at # "idle"
  /\ \E email \in Emails, name \in Usernames :
       signup' = [signup EXCEPT ![i] = [at |-> IF Taken(email, name) THEN "refused" ELSE "looked",
                                        email |-> email, name |-> name]]
  /\ UNCHANGED <<account, proof, audit, seed, tagRows, shelf, cast>>

\* A wrong RegisterCommits: no unique key, the checks have passed after all.
RegisterCommitsUnchecked(i) ==
  /\ signup[i].at = "looked"
  /\ account' = [account EXCEPT ![i] =
                   NewAccount(signup[i].email, signup[i].name, FALSE, {"USER"})]
  /\ audit' = Audited("auth.register", i)
  /\ Stage(i, "joined")
  /\ UNCHANGED <<proof, seed, tagRows, shelf, cast>>

\* The row, its profile, its role and the audit row are one transaction; one that meets a key
\* of another waits for it and is then refused.
RegisterCommits(i) ==
  /\ signup[i].at = "looked"
  /\ IF Taken(signup[i].email, signup[i].name)
     THEN Stage(i, "refused") /\ UNCHANGED <<account, audit, cast>>
     ELSE /\ account' = [account EXCEPT ![i] =
                           NewAccount(signup[i].email, signup[i].name, FALSE, {"USER"})]
          /\ audit' = Audited("auth.register", i)
          /\ Stage(i, "joined")
  /\ UNCHANGED <<proof, seed, tagRows, shelf, cast>>

\* send_verification_email: the link is a transaction of its own; then 201.
RegisterAnswers(i) ==
  /\ signup[i].at = "joined"
  /\ proof' = [proof EXCEPT ![i] = IF account[i].verified THEN @ ELSE "valid"]
  /\ Stage(i, "created")
  /\ UNCHANGED <<account, audit, seed, tagRows, shelf, cast>>

\* The process dies, or the database does not answer: what is not committed is gone.
RegisterFails(i) ==
  /\ signup[i].at \in {"looked", "joined"}
  /\ Stage(i, "lost")
  /\ UNCHANGED <<account, proof, audit, seed, tagRows, shelf, cast>>

\* /auth/verify-email/request: a new link in the place of the old one, for whoever needs it.
RequestLink(i) ==
  /\ account[i].there /\ ~account[i].verified
  /\ proof' = [proof EXCEPT ![i] = "valid"]
  /\ UNCHANGED <<account, signup, audit, seed, tagRows, shelf, cast>>

\* /auth/verify-email: the link's row is locked, so that it is used once.
VerifyEmail(i) ==
  /\ proof[i] = "valid"
  /\ proof' = [proof EXCEPT ![i] = "used"]
  /\ account' = [account EXCEPT ![i].verified = TRUE]
  /\ audit' = IF account[i].verified THEN audit ELSE Audited("auth.email_verified", i)
  /\ UNCHANGED <<signup, seed, tagRows, shelf, cast>>

-----------------------------------------------------------------------------
(* The seed script                                                         *)

SeedAt(s, at) == seed[s].at = at
SeedGoes(s, at) == seed' = [seed EXCEPT ![s].at = at]
\* An exception ends the script; the transaction it is in leaves nothing.
SeedFails(s) == seed' = [seed EXCEPT ![s].at = "failed", ![s].holds = FALSE]

\* _seed_user, for the admin (a demo user is another call of it): the account with the email
\* or else the one with the name; or SEED_ADMIN_* are not set and there is none to create.
SeedLooks(s) ==
  LET same == IF ByEmail(SeedEmail) # {} THEN ByEmail(SeedEmail) ELSE ByName(SeedName) IN
  /\ s \in cast /\ SeedAt(s, "idle")
  /\ \A o \in SeedRuns \intersect cast : o < s => ~SeedAt(o, "idle")
  /\ \/ SeedGoes(s, "tags")
     \/ same = {} /\ seed' = [seed EXCEPT ![s].at = "user", ![s].admin = TRUE]
     \/ \E i \in same :
          seed' = [seed EXCEPT ![s].at = "user", ![s].admin = TRUE, ![s].found = i,
                               ![s].adds = SeedRoles \ account[i].roles]
  /\ UNCHANGED <<account, signup, proof, audit, tagRows, shelf, cast>>

\* Missing roles are added, nothing else of an account that exists is changed; a new account
\* is verified from the start.
SeedUser(s) ==
  LET i == seed[s].found
      refused == IF i = 0 THEN Taken(SeedEmail, SeedName)
                 ELSE seed[s].adds \intersect account[i].roles # {}
  IN /\ SeedAt(s, "user")
     /\ IF refused
        THEN SeedFails(s) /\ UNCHANGED account
        ELSE /\ account' = IF i = 0
                           THEN [account EXCEPT ![s] =
                                   NewAccount(SeedEmail, SeedName, TRUE, SeedRoles)]
                           ELSE [account EXCEPT ![i].roles = @ \union seed[s].adds]
             /\ SeedGoes(s, "tags")
     /\ UNCHANGED <<signup, proof, audit, tagRows, shelf, cast>>

\* seed_problems: which tags are missing ...
SeedReadsTags(s) ==
  /\ SeedAt(s, "tags")
  /\ seed' = [seed EXCEPT ![s].at = "flush", ![s].adds = IF tagRows THEN {} ELSE {"tags"}]
  /\ UNCHANGED <<account, signup, proof, audit, tagRows, shelf, cast>>

\* ... which are inserted and held until the end; another run that has inserted them is
\* waited for, and when it has committed them the keys refuse.
SeedFlushesTags(s) ==
  /\ SeedAt(s, "flush")
  /\ IF seed[s].adds = {} THEN SeedGoes(s, "slugs")
     ELSE /\ \A o \in SeedRuns : ~seed[o].holds
          /\ IF tagRows THEN SeedFails(s)
             ELSE seed' = [seed EXCEPT ![s].at = "slugs", ![s].holds = TRUE]
  /\ UNCHANGED <<account, signup, proof, audit, tagRows, shelf, cast>>

SeedReadsSlugs(s) ==
  /\ SeedAt(s, "slugs")
  /\ seed' = [seed EXCEPT ![s].at = "commit", ![s].seen = {c \in Shelf : shelf[c] # 0}]
  /\ UNCHANGED <<account, signup, proof, audit, tagRows, shelf, cast>>

\* A wrong SeedCommits: problem by problem, up to one whose slug is refused.
SeedCommitsEach(s) ==
  LET absent == SeedSlugs \ seed[s].seen IN
  /\ SeedAt(s, "commit")
  /\ shelf' = [c \in Shelf |-> IF c \in absent /\ shelf[c] = 0 THEN s ELSE shelf[c]]
  /\ tagRows' = TRUE
  /\ IF \E c \in absent : shelf[c] # 0 THEN SeedFails(s)
     ELSE seed' = [seed EXCEPT ![s].at = "done", ![s].holds = FALSE]
  /\ UNCHANGED <<account, signup, proof, audit, cast>>

\* Problems that were not there, with their tags, test cases, examples and starter code, and
\* the tags are one transaction; a slug that was taken in the meantime refuses all of it.
SeedCommits(s) ==
  LET absent == SeedSlugs \ seed[s].seen IN
  /\ SeedAt(s, "commit")
  /\ IF \E c \in absent : shelf[c] # 0
     THEN SeedFails(s) /\ UNCHANGED <<tagRows, shelf, cast>>
     ELSE /\ shelf' = [c \in Shelf |-> IF c \in absent THEN s ELSE shelf[c]]
          /\ tagRows' = TRUE
          /\ seed' = [seed EXCEPT ![s].at = "done", ![s].holds = FALSE]
  /\ UNCHANGED <<account, signup, proof, audit, cast>>

SeedDies(s) ==
  /\ seed[s].at \notin {"idle", "done", "failed"}
  /\ SeedFails(s)
  /\ UNCHANGED <<account, signup, proof, audit, tagRows, shelf, cast>>

-----------------------------------------------------------------------------
(* Admins                                                                  *)

\* create_problem
AdminCreates(c) ==
  /\ Admin \in cast /\ shelf[c] = 0
  /\ shelf' = [shelf EXCEPT ![c] = Admin]
  /\ UNCHANGED <<account, signup, proof, audit, seed, tagRows, cast>>

\* update_problem with another slug.  For the properties: a run that has read the slugs did
\* not know.
AdminRenames(c, d) ==
  /\ Admin \in cast /\ shelf[c] # 0 /\ shelf[d] = 0
  /\ shelf' = [shelf EXCEPT ![c] = 0, ![d] = shelf[c]]
  /\ seed' = [s \in SeedRuns |-> IF seed[s].at \in {"commit", "done"}
                                 THEN [seed[s] EXCEPT !.moved = @ \union {c}] ELSE seed[s]]
  /\ UNCHANGED <<account, signup, proof, audit, tagRows, cast>>

AccountsNext ==
  \/ \E i \in Applicants :
       RegisterChecks(i) \/ RegisterCommits(i) \/ RegisterAnswers(i) \/ RegisterFails(i)
  \/ \E i \in Ids : RequestLink(i) \/ VerifyEmail(i)
  \/ \E s \in SeedRuns :
       \/ SeedLooks(s) \/ SeedUser(s) \/ SeedReadsTags(s) \/ SeedFlushesTags(s)
       \/ SeedReadsSlugs(s) \/ SeedCommits(s) \/ SeedDies(s)
  \/ \E c \in Shelf : AdminCreates(c)
  \/ \E c, d \in Shelf : AdminRenames(c, d)

AccountsSpec == AccountsInit /\ [][AccountsNext]_accountVars

-----------------------------------------------------------------------------
(* Properties                                                              *)

\* However registrations and seed runs overlap, an email or a name belongs to one account; a
\* call that was answered 201 has an account, an audit row and a link; one that was refused
\* left nothing, and somebody else has what it asked for.
RegistrationIsWhole ==
  /\ \A i, j \in Ids : account[i].there /\ account[j].there /\ i # j =>
       account[i].email # account[j].email /\ account[i].name # account[j].name
  /\ \A i \in Applicants :
       /\ account[i].there <=> <<"auth.register", i>> \in audit
       /\ account[i].verified <=> <<"auth.email_verified", i>> \in audit
       /\ signup[i].at = "created" =>
            account[i].there /\ (account[i].verified \/ proof[i] = "valid")
       /\ signup[i].at = "refused" => ~account[i].there /\ Taken(signup[i].email, signup[i].name)

\* A seed run that ends well leaves an admin and every problem of the catalogue, except those
\* that an admin gave another slug since it looked; one that fails or is still running has
\* added nothing to the catalogue.
SeedIsWhole ==
  \A s \in SeedRuns :
    /\ SeedAt(s, "done") =>
         /\ tagRows /\ \A c \in SeedSlugs \ seed[s].moved : shelf[c] # 0
         /\ seed[s].admin =>
              \E i \in ByEmail(SeedEmail) \union ByName(SeedName) : account[i].roles = SeedRoles
    /\ (\E c \in Shelf : shelf[c] = s) => SeedAt(s, "done")

\* Neither a registration nor a run of the seed script is ever done by halves.
NothingByHalves == RegistrationIsWhole /\ SeedIsWhole
=============================================================================
