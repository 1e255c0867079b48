------------------------------- MODULE Accounts -------------------------------
(***************************************************************************)
(* Authentication in the backend (auth/auth.service.ts, auth.module.ts):   *)
(* a process starts with a configuration, seeds the admin account in the   *)
(* database or, when that cannot be reached, in memory, signs tokens with  *)
(* its secret and verifies them; restarts change any of this, the password *)
(* included.                                                               *)
(*                                                                         *)
(* The admin is the only account there is a way to make.  A token is known *)
(* by the secret that signed it, or is Expired; bcrypt's comparison is     *)
(* equality of passwords; the role, which nothing reads, is left out.      *)
(***************************************************************************)
EXTENDS Naturals, Sequences

CONSTANTS
  None,        \* undefined
  Expired,     \* a token past its date
  Confs,       \* the configurations [secret, url, password] (environment
               \* variables) a process may be started with
  MaxStarts    \* bound on the starts

VARIABLES
  conf,        \* the configuration of the last start
  up,          \* the backend is listening
  repo,        \* AuthService.repo is set
  memUser,     \* the admin's password in memUsers, or None
  dbUser,      \* the admin's password in the table of users, or None
  seeded,      \* history: the passwords of the starts whose seedAdmin found
               \* the database and came to its end, in order
  starts

accounts == <<conf, up, repo, memUser, dbUser, seeded, starts>>

\* The passwords there are.
Passwords == {c.password : c \in Confs} \ {None}

AInit ==
  /\ conf \in Confs
  /\ up = FALSE /\ repo = FALSE
  /\ memUser = None /\ dbUser = None
  /\ seeded = <<>>
  /\ starts = 0

\* authRequired(): Boolean(process.env.JWT_SECRET).
AuthRequired == conf.secret # None

\* Mutant: the account takes the password of each start.
SeededAnew(user, password) == IF password = None THEN user ELSE password

\* seedAdmin: what the store holds of the admin afterwards.
Seeded(user, password) == IF password = None \/ user # None THEN user ELSE password

-----------------------------------------------------------------------------
\* seedAdmin with a database that answers: the account is seeded there,
\* unless the table has one from an earlier start.
SeedDatabase(c) ==
  /\ dbUser' = Seeded(dbUser, c.password)
  /\ seeded' = IF c.password = None THEN seeded ELSE Append(seeded, c.password)

\* onModuleInit with a database that answers.
StartWithDatabase(c) ==
  /\ c.secret # None /\ c.url
  /\ repo' = TRUE
  /\ memUser' = None
  /\ SeedDatabase(c)

\* Mutant: the fallback skips the seeding.
MemorySeededNot(c) == None

\* The account of a process without database.
MemorySeeded(c) == Seeded(None, c.password)

\* onModuleInit without database, or with one that cannot be reached.
StartInMemory(c) ==
  /\ c.secret # None
  /\ repo' = FALSE
  /\ memUser' = MemorySeeded(c)
  /\ UNCHANGED <<dbUser, seeded>>

\* onModuleInit in open mode: nothing to do.
StartOpen(c) ==
  /\ c.secret = None
  /\ repo' = FALSE
  /\ memUser' = None
  /\ UNCHANGED <<dbUser, seeded>>

\* The backend starts, with the configuration its operator gives it.
Start ==
  /\ ~up /\ starts < MaxStarts
  /\ starts' = starts + 1
  /\ up' = TRUE
  /\ \E c \in Confs :
       /\ conf' = c
       /\ StartWithDatabase(c) \/ StartInMemory(c) \/ StartOpen(c)

\* The database is lost during seedAdmin: the process ends, the account is
\* inserted or not.
StartFails ==
  /\ ~up /\ starts < MaxStarts
  /\ starts' = starts + 1
  /\ \E c \in Confs :
       /\ c.secret # None /\ c.url
       /\ conf' = c
       /\ SeedDatabase(c) \/ UNCHANGED <<dbUser, seeded>>
  /\ UNCHANGED <<up, repo, memUser>>

\* The process ends (onModuleDestroy): its memory is gone.
Stop ==
  /\ up
  /\ up' = FALSE /\ repo' = FALSE
  /\ memUser' = None
  /\ UNCHANGED <<conf, dbUser, seeded, starts>>

ANext == Start \/ StartFails \/ Stop

-----------------------------------------------------------------------------
\* findUser: the admin's password.
User == IF repo THEN dbUser ELSE memUser

\* login(): the token, or None for "Identifiants invalides".
Login(password) == IF User # None /\ password = User THEN conf.secret ELSE None

\* verify().
Verify(token) == ~AuthRequired \/ token = conf.secret

\* Every piece of state has its type.
AccountsTypeOK ==
  /\ conf \in Confs
  /\ up \in BOOLEAN /\ repo \in BOOLEAN
  /\ {memUser, dbUser} \subseteq Passwords \cup {None}
  /\ seeded \in Seq(Passwords)
  /\ starts \in 0..MaxStarts

\* The password that logs the admin in, by what the starts have been given:
\* in memory the one of this start, with the database the one of the first
\* start that came to seed it.
AdminPassword ==
  IF ~repo THEN conf.password ELSE IF seeded = <<>> THEN None ELSE Head(seeded)

\* auth.service.ts:23-25, "l'admin amorcé depuis l'environnement reste
\* opérationnel": a backend that requires authentication and was given a
\* password has an admin, whatever earlier starts, with or without database,
\* have left, and exactly one password gets a token that the backend accepts.
\* It is not always the one of ADMIN_PASSWORD: once the database has been
\* seeded, a new one is ignored, except by a start that falls back on memory,
\* which knows no other (auth.service.ts:40-115).
AdminCanLogIn ==
  up /\ AuthRequired =>
    /\ conf.password # None => AdminPassword # None
    /\ \A password \in Passwords :
         Login(password) # None /\ Verify(Login(password)) <=> password = AdminPassword
=============================================================================
