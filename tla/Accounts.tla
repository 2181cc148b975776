------------------------------ MODULE Accounts ------------------------------
(***************************************************************************)
(* Accounts and their tokens (AuthService, UsersService, JwtStrategy):     *)
(* registration, login, the refresh of tokens, and the change of a         *)
(* profile as an example of what an access token opens.  A token is the    *)
(* record of what is signed into it: neither hashes nor signatures are     *)
(* broken.  A user is named by the request that registered it.             *)
(***************************************************************************)
EXTENDS Integers

CONSTANTS
  NumRequests,  \* requests, numbered in the order of arrival
  Calls(_),     \* what each request may ask
  Configs,      \* values of JWT_ACCESS_ and JWT_REFRESH_TOKEN_EXPIRATION
  MaxTime,      \* bound on the clock, in seconds
  NaN

Requests == 1 .. NumRequests

VARIABLES
  at,      \* where each request is
  call,    \* what it asks, with the token it carries
  code,    \* the status code of its answer; 0: none
  user,    \* the user it found or stored; 0: none
  known,   \* the users stored before it arrived
  since,   \* the time when it arrived
  users,   \* the table of users
  names,   \* users.nickname, as the request that gave it
  tokens,  \* the tokens sent in its answer
  config,  \* the configured lifetimes
  now

request == <<at, call, known, since>>
vars == <<request, code, user, users, names, tokens, config, now>>

Seconds == [s |-> 1, m |-> 60, h |-> 3600, d |-> 86400]

\* parseExpiration of a number and the text behind it.
ParseExpiration(raw) ==
  IF raw.unit \in DOMAIN Seconds /\ raw.number # NaN
  THEN raw.number * Seconds[raw.unit]
  ELSE raw.number

Lifetime(kind) == ParseExpiration(config[kind])

Init ==
  /\ at = [r \in Requests |-> "idle"]
  /\ call = [r \in Requests |-> [kind |-> "none"]]
  /\ code = [r \in Requests |-> 0]
  /\ user = [r \in Requests |-> 0]
  /\ known = [r \in Requests |-> {}]
  /\ since = [r \in Requests |-> 0]
  /\ users = {}
  /\ names = [r \in Requests |-> 0]
  /\ tokens = [r \in Requests |-> {}]
  /\ config \in Configs
  /\ now = 0

Tick ==
  /\ now < MaxTime
  /\ now' = now + 1
  /\ UNCHANGED <<request, code, user, users, names, tokens, config>>

Goes(r, from, to) == at[r] = from /\ at' = [at EXCEPT ![r] = to]

Answers(r, from, status) ==
  /\ Goes(r, from, "done")
  /\ code' = [code EXCEPT ![r] = status]

Issued == UNION {tokens[r] : r \in Requests}

\* Faulty: a token never runs out.
VerifiedForEver(token, kind) == token.kind = kind

\* jsonwebtoken's verification, against the secret of one kind of token.
Verified(token, kind) == token.kind = kind /\ now < token.until

Arrive(r, c) ==
  /\ \A q \in Requests : q < r => at[q] # "idle"
  /\ at[r] = "idle"
  /\ at' = [at EXCEPT ![r] = c.kind]
  /\ \/ c.kind \in {"register", "login"} /\ call' = [call EXCEPT ![r] = c]
     \/ \E t \in Issued : /\ c.kind \in {"refresh", "rename"}
                          /\ call' = [call EXCEPT ![r] = [kind |-> c.kind, token |-> t]]
  /\ known' = [known EXCEPT ![r] = users]
  /\ since' = [since EXCEPT ![r] = now]
  /\ UNCHANGED <<code, user, users, names, tokens, config, now>>

Of(email) == {u \in users : u.email = email}

\* findByEmail of register; the password is hashed before the next step.
FindNone(r) ==
  /\ at[r] = "register"
  /\ IF Of(call[r].email) # {}
     THEN Answers(r, "register", 409)
     ELSE Goes(r, "register", "insert") /\ UNCHANGED code
  /\ UNCHANGED <<call, known, since, user, users, names, tokens, config, now>>

\* createUser: email is unique, so the second of two INSERTs fails.
Insert(r) ==
  /\ at[r] = "insert"
  /\ IF Of(call[r].email) # {}
     THEN Answers(r, "insert", 500) /\ UNCHANGED <<users, user, names>>
     ELSE /\ Goes(r, "insert", "sign")
          /\ users' = users \cup {[id |-> r, email |-> call[r].email, password |-> call[r].password]}
          /\ user' = [user EXCEPT ![r] = r]
          /\ names' = [names EXCEPT ![r] = r]
          /\ UNCHANGED code
  /\ UNCHANGED <<call, known, since, tokens, config, now>>

\* findByEmail, and bcrypt.compare.
Match(r, u) == u.email = call[r].email /\ u.password = call[r].password

Login(r) ==
  /\ at[r] = "login"
  /\ \/ /\ \E u \in users : Match(r, u) /\ user' = [user EXCEPT ![r] = u.id]
        /\ Goes(r, "login", "sign")
        /\ UNCHANGED code
     \/ /\ \A u \in users : ~Match(r, u)
        /\ Answers(r, "login", 401)
        /\ UNCHANGED user
  /\ UNCHANGED <<call, known, since, users, names, tokens, config, now>>

\* refreshWithToken: an error of verifyAsync is no HttpException.
Refresh(r) ==
  /\ at[r] = "refresh"
  /\ IF Verified(call[r].token, "refresh")
     THEN Goes(r, "refresh", "sign") /\ user' = [user EXCEPT ![r] = call[r].token.sub] /\ UNCHANGED code
     ELSE Answers(r, "refresh", 500) /\ UNCHANGED user
  /\ UNCHANGED <<call, known, since, users, names, tokens, config, now>>

\* generateTokens, which throws if a lifetime is no number.
Sign(r) ==
  LET token(kind) == [sub |-> user[r], kind |-> kind, until |-> now + Lifetime(kind)]
  IN /\ at[r] = "sign"
     /\ IF NaN \in {Lifetime("access"), Lifetime("refresh")}
        THEN Answers(r, "sign", 500) /\ UNCHANGED tokens
        ELSE /\ Answers(r, "sign", IF call[r].kind = "register" THEN 201 ELSE 200)
             /\ tokens' = [tokens EXCEPT ![r] = {token("access"), token("refresh")}]
     /\ UNCHANGED <<call, known, since, user, users, names, config, now>>

\* PATCH /users/me behind JwtAuthGuard and JwtStrategy.validate.
Authenticate(r) ==
  /\ at[r] = "rename"
  /\ IF Verified(call[r].token, "access")
     THEN Goes(r, "rename", "save") /\ user' = [user EXCEPT ![r] = call[r].token.sub] /\ UNCHANGED code
     ELSE Answers(r, "rename", 401) /\ UNCHANGED user
  /\ UNCHANGED <<call, known, since, users, names, tokens, config, now>>

\* updateProfile.
UpdateProfile(r) ==
  /\ Answers(r, "save", 200)
  /\ names' = [names EXCEPT ![user[r]] = r]
  /\ UNCHANGED <<call, known, since, user, users, tokens, config, now>>

\* A statement fails, or the process dies: what is stored stays.
Fail(r) ==
  /\ \E step \in {"register", "insert", "login", "refresh", "sign", "rename", "save"} : Answers(r, step, 500)
  /\ UNCHANGED <<call, known, since, user, users, names, tokens, config, now>>

Next ==
  \/ \E r \in Requests :
       \/ \E c \in Calls(r) : Arrive(r, c)
       \/ FindNone(r) \/ Insert(r) \/ Login(r) \/ Refresh(r) \/ Sign(r)
       \/ Authenticate(r) \/ UpdateProfile(r) \/ Fail(r)
  \/ Tick

Spec == Init /\ [][Next]_vars

-----------------------------------------------------------------------------
TypeOK ==
  /\ at \in [Requests -> {"idle", "register", "insert", "login", "refresh", "sign", "rename", "save", "done"}]
  /\ code \in [Requests -> {0, 200, 201, 401, 409, 500}]
  /\ user \in [Requests -> 0 .. NumRequests] /\ names \in [Requests -> 0 .. NumRequests]
  /\ \A t \in Issued : t.until \in Int /\ \E u \in users : t.sub = u.id
  /\ now \in Nat /\ \A r \in Requests : since[r] \in 0 .. now
  /\ \A u \in users : u.id \in Requests

\* A request came with a token of somebody that had not run out then.
Held(r, kind, id) ==
  call[r].token.kind = kind /\ call[r].token.sub = id /\ since[r] < call[r].token.until

\* An address has one account, whoever else tried to register it at the same
\* moment, and its address and its password are those of the request that stored
\* it, also when that request then failed.  Whoever is let in has given both, or
\* came with a refresh token of the account that had not run out; no other than
\* who registered it renames it without an access token that had not run out; and
\* a login is refused to nobody who gives the password of an account that was there.
AccountIsItsOwners ==
  /\ \A u, v \in users : u.email = v.email => u = v
  /\ \A u \in users : u.email = call[u.id].email /\ u.password = call[u.id].password
  /\ \A r \in Requests :
       /\ code[r] = 201 => \E u \in users : u.id = r
       /\ code[r] = 401 /\ call[r].kind = "login" =>
            ~\E u \in known[r] : u.email = call[r].email /\ u.password = call[r].password
       /\ \A t \in tokens[r], u \in users : t.sub = u.id =>
            IF call[r].kind = "refresh" THEN Held(r, "refresh", u.id)
            ELSE u.email = call[r].email /\ u.password = call[r].password
       /\ names[r] # 0 /\ names[r] # r => Held(names[r], "access", r)
=============================================================================
