------------------------------- MODULE LoginFlow -------------------------------
(***************************************************************************)
(* Login and logout (server/src/auth): the store of pending transactions,  *)
(* the callback that consumes one, the exchange with GitHub, the identity  *)
(* transaction, the session and the cookies of the browsers, with calls    *)
(* that overlap, answers that get lost, tabs left open and restarts.       *)
(***************************************************************************)
EXTENDS Naturals, Sequences, FiniteSets

CONSTANTS
  Browser, Call,
  Account,      \* GitHub accounts
  Seeded,       \* the accounts with a personal team under an id of its own
  Capacity,     \* MAX_PENDING_OAUTH_TX
  TxTTL, SessionTTL,
  MaxStarts, MaxMints, MaxNow,  \* bounds
  None

VARIABLES
  now,
  started,   \* the browser of each transaction, by number
  pending,   \* the store: [tx, at], in the order of their numbers
  cookie,    \* what each browser holds: [tx, session]
  call,      \* callbacks and logouts in progress
  identity,  \* users, members, and the personal teams of each account
  session    \* the sessions, by number

loginVars == <<now, started, pending, cookie, call, identity, session>>

NoCall == [pc |-> "idle", browser |-> None, tx |-> None, account |-> None, session |-> None, age |-> 0]

Init ==
  /\ now = 0 /\ started = <<>> /\ pending = {} /\ session = <<>>
  /\ cookie = [b \in Browser |-> [tx |-> None, session |-> None]]
  /\ call = [k \in Call |-> NoCall]
  /\ identity = [users |-> {}, members |-> {},
                 teams |-> [a \in Account |-> IF a \in Seeded THEN {"seeded"} ELSE {}]]

(***************************************************************************)
(* Pending transactions.                                                   *)
(***************************************************************************)
Expired(p) == now - p.at >= TxTTL

\* evictIfFull: the expired ones, then the oldest until there is room.
EvictIfFull ==
  IF Cardinality(pending) < Capacity THEN pending
  ELSE LET live == {p \in pending : ~Expired(p)} IN
       {p \in live : Cardinality({q \in live : q.tx >= p.tx}) < Capacity}

\* GET /auth/github; the answer may not arrive.
Start(b) ==
  /\ Len(started) < MaxStarts
  /\ started' = Append(started, b)
  /\ pending' = EvictIfFull \cup {[tx |-> Len(started) + 1, at |-> now]}
  /\ cookie' \in {cookie, [cookie EXCEPT ![b].tx = Len(started) + 1]}
  /\ UNCHANGED <<now, call, identity, session>>

Found(t) == {p \in pending : p.tx = t}

\* Mutant: looked up now, removed when the login has succeeded.
Consumed_Later(t) == pending
Consumed(t) == pending \ Found(t)

(***************************************************************************)
(* The callback.  Up to the exchange it runs in one turn.                  *)
(***************************************************************************)
\* A tab of the browser comes back with its state, or without one (None), with
\* a code or with an error; the cookie names the transaction.
Arrive(k, b, s, code) ==
  /\ call[k].pc = "idle"
  /\ LET t == cookie[b].tx
         passes == t # None /\ (\E p \in Found(t) : ~Expired(p)) /\ code /\ s = t IN
     /\ pending' = IF t = None THEN pending ELSE Consumed(t)
     /\ call' = [call EXCEPT ![k] =
          IF passes THEN [NoCall EXCEPT !.pc = "resolving", !.browser = b, !.tx = t,
                                        !.age = now - (CHOOSE p \in Found(t) : TRUE).at]
          ELSE [NoCall EXCEPT !.pc = "failed", !.browser = b]]
  /\ UNCHANGED <<now, started, cookie, identity, session>>

\* resolveIdentity: two requests, each of which may fail or answer nonsense.
Resolve(k) ==
  /\ call[k].pc = "resolving"
  /\ \/ \E a \in Account : call' = [call EXCEPT ![k].pc = "login", ![k].account = a]
     \/ call' = [call EXCEPT ![k].pc = "failed"]
  /\ UNCHANGED <<now, started, pending, cookie, identity, session>>

\* The partial unique index lets one personal team per owner in.
TeamsAfter(a) == IF identity.teams[a] = {} THEN {"derived"} ELSE identity.teams[a]

\* The identity transaction: user, personal team and membership.
Login(k) ==
  /\ call[k].pc = "login"
  /\ LET a == call[k].account IN
     identity' = [users |-> identity.users \cup {a}, members |-> identity.members \cup {a},
                  teams |-> [identity.teams EXCEPT ![a] = TeamsAfter(a)]]
  /\ call' = [call EXCEPT ![k].pc = "mint"]
  /\ UNCHANGED <<now, started, pending, cookie, session>>

Mint(k) ==
  /\ call[k].pc = "mint" /\ Len(session) < MaxMints
  /\ session' = Append(session, [tx |-> call[k].tx, account |-> call[k].account, age |-> call[k].age,
                                 at |-> now, live |-> TRUE])
  /\ call' = [call EXCEPT ![k].pc = "minted", ![k].session = Len(session) + 1]
  /\ UNCHANGED <<now, started, pending, cookie, identity>>

(***************************************************************************)
(* Logout, and what the server makes of a session cookie.                  *)
(***************************************************************************)
Valid(n) ==
  /\ n # None /\ session[n].live /\ now < session[n].at + SessionTTL
  /\ session[n].account \in identity.users /\ identity.teams[session[n].account] # {}

\* The session resolves and the form's token is its own; else nothing happens.
BeginLogout(k, b) ==
  /\ call[k].pc = "idle" /\ Valid(cookie[b].session)
  /\ call' = [call EXCEPT ![k] = [NoCall EXCEPT !.pc = "leaving", !.browser = b, !.session = cookie[b].session]]
  /\ UNCHANGED <<now, started, pending, cookie, identity, session>>

Revoke(k) ==
  /\ call[k].pc = "leaving"
  /\ session' = [session EXCEPT ![call[k].session].live = FALSE]
  /\ call' = [call EXCEPT ![k].pc = "left"]
  /\ UNCHANGED <<now, started, pending, cookie, identity>>

(***************************************************************************)
(* Answers, time and restarts.                                             *)
(***************************************************************************)
\* Set-Cookie: the callback clears the transaction's cookie, whichever the
\* browser holds by now.
CookieAfter(k) ==
  LET b == call[k].browser IN
  CASE call[k].pc = "failed" -> [cookie[b] EXCEPT !.tx = None]
    [] call[k].pc = "minted" -> [tx |-> None, session |-> call[k].session]
    [] call[k].pc = "left"   -> [cookie[b] EXCEPT !.session = None]

Answer(k) ==
  /\ call[k].pc \in {"failed", "minted", "left"}
  /\ cookie' \in {cookie, [cookie EXCEPT ![call[k].browser] = CookieAfter(k)]}
  /\ call' = [call EXCEPT ![k] = NoCall]
  /\ UNCHANGED <<now, started, pending, identity, session>>

Restart ==
  /\ pending' = {} /\ call' = [k \in Call |-> NoCall]
  /\ UNCHANGED <<now, started, cookie, identity, session>>

Tick ==
  /\ now < MaxNow /\ now' = now + 1
  /\ UNCHANGED <<started, pending, cookie, call, identity, session>>

Next ==
  \/ \E b \in Browser : Start(b)
  \/ \E k \in Call, b \in Browser :
       \/ BeginLogout(k, b)
       \/ \E code \in BOOLEAN, s \in {t \in DOMAIN started : started[t] = b} \cup {None} : Arrive(k, b, s, code)
  \/ \E k \in Call : Resolve(k) \/ Login(k) \/ Mint(k) \/ Revoke(k) \/ Answer(k)
  \/ Restart \/ Tick

-------------------------------------------------------------------------------
\* Every session came from a transaction of its own: one that its browser
\* started, that was not expired when it came back and that is not pending any
\* more.  Its account has its user, its membership and exactly one personal team,
\* and no browser holds the session of another.
SessionIsEarned ==
  /\ \A n \in DOMAIN session :
       LET s == session[n] IN
       /\ \A m \in DOMAIN session : session[m].tx = s.tx => m = n
       /\ s.age < TxTTL /\ Found(s.tx) = {}
       /\ s.account \in identity.users \cap identity.members
       /\ Cardinality(identity.teams[s.account]) = 1
  /\ \A b \in Browser : cookie[b].session # None => started[session[cookie[b].session].tx] = b
  /\ Cardinality(pending) <= Capacity
===============================================================================
