---------------------------- MODULE TokenManager ----------------------------
(***************************************************************************)
(* The client of the network builder: worker threads ask the vendor for    *)
(* pages with the token of a user, one token for all the threads that use  *)
(* the user, handed out a cooldown apart under the lock of the user.  A    *)
(* step is what a thread does between two reads of what the threads share. *)
(***************************************************************************)
EXTENDS Integers, Sequences, FiniteSets

CONSTANTS
    Threads,
    Users,
    Sponsor,      \* a user's sponsor, None: the root of the database
    First,        \* the user that each thread begins with
    None,
    COOLDOWN,
    EMERGENCY_COOLDOWN,
    HTTP_RETRIES,
    MaxLogins,    \* bound: tokens
    MaxReplies    \* bound: answers that are no page

ASSUME TokenManagerAssumption ==
    /\ None \notin Users \cup Threads
    /\ IsFiniteSet(Threads) /\ IsFiniteSet(Users)
    /\ Sponsor \in [Users -> Users \cup {None}]
    /\ First \in [Threads -> Users]
    /\ COOLDOWN \in Nat /\ EMERGENCY_COOLDOWN \in Nat
    /\ HTTP_RETRIES \in Nat
    /\ MaxLogins \in Nat /\ MaxReplies \in Nat

VARIABLES
    clock,
    locks,        \* _locks: a user's lock, a number; 0: none yet
    made,         \* locks made so far
    holder,       \* the thread that has a lock
    tokens,       \* _tokens: a user's token, a number; 0: None
    last_used,    \* last_used of every token
    thread,       \* the threads
    handed,       \* what get_token has returned of a user (history)
    replies       \* answers so far that were no page

vars == <<clock, locks, made, holder, tokens, last_used, thread, handed, replies>>

LockIds == 1..Cardinality(Threads) * Cardinality(Users)

Init ==
    /\ clock = 0
    /\ locks = [u \in Users |-> 0]
    /\ made = 0
    /\ holder = [l \in LockIds |-> None]
    /\ tokens = [u \in Users |-> 0]
    /\ last_used = <<>>
    /\ thread = [t \in Threads |->
                    [pc |-> "check", op |-> "get", auth |-> First[t], user |-> First[t],
                     held |-> 0, token |-> 0, time |-> 0, retries |-> HTTP_RETRIES]]
    /\ handed = [u \in Users |-> <<>>]
    /\ replies = 0

At(t, pc) == thread[t].pc = pc
Goto(t, pc) == thread' = [thread EXCEPT ![t].pc = pc]
User(t) == thread[t].user
Lock(t) == thread[t].held

-----------------------------------------------------------------------------
\* The lock of the user, which get_token, invalidate and set_cooldown take

\* _ensure_lock looks for the lock of the user ...
CheckLock(t) ==
    /\ At(t, "check")
    /\ Goto(t, IF locks[User(t)] = 0 THEN "make" ELSE "lock")
    /\ UNCHANGED <<clock, locks, made, holder, tokens, last_used, handed, replies>>

\* ... and makes it, even if another thread has made one meanwhile.
MakeLock(t) ==
    /\ At(t, "make")
    /\ made' = made + 1
    /\ locks' = [locks EXCEPT ![User(t)] = made + 1]
    /\ Goto(t, "lock")
    /\ UNCHANGED <<clock, holder, tokens, last_used, handed, replies>>

\* The lock that the thread waits for stays the one it has read.
ReadLock(t) ==
    /\ At(t, "lock")
    /\ thread' = [thread EXCEPT ![t] = [@ EXCEPT !.pc = "acquire", !.held = locks[User(t)]]]
    /\ UNCHANGED <<clock, locks, made, holder, tokens, last_used, handed, replies>>

Acquires(t, op) == At(t, "acquire") /\ thread[t].op = op /\ holder[Lock(t)] = None
Release(t) == holder' = [holder EXCEPT ![Lock(t)] = None]

-----------------------------------------------------------------------------
\* get_token

WaitUntil(t, k, at) ==
    thread' = [thread EXCEPT ![t] = [@ EXCEPT !.pc = "cool", !.token = k, !.time = at + COOLDOWN]]

Acquire(t) ==
    LET k == tokens[User(t)]
    IN  /\ Acquires(t, "get")
        /\ holder' = [holder EXCEPT ![Lock(t)] = t]
        /\ IF k # 0 THEN WaitUntil(t, k, last_used[k]) ELSE Goto(t, "login")
        /\ UNCHANGED <<clock, locks, made, tokens, last_used, handed, replies>>

Login(t) ==
    /\ At(t, "login")
    /\ Len(last_used) < MaxLogins
    /\ last_used' = Append(last_used, clock - COOLDOWN)
    /\ tokens' = [tokens EXCEPT ![User(t)] = Len(last_used')]
    /\ WaitUntil(t, Len(last_used'), clock - COOLDOWN)
    /\ UNCHANGED <<clock, locks, made, holder, handed, replies>>

\* Mutant: the user whose login fails is tried again.
SameUserAgain(t) ==
    /\ At(t, "login")
    /\ Release(t)
    /\ thread' = [thread EXCEPT ![t] = [@ EXCEPT !.pc = "check", !.held = 0]]
    /\ UNCHANGED <<clock, locks, made, tokens, last_used, handed, replies>>

\* AtomyLoginError: _authenticate goes on with the sponsor of the user.
LoginFails(t) ==
    /\ At(t, "login")
    /\ Release(t)
    /\ LET s == Sponsor[User(t)]
       IN  thread' = [thread EXCEPT ![t] =
               IF s = None THEN [@ EXCEPT !.pc = "raised", !.held = 0]
               ELSE [@ EXCEPT !.pc = "check", !.user = s, !.held = 0]]
    /\ UNCHANGED <<clock, locks, made, tokens, last_used, handed, replies>>

\* The thread's turn is now, and it lets the lock go.
TakeTurn(t) ==
    /\ last_used' = [last_used EXCEPT ![thread[t].token] = clock]
    /\ Release(t)
    /\ thread' = [thread EXCEPT ![t] = [@ EXCEPT !.pc = "return", !.held = 0, !.time = clock]]
    /\ UNCHANGED <<clock, locks, made, tokens, handed, replies>>

\* Mutant: the token is handed out as soon as the lock is there.
DoNotWait(t) == At(t, "cool") /\ TakeTurn(t)

\* The thread has slept with the lock taken.
UseToken(t) == At(t, "cool") /\ clock >= thread[t].time /\ TakeTurn(t)

\* What it returns it reads again without the lock. Another thread may have
\* invalidated the token, and the thread fails; or may have logged in since, and
\* the thread gets a token that it has not waited for.
ReturnToken(t) ==
    LET k == tokens[User(t)]
        turn == [token |-> k, at |-> thread[t].time, waited |-> k = thread[t].token]
    IN  /\ At(t, "return")
        /\ handed' = IF k = 0 THEN handed ELSE [handed EXCEPT ![User(t)] = Append(@, turn)]
        /\ thread' = [thread EXCEPT ![t] = [@ EXCEPT !.pc = IF k = 0 THEN "raised" ELSE "request",
                                                    !.token = 0, !.time = 0]]
        /\ UNCHANGED <<clock, locks, made, holder, tokens, last_used, replies>>

-----------------------------------------------------------------------------
\* fetch_tree

PageComes(t) ==
    /\ At(t, "request")
    /\ Goto(t, "done")
    /\ UNCHANGED <<clock, locks, made, holder, tokens, last_used, handed, replies>>

NoPage(t) ==
    /\ At(t, "request")
    /\ replies < MaxReplies /\ replies' = replies + 1
    /\ UNCHANGED <<clock, locks, made, holder, tokens, last_used, handed>>

\* "Not a downline member": the sponsor of the user asked first is next.
NotADownline(t) ==
    /\ NoPage(t)
    /\ LET s == Sponsor[thread[t].auth]
       IN  thread' = [thread EXCEPT ![t] =
               IF s = None THEN [@ EXCEPT !.pc = "raised"]
               ELSE [@ EXCEPT !.pc = "check", !.user = s, !.auth = s]]

Calls(t, op) == [thread[t] EXCEPT !.pc = "check", !.op = op]

\* Another message of error: the user has to cool down.
TooManyRequests(t) ==
    NoPage(t) /\ thread' = [thread EXCEPT ![t] = Calls(t, "cooldown")]

TokenExpired(t) ==
    NoPage(t) /\ thread' = [thread EXCEPT ![t] = Calls(t, "invalidate")]

HTTPFails(t) ==
    /\ NoPage(t)
    /\ thread' = [thread EXCEPT ![t] =
           IF @.retries > 0 THEN [Calls(t, "cooldown") EXCEPT !.retries = @ - 1]
           ELSE [@ EXCEPT !.pc = "raised"]]

TryAgain(t) ==
    thread' = [thread EXCEPT ![t] =
                   [Calls(t, "get") EXCEPT !.user = thread[t].auth, !.held = 0]]

invalidate(t) ==
    /\ Acquires(t, "invalidate")
    /\ tokens' = [tokens EXCEPT ![User(t)] = 0]
    /\ TryAgain(t)
    /\ UNCHANGED <<clock, locks, made, holder, last_used, handed, replies>>

set_cooldown(t) ==
    LET k == tokens[User(t)]
    IN  /\ Acquires(t, "cooldown")
        /\ last_used' = IF k = 0 THEN last_used
                        ELSE [last_used EXCEPT ![k] = clock + EMERGENCY_COOLDOWN]
        /\ TryAgain(t)
        /\ UNCHANGED <<clock, locks, made, holder, tokens, handed, replies>>

\* Time is of no interest but to a thread that sleeps.
Tick ==
    /\ \E t \in Threads : At(t, "cool") /\ clock < thread[t].time
    /\ clock' = clock + 1
    /\ UNCHANGED <<locks, made, holder, tokens, last_used, thread, handed, replies>>

Thread(t) ==
    \/ CheckLock(t) \/ MakeLock(t) \/ ReadLock(t) \/ Acquire(t) \/ Login(t) \/ LoginFails(t)
    \/ UseToken(t) \/ ReturnToken(t) \/ PageComes(t) \/ NotADownline(t)
    \/ TooManyRequests(t) \/ TokenExpired(t) \/ HTTPFails(t) \/ invalidate(t)
    \/ set_cooldown(t)

Ended == \A t \in Threads : thread[t].pc \in {"done", "raised"}
Done == Ended /\ UNCHANGED vars

Next == Tick \/ (\E t \in Threads : Thread(t)) \/ Done

Spec == Init /\ [][Next]_vars
FairSpec == Spec /\ WF_vars(Tick) /\ \A t \in Threads : WF_vars(Thread(t))

-----------------------------------------------------------------------------
\* Shape of the state: locks, tokens and the step each thread is at.
TypeOK ==
    /\ clock \in Nat
    /\ locks \in [Users -> {0} \cup LockIds] /\ made \in {0} \cup LockIds
    /\ holder \in [LockIds -> Threads \cup {None}]
    /\ tokens \in [Users -> 0..Len(last_used)]
    /\ last_used \in Seq(Int)
    /\ thread \in [Threads ->
           [pc : {"check", "make", "lock", "acquire", "login", "cool", "return", "request",
                  "done", "raised"},
            op : {"get", "invalidate", "cooldown"},
            auth : Users, user : Users, held : {0} \cup LockIds, token : 0..Len(last_used),
            time : Int, retries : 0..HTTP_RETRIES]]
    /\ handed \in [Users -> Seq([token : 1..Len(last_used), at : Int, waited : BOOLEAN])]
    /\ replies \in 0..MaxReplies

\* Threads that look for the lock at the same time make one each.
OneLockEach == made = Cardinality({u \in Users : locks[u] # 0})

ApartBy(d, a, b) == a - b >= d \/ b - a >= d

\* "Blocks until the per-user cooldown has elapsed so that we never hit
\* Atomy's rate limit" (get_token), as far as the code keeps it: however the
\* threads interleave, and in whatever order they return, any two turns with one
\* token are a cooldown apart. Two things are left out because the code lets them
\* happen: a turn whose token, read again without the lock, has become another
\* thread's new one (not waited), and threads that have made themselves a lock each.
Spaced ==
    OneLockEach =>
        \A u \in Users : \A i, j \in DOMAIN handed[u] :
            ( /\ i # j /\ handed[u][i].token = handed[u][j].token
              /\ handed[u][i].waited /\ handed[u][j].waited )
                => ApartBy(COOLDOWN, handed[u][i].at, handed[u][j].at)

\* The docstring as it stands, of the user: checked by no run. A new login
\* counts as used a cooldown ago, and a token may be returned unwaited for.
UserIsSpaced ==
    \A u \in Users : \A i, j \in DOMAIN handed[u] :
        i # j => ApartBy(COOLDOWN, handed[u][i].at, handed[u][j].at)

\* Nobody waits for a lock forever: every thread gets its page or fails.
AllEnd == <>Ended
=============================================================================
