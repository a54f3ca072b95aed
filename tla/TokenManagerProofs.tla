-------------------------- MODULE TokenManagerProofs --------------------------
(* That the turns with a token are a cooldown apart, for any number of threads *)
(* and users, any cooldowns and any number of logins and answers.              *)
(*                                                                            *)
(* The argument: a token belongs to one user, a user has one lock, and only    *)
(* the thread that holds it reads or moves the time at which the token was     *)
(* last used. That time is not before any turn with the token, be it one that  *)
(* has been returned or one of a thread about to return.                       *)
EXTENDS TokenManager, FiniteSetTheorems, TLAPS

Locked == {u \in Users : locks[u] # 0}

Holding == {"login", "cool"}

Places ==
    {"check", "make", "lock", "acquire", "login", "cool", "return", "request", "done", "raised"}

Ops == {"get", "invalidate", "cooldown"}

Records == [pc : Places, op : Ops, auth : Users, user : Users, held : Nat, token : Nat,
            time : Int, retries : Int]

Turns == [token : Nat, at : Int, waited : BOOLEAN]

\* Shape of the state, with no bound on the locks that are made.
Typed ==
    /\ clock \in Nat
    /\ locks \in [Users -> Nat] /\ made \in Nat
    /\ holder \in [LockIds -> Threads \cup {None}]
    /\ tokens \in [Users -> Nat]
    /\ last_used \in Seq(Int)
    /\ handed \in [Users -> Seq(Turns)]
    /\ thread \in [Threads -> Records]

\* Every lock and every token is one user's, and there are at least as many
\* locks as users that have one.
OwnedByOne ==
    /\ \A u \in Users : locks[u] <= made /\ tokens[u] <= Len(last_used)
    /\ \A u, v \in Users : locks[u] = locks[v] /\ locks[u] # 0 => u = v
    /\ \A u, v \in Users : tokens[u] = tokens[v] /\ tokens[u] # 0 => u = v
    /\ Cardinality(Locked) <= made

\* The lock that a thread waits for or holds is the one lock of its user.
LockOf(r) ==
    /\ r.pc = "lock" => locks[r.user] # 0
    /\ r.pc = "acquire" \/ r.pc \in Holding => r.held # 0 /\ r.held = locks[r.user]

\* A thread that logs in or sleeps holds its lock, and sleeps for the token the
\* user has, until it may be used again.
HoldsItsLock(t) ==
    LET r == thread[t]
    IN  /\ LockOf(r)
        /\ r.pc \in Holding => holder[r.held] = t
        /\ r.pc = "cool" => /\ r.token # 0 /\ r.token = tokens[r.user]
                            /\ r.time >= last_used[r.token] + COOLDOWN

Before(k, at) == k \in 1..Len(last_used) /\ at <= last_used[k] /\ at <= clock

\* No turn with a token is after its last use or still to come.
TurnsBefore ==
    /\ \A u \in Users : \A i \in DOMAIN handed[u] :
           handed[u][i].waited => Before(handed[u][i].token, handed[u][i].at)
    /\ \A x \in Threads : thread[x].pc = "return" => Before(thread[x].token, thread[x].time)

\* Turns that have been returned.
DoneApart ==
    \A u \in Users : \A i, j \in DOMAIN handed[u] :
        ( /\ i # j /\ handed[u][i].token = handed[u][j].token
          /\ handed[u][i].waited /\ handed[u][j].waited )
            => ApartBy(COOLDOWN, handed[u][i].at, handed[u][j].at)

\* A turn that has been returned and one that is about to be.
LaterApart ==
    \A x \in Threads, u \in Users : \A i \in DOMAIN handed[u] :
        ( /\ thread[x].pc = "return"
          /\ handed[u][i].waited /\ handed[u][i].token = thread[x].token )
            => ApartBy(COOLDOWN, handed[u][i].at, thread[x].time)

\* Turns that are about to be returned.
ReturningApart ==
    \A x, y \in Threads :
        ( /\ x # y /\ thread[x].pc = "return" /\ thread[y].pc = "return"
          /\ thread[x].token = thread[y].token )
            => ApartBy(COOLDOWN, thread[x].time, thread[y].time)

TurnsApart == TurnsBefore /\ DoneApart /\ LaterApart /\ ReturningApart

Safe == (\A t \in Threads : HoldsItsLock(t)) /\ TurnsApart

IInv == Typed /\ OwnedByOne /\ (OneLockEach => Safe)

------------------------------------------------------------------------------
\* While there is one lock for each user, the locks are within bounds.
LEMMA LockWithinBounds ==
    ASSUME Typed, OwnedByOne, OneLockEach, NEW t \in Threads, NEW u \in Users, locks[u] # 0
    PROVE  locks[u] \in LockIds
<1>1. IsFiniteSet(Users) /\ IsFiniteSet(Threads)
  BY TokenManagerAssumption
<1>2. Cardinality(Locked) <= Cardinality(Users)
  BY <1>1, FS_Subset DEF Locked
<1>3. Cardinality(Users) \in Nat /\ Cardinality(Threads) \in Nat
  BY <1>1, FS_CardinalityType
<1>4. Cardinality(Threads) # 0
  BY <1>1, FS_EmptySet
<1>5. Cardinality(Threads) * Cardinality(Users) >= Cardinality(Users)
  <2>1. \A c, n \in Nat : c # 0 => c * n >= n
    OBVIOUS
  <2> QED BY <2>1, <1>3, <1>4
<1>6. locks[u] <= Cardinality(Users) /\ locks[u] \in Nat
  <2>1. locks[u] \in Nat
    BY DEF Typed
  <2>2. locks[u] <= made /\ made = Cardinality(Locked)
    BY DEF OneLockEach, OwnedByOne, Locked
  <2>3. Cardinality(Locked) \in Nat
    BY <1>1, FS_Subset, FS_CardinalityType DEF Locked
  <2> QED BY <1>2, <1>3, <2>1, <2>2, <2>3
<1>7. Cardinality(Threads) * Cardinality(Users) \in Nat
  BY <1>3
<1> QED BY <1>3, <1>5, <1>6, <1>7 DEF LockIds

\* A step of t leaves the other threads where they are.
LEMMA OthersStay ==
    ASSUME Typed, NEW t \in Threads, NEW r \in Records, thread' = [thread EXCEPT ![t] = r]
    PROVE  /\ thread' \in [Threads -> Records]
           /\ thread'[t] = r
           /\ \A x \in Threads \ {t} : thread'[x] = thread[x]
BY DEF Typed

\* A thread that was about to return is still there, as it was.
NoneReturns == \A x \in Threads : thread'[x].pc = "return" => thread'[x] = thread[x]

\* Uses of a token are only moved on: to a later time than the last, or to now
\* or later.
UsesMoveOn ==
    \A k \in 1..Len(last_used) :
        k \in 1..Len(last_used') /\ (last_used'[k] >= last_used[k] \/ last_used'[k] >= clock)

\* The same after the step.
StillBefore(k, at) == k \in 1..Len(last_used') /\ at <= last_used'[k] /\ at <= clock'

\* The turns stay apart when no thread takes its turn or returns.
LEMMA TurnsStay ==
    ASSUME Typed, Typed', TurnsApart, handed' = handed, clock' >= clock, NoneReturns, UsesMoveOn
    PROVE  TurnsApart'
<1>1. ASSUME NEW k, NEW at \in Int, Before(k, at) PROVE StillBefore(k, at)
  <2>1. /\ k \in 1..Len(last_used) /\ k \in 1..Len(last_used')
        /\ last_used'[k] >= last_used[k] \/ last_used'[k] >= clock
        /\ at <= last_used[k] /\ at <= clock
    BY <1>1 DEF Before, UsesMoveOn
  <2>2. last_used[k] \in Int /\ last_used'[k] \in Int /\ clock \in Int /\ clock' \in Int
    BY <2>1 DEF Typed
  <2> QED BY <2>1, <2>2 DEF StillBefore
<1>2. \A u \in Users : \A i \in DOMAIN handed[u] : handed[u][i].at \in Int
  <2>1. ASSUME NEW u \in Users, NEW i \in DOMAIN handed[u] PROVE handed[u][i] \in Turns
    <3>1. handed[u] \in Seq(Turns)
      BY DEF Typed
    <3> QED BY <3>1
  <2> QED BY <2>1 DEF Turns
<1>3. \A x \in Threads : thread[x].time \in Int
  BY DEF Typed, Records
<1>4. TurnsBefore'
  <2>1. ASSUME NEW u \in Users, NEW i \in DOMAIN handed[u], handed[u][i].waited
        PROVE  StillBefore(handed[u][i].token, handed[u][i].at)
    BY <1>1, <1>2, <2>1 DEF TurnsApart, TurnsBefore
  <2>2. ASSUME NEW x \in Threads, thread'[x].pc = "return"
        PROVE  StillBefore(thread[x].token, thread[x].time)
    BY <1>1, <1>3, <2>2 DEF TurnsApart, TurnsBefore, NoneReturns
  <2> QED BY <2>1, <2>2 DEF TurnsBefore, Before, StillBefore, NoneReturns
<1>5. DoneApart'
  BY DEF TurnsApart, DoneApart
<1>6. LaterApart'
  BY DEF TurnsApart, LaterApart, NoneReturns
<1>7. ReturningApart'
  BY DEF TurnsApart, ReturningApart, NoneReturns
<1> QED BY <1>4, <1>5, <1>6, <1>7 DEF TurnsApart

\* A step that changes the thread t alone, which neither holds a lock nor is
\* about to return, before or after.
Quiet(t, r) ==
    /\ thread' = [thread EXCEPT ![t] = r] /\ r \in Records
    /\ thread[t].pc \notin Holding \cup {"return"} /\ r.pc \notin Holding \cup {"return"}
    /\ OneLockEach /\ Safe => LockOf(r)
    /\ UNCHANGED <<clock, locks, made, holder, tokens, last_used, handed>>

\* Such a step keeps the invariant.
LEMMA QuietKeeps ==
    ASSUME IInv, NEW t \in Threads, NEW r, Quiet(t, r)
    PROVE  IInv'
<1>1. OwnedByOne'
  BY DEF IInv, Quiet, OwnedByOne, Locked
<1>2. /\ thread'[t] = r
      /\ \A x \in Threads \ {t} : thread'[x] = thread[x]
      /\ thread' \in [Threads -> Records]
  BY DEF IInv, Typed, Quiet
<1>3. Typed'
  BY <1>2 DEF IInv, Typed, Quiet
<1>4. ASSUME OneLockEach' PROVE Safe'
  <2>1. OneLockEach /\ Safe
    BY <1>4 DEF IInv, Quiet, OneLockEach
  <2>2. ASSUME NEW x \in Threads PROVE HoldsItsLock(x)'
    <3>1. CASE x = t
      <4>1. r.pc \notin Holding /\ r.pc # "cool" /\ LockOf(r) /\ locks' = locks
        BY <2>1 DEF Quiet, Holding
      <4> QED BY <1>2, <3>1, <4>1 DEF HoldsItsLock, LockOf
    <3>2. CASE x # t
      BY <1>2, <2>1, <3>2 DEF Safe, HoldsItsLock, LockOf, Quiet
    <3> QED BY <3>1, <3>2
  <2>3. /\ NoneReturns /\ UsesMoveOn /\ handed' = handed /\ clock' >= clock
        /\ Typed /\ TurnsApart
    <3>1. NoneReturns
      BY <1>2 DEF NoneReturns, Quiet
    <3>2. clock \in Int /\ Typed /\ TurnsApart
      BY <2>1 DEF IInv, Typed, Safe
    <3>3. last_used' = last_used /\ clock' = clock /\ handed' = handed
      BY DEF Quiet
    <3>4. \A k \in 1..Len(last_used) : last_used[k] \in Int
      BY <3>2 DEF Typed
    <3> QED BY <3>1, <3>2, <3>3, <3>4 DEF UsesMoveOn
  <2> QED BY <1>3, <2>2, <2>3, TurnsStay DEF Safe
<1> QED BY <1>1, <1>3, <1>4 DEF IInv

\* The steps that are quiet.
LEMMA QuietSteps ==
    ASSUME IInv, NEW t \in Threads,
           \/ CheckLock(t) \/ ReadLock(t) \/ PageComes(t) \/ NotADownline(t)
           \/ TooManyRequests(t) \/ TokenExpired(t) \/ HTTPFails(t)
    PROVE  IInv'
<1> USE DEF At
<1>1. thread[t] \in Records /\ thread[t].user \in Users /\ locks \in [Users -> Nat]
  BY DEF IInv, Typed, Records
<1>2. ASSUME NEW r \in Records, thread' = [thread EXCEPT ![t] = r],
             r.pc \in {"make", "check", "request", "done", "raised"},
             thread[t].pc \in {"check", "request"},
             UNCHANGED <<clock, locks, made, holder, tokens, last_used, handed>>
      PROVE  IInv'
  <2>1. Quiet(t, r)
    BY <1>2 DEF Quiet, Holding, LockOf
  <2> QED BY <2>1, QuietKeeps
<1>3. CASE CheckLock(t)
  <2>1. CASE locks[thread[t].user] = 0
    <3> DEFINE r == [thread[t] EXCEPT !.pc = "make"]
    <3>1. r \in Records /\ r.pc = "make"
      BY <1>1 DEF Records, Places
    <3>2. thread' = [thread EXCEPT ![t] = r]
      BY <1>3, <2>1 DEF CheckLock, Goto, User
    <3> HIDE DEF r
    <3> QED BY <1>2, <1>3, <3>1, <3>2 DEF CheckLock
  <2>2. CASE locks[thread[t].user] # 0
    <3> DEFINE r == [thread[t] EXCEPT !.pc = "lock"]
    <3>1. r \in Records /\ r.pc = "lock" /\ r.user = thread[t].user
      BY <1>1 DEF Records, Places
    <3>2. thread' = [thread EXCEPT ![t] = r]
      BY <1>3, <2>2 DEF CheckLock, Goto, User
    <3> HIDE DEF r
    <3>3. Quiet(t, r)
      BY <1>3, <2>2, <3>1, <3>2 DEF CheckLock, Quiet, Holding, LockOf
    <3> QED BY <3>3, QuietKeeps
  <2> QED BY <2>1, <2>2
<1>4. CASE ReadLock(t)
  <2> DEFINE l == locks[thread[t].user]
             r == [thread[t] EXCEPT !.pc = "acquire", !.held = l]
  <2>1. r \in Records /\ r.pc = "acquire" /\ r.user = thread[t].user /\ r.held = l
    <3>1. l \in Nat
      BY <1>1
    <3> HIDE DEF l
    <3> QED BY <1>1, <3>1 DEF Records, Places
  <2>2. thread' = [thread EXCEPT ![t] = r]
    BY <1>4 DEF ReadLock, User
  <2>3. Safe => l # 0
    BY <1>4 DEF ReadLock, Safe, HoldsItsLock, LockOf
  <2> HIDE DEF r
  <2>4. Quiet(t, r)
    BY <1>4, <2>1, <2>2, <2>3 DEF ReadLock, Quiet, Holding, LockOf
  <2> QED BY <2>4, QuietKeeps
<1>5. CASE PageComes(t)
  <2> DEFINE r == [thread[t] EXCEPT !.pc = "done"]
  <2>1. r \in Records /\ r.pc = "done" /\ thread' = [thread EXCEPT ![t] = r]
    BY <1>1, <1>5 DEF Records, Places, PageComes, Goto
  <2> HIDE DEF r
  <2> QED BY <1>2, <1>5, <2>1 DEF PageComes
<1>6. CASE NotADownline(t)
  <2> DEFINE s == Sponsor[thread[t].auth]
             raised == [thread[t] EXCEPT !.pc = "raised"]
             up == [thread[t] EXCEPT !.pc = "check", !.user = s, !.auth = s]
  <2>1. raised \in Records /\ raised.pc = "raised"
    BY <1>1 DEF Records, Places
  <2>2. s # None => up \in Records /\ up.pc = "check"
    <3>1. s # None => s \in Users
      BY <1>1, TokenManagerAssumption DEF Records
    <3> HIDE DEF s
    <3> QED BY <1>1, <3>1 DEF Records, Places
  <2>3. thread' = [thread EXCEPT ![t] = IF s = None THEN raised ELSE up]
    BY <1>6 DEF NotADownline
  <2> HIDE DEF raised, up, s
  <2> QED BY <1>2, <1>6, <2>1, <2>2, <2>3 DEF NotADownline, NoPage
<1>7. ASSUME TooManyRequests(t) \/ TokenExpired(t) PROVE IInv'
  <2>1. PICK op \in Ops : thread' = [thread EXCEPT ![t] = Calls(t, op)]
    BY <1>7, Zenon DEF TooManyRequests, TokenExpired, Ops
  <2>2. Calls(t, op) \in Records /\ Calls(t, op).pc = "check"
    BY <1>1 DEF Calls, Records, Places
  <2> QED BY <1>2, <1>7, <2>1, <2>2 DEF TooManyRequests, TokenExpired, NoPage
<1>8. CASE HTTPFails(t)
  <2> DEFINE n == thread[t].retries - 1
             called == [Calls(t, "cooldown") EXCEPT !.retries = @ - 1]
             raised == [thread[t] EXCEPT !.pc = "raised"]
  <2>1. raised \in Records /\ raised.pc = "raised"
    BY <1>1 DEF Records, Places
  <2>2. called \in Records /\ called.pc = "check"
    <3>1. Calls(t, "cooldown") \in Records /\ Calls(t, "cooldown").pc = "check"
      BY <1>1 DEF Records, Places, Calls, Ops
    <3>2. Calls(t, "cooldown").retries - 1 \in Int
      BY <3>1 DEF Records
    <3> QED BY <3>1, <3>2 DEF Records
  <2>3. thread' = [thread EXCEPT ![t] = IF thread[t].retries > 0 THEN called ELSE raised]
    BY <1>8 DEF HTTPFails
  <2> HIDE DEF called, raised
  <2> QED BY <1>2, <1>8, <2>1, <2>2, <2>3 DEF HTTPFails, NoPage
<1> QED BY <1>3, <1>4, <1>5, <1>6, <1>7, <1>8

------------------------------------------------------------------------------
\* Two threads that hold a lock are at work for different users.
LEMMA HoldersDiffer ==
    ASSUME Safe, NEW x \in Threads, NEW y \in Threads, x # y,
           thread[x].pc \in Holding, thread[y].pc \in Holding
    PROVE  /\ thread[x].user # thread[y].user
           /\ thread[x].held # thread[y].held
BY DEF Safe, HoldsItsLock, LockOf

\* The user of a thread that finds its lock free is no user for whom a thread
\* holds a lock.
LEMMA FreeIsNotHeld ==
    ASSUME Safe, NEW t \in Threads, thread[t].pc = "acquire", holder[thread[t].held] = None,
           NEW x \in Threads, thread[x].pc \in Holding
    PROVE  thread[x].user # thread[t].user
BY TokenManagerAssumption DEF Safe, HoldsItsLock, LockOf

\* A lock is made: the first of its user, or one too many.
LEMMA MakeLockKeeps ==
    ASSUME IInv, NEW t \in Threads, MakeLock(t)
    PROVE  IInv'
<1> DEFINE u == thread[t].user
           r == [thread[t] EXCEPT !.pc = "lock"]
<1>1. Typed /\ OwnedByOne /\ thread[t] \in Records /\ u \in Users
  BY DEF IInv, Typed, Records
<1>2. r \in Records /\ r.pc = "lock" /\ r.user = u /\ thread' = [thread EXCEPT ![t] = r]
  BY <1>1 DEF MakeLock, Goto, Records, Places
<1>3. /\ made' = made + 1 /\ locks' = [locks EXCEPT ![u] = made + 1] /\ thread[t].pc = "make"
      /\ UNCHANGED <<clock, holder, tokens, last_used, handed>>
  BY DEF MakeLock, User, At
<1> HIDE DEF r
<1>4. /\ thread' \in [Threads -> Records] /\ thread'[t] = r
      /\ \A x \in Threads \ {t} : thread'[x] = thread[x]
  BY <1>1, <1>2, OthersStay
<1>5. /\ locks' \in [Users -> Nat] /\ locks'[u] = made + 1
      /\ \A v \in Users \ {u} : locks'[v] = locks[v]
  BY <1>1, <1>3 DEF Typed
<1>6. Typed'
  BY <1>1, <1>3, <1>4, <1>5 DEF Typed
<1>7. IsFiniteSet(Locked)
  BY TokenManagerAssumption, FS_Subset DEF Locked
<1>8. /\ Cardinality(Locked') <= made'
      /\ made' = Cardinality(Locked') => locks[u] = 0 /\ OneLockEach
  <2>1. Cardinality(Locked) \in Nat /\ Cardinality(Locked) <= made /\ made \in Nat
    BY <1>1, <1>7, FS_CardinalityType DEF OwnedByOne, Typed
  <2>2. CASE locks[u] = 0
    <3>1. Locked' = Locked \cup {u} /\ u \notin Locked
      BY <1>1, <1>3, <1>5, <2>1, <2>2 DEF Locked
    <3>2. Cardinality(Locked') = Cardinality(Locked) + 1
      BY <1>7, <3>1, FS_AddElement
    <3> QED BY <1>3, <2>1, <2>2, <3>2 DEF OneLockEach, Locked
  <2>3. CASE locks[u] # 0
    <3>1. Locked' = Locked
      BY <1>1, <1>3, <1>5, <2>1, <2>3 DEF Locked
    <3> QED BY <1>3, <2>1, <3>1
  <2> QED BY <2>2, <2>3
<1>9. OwnedByOne'
  <2>1. \A v \in Users : locks'[v] <= made' /\ tokens'[v] <= Len(last_used')
    BY <1>1, <1>3, <1>5 DEF OwnedByOne, Typed
  <2>2. \A v, w \in Users : locks'[v] = locks'[w] /\ locks'[v] # 0 => v = w
    BY <1>1, <1>3, <1>5 DEF OwnedByOne, Typed
  <2> QED BY <1>1, <1>3, <1>8, <2>1, <2>2 DEF OwnedByOne
<1>10. ASSUME OneLockEach' PROVE Safe'
  <2>1. Safe /\ locks[u] = 0
    BY <1>8, <1>10 DEF OneLockEach, Locked, IInv
  <2>2. ASSUME NEW x \in Threads PROVE HoldsItsLock(x)'
    <3>1. CASE x = t
      <4>1. locks'[u] # 0
        BY <1>1, <1>5 DEF Typed
      <4> QED BY <1>2, <1>4, <3>1, <4>1 DEF HoldsItsLock, LockOf, Holding
    <3>2. CASE x # t
      <4>1. HoldsItsLock(x) /\ thread'[x] = thread[x] /\ thread[x].user \in Users
        BY <1>1, <1>4, <2>1, <3>2 DEF Safe, Typed, Records
      <4>2. thread[x].pc \in Holding \cup {"lock", "acquire"} => thread[x].user # u
        BY <2>1, <4>1 DEF HoldsItsLock, LockOf
      <4>3. thread[x].pc \in Holding \cup {"lock", "acquire"}
               => locks'[thread[x].user] = locks[thread[x].user]
        BY <1>5, <4>1, <4>2
      <4> QED BY <1>3, <4>1, <4>3 DEF HoldsItsLock, LockOf, Holding
    <3> QED BY <3>1, <3>2
  <2>3. NoneReturns /\ UsesMoveOn /\ clock' >= clock
    BY <1>1, <1>2, <1>3, <1>4 DEF NoneReturns, UsesMoveOn, Typed
  <2> QED BY <1>1, <1>3, <1>6, <2>1, <2>2, <2>3, TurnsStay DEF Safe
<1> QED BY <1>6, <1>9, <1>10 DEF IInv

\* A lock is taken: nobody else held it.
LEMMA AcquireKeeps ==
    ASSUME IInv, NEW t \in Threads, Acquire(t)
    PROVE  IInv'
<1> DEFINE u == thread[t].user
           l == thread[t].held
           k == tokens[u]
           at == last_used[k] + COOLDOWN
           cool == [thread[t] EXCEPT !.pc = "cool", !.token = k, !.time = at]
           login == [thread[t] EXCEPT !.pc = "login"]
           r == IF k # 0 THEN cool ELSE login
<1>1. Typed /\ OwnedByOne /\ thread[t] \in Records /\ u \in Users /\ l \in Nat
  BY DEF IInv, Typed, Records
<1>2. /\ thread[t].pc = "acquire" /\ holder[l] = None /\ holder' = [holder EXCEPT ![l] = t]
      /\ thread' = [thread EXCEPT ![t] = r]
      /\ UNCHANGED <<clock, locks, made, tokens, last_used, handed>>
  BY DEF Acquire, Acquires, At, Lock, Goto, User, WaitUntil
<1>3. k \in Nat /\ (k # 0 => at \in Int)
  <2>1. k \in Nat /\ k <= Len(last_used)
    BY <1>1 DEF Typed, OwnedByOne
  <2>2. k # 0 => last_used[k] \in Int
    BY <1>1, <2>1 DEF Typed
  <2> QED BY <2>1, <2>2, TokenManagerAssumption
<1>4. /\ r \in Records /\ r.user = u /\ r.held = l /\ r.pc = (IF k # 0 THEN "cool" ELSE "login")
      /\ k # 0 => r.token = k /\ r.time = at
  <2> HIDE DEF k, at
  <2>1. CASE k # 0
    <3>1. /\ cool \in Records /\ cool.user = u /\ cool.held = l /\ cool.pc = "cool"
          /\ cool.token = k /\ cool.time = at
      BY <1>1, <1>3, <2>1 DEF Records, Places
    <3>2. r = cool
      BY <2>1
    <3> HIDE DEF r, cool
    <3> QED BY <2>1, <3>1, <3>2
  <2>2. CASE k = 0
    <3>1. login \in Records /\ login.user = u /\ login.held = l /\ login.pc = "login"
      BY <1>1 DEF Records, Places
    <3>2. r = login
      BY <2>2
    <3> HIDE DEF r, login
    <3> QED BY <2>2, <3>1, <3>2
  <2> QED BY <2>1, <2>2
<1> HIDE DEF r
<1>5. /\ thread' \in [Threads -> Records] /\ thread'[t] = r
      /\ \A x \in Threads \ {t} : thread'[x] = thread[x]
  BY <1>1, <1>2, <1>4, OthersStay
<1>6. Typed'
  BY <1>1, <1>2, <1>5 DEF Typed
<1>7. OwnedByOne'
  BY <1>1, <1>2 DEF OwnedByOne, Locked
<1>8. ASSUME OneLockEach' PROVE Safe'
  <2>1. OneLockEach /\ Safe
    BY <1>2, <1>8 DEF OneLockEach, IInv
  <2>2. l = locks[u] /\ l # 0
    BY <1>2, <2>1 DEF Safe, HoldsItsLock, LockOf
  <2>3. l \in LockIds
    BY <1>1, <2>1, <2>2, LockWithinBounds
  <2>4. holder'[l] = t /\ \A m \in LockIds \ {l} : holder'[m] = holder[m]
    BY <1>1, <1>2, <2>3 DEF Typed
  <2>5. ASSUME NEW x \in Threads PROVE HoldsItsLock(x)'
    <3>1. CASE x = t
      <4>1. k # 0 => r.time >= last_used[k] + COOLDOWN
        BY <1>3, <1>4
      <4> QED BY <1>2, <1>4, <1>5, <2>2, <2>4, <3>1, <4>1 DEF HoldsItsLock, LockOf
    <3>2. CASE x # t
      <4>1. HoldsItsLock(x) /\ thread'[x] = thread[x] /\ thread[x].user \in Users
        BY <1>1, <1>5, <2>1, <3>2 DEF Safe, Typed, Records
      <4>2. ASSUME thread[x].pc \in Holding PROVE holder'[thread[x].held] = x
        <5>1. thread[x].held # 0 /\ thread[x].held = locks[thread[x].user]
              /\ holder[thread[x].held] = x
          BY <4>1, <4>2 DEF HoldsItsLock, LockOf
        <5>2. thread[x].held \in LockIds
          BY <1>1, <2>1, <4>1, <5>1, LockWithinBounds
        <5>3. thread[x].held # l
          BY <1>2, <5>1, TokenManagerAssumption
        <5> QED BY <2>4, <5>1, <5>2, <5>3
      <4> QED BY <1>2, <4>1, <4>2 DEF HoldsItsLock, LockOf
    <3> QED BY <3>1, <3>2
  <2>6. NoneReturns /\ UsesMoveOn /\ clock' >= clock
    BY <1>1, <1>2, <1>4, <1>5 DEF NoneReturns, UsesMoveOn, Typed
  <2> QED BY <1>1, <1>2, <1>6, <2>1, <2>5, <2>6, TurnsStay DEF Safe
<1> QED BY <1>6, <1>7, <1>8 DEF IInv

\* A new token, for the user whose lock the thread holds.
LEMMA LoginKeeps ==
    ASSUME IInv, NEW t \in Threads, Login(t)
    PROVE  IInv'
<1> DEFINE u == thread[t].user
           l == thread[t].held
           n == Len(last_used) + 1
           at == clock - COOLDOWN + COOLDOWN
           r == [thread[t] EXCEPT !.pc = "cool", !.token = n, !.time = at]
<1>1. /\ Typed /\ OwnedByOne /\ thread[t] \in Records /\ u \in Users
      /\ l \in Nat /\ n \in Nat /\ n # 0 /\ COOLDOWN \in Nat /\ clock \in Nat
  <2>1. Typed /\ OwnedByOne /\ thread[t] \in Records
    BY DEF IInv, Typed
  <2>2. u \in Users /\ l \in Nat
    BY <2>1 DEF Records
  <2>3. Len(last_used) \in Nat /\ clock \in Nat
    BY <2>1 DEF Typed
  <2> QED BY <2>1, <2>2, <2>3, TokenManagerAssumption
<1>2. /\ last_used' = Append(last_used, clock - COOLDOWN) /\ Len(last_used') = n
      /\ tokens' = [tokens EXCEPT ![u] = n]
      /\ thread[t].pc = "login"
      /\ UNCHANGED <<clock, locks, made, holder, handed>>
  BY <1>1 DEF Login, At, User, Typed
<1>3. thread' = [thread EXCEPT ![t] = r]
  BY <1>2 DEF Login, WaitUntil
<1>4. r \in Records /\ r.user = u /\ r.held = l /\ r.pc = "cool" /\ r.token = n /\ r.time = at
  <2>1. at \in Int
    BY <1>1
  <2> HIDE DEF n, at
  <2>2. r \in Records /\ r.user = u /\ r.held = l /\ r.pc = "cool" /\ r.token = n /\ r.time = at
    BY <1>1, <2>1 DEF Records, Places
  <2> QED BY <2>2
<1> HIDE DEF r
<1>5. /\ thread' \in [Threads -> Records] /\ thread'[t] = r
      /\ \A x \in Threads \ {t} : thread'[x] = thread[x]
  BY <1>1, <1>3, <1>4, OthersStay
<1>6. /\ tokens' \in [Users -> Nat] /\ tokens'[u] = n
      /\ \A v \in Users \ {u} : tokens'[v] = tokens[v]
  BY <1>1, <1>2 DEF Typed
<1>7. /\ last_used' \in Seq(Int) /\ last_used'[n] = clock - COOLDOWN
      /\ \A k \in 1..Len(last_used) : last_used'[k] = last_used[k]
  BY <1>1, <1>2 DEF Typed
<1>8. Typed'
  BY <1>1, <1>2, <1>5, <1>6, <1>7 DEF Typed
<1>9. OwnedByOne'
  <2>1. \A v \in Users : tokens[v] \in Nat /\ tokens[v] <= Len(last_used)
    BY <1>1 DEF OwnedByOne, Typed
  <2>2. \A v \in Users : tokens'[v] <= Len(last_used')
    BY <1>1, <1>2, <1>6, <2>1
  <2>3. \A v, w \in Users : tokens'[v] = tokens'[w] /\ tokens'[v] # 0 => v = w
    BY <1>1, <1>2, <1>6, <2>1 DEF OwnedByOne
  <2> QED BY <1>1, <1>2, <2>2, <2>3 DEF OwnedByOne, Locked
<1>10. ASSUME OneLockEach' PROVE Safe'
  <2>1. OneLockEach /\ Safe
    BY <1>2, <1>10 DEF OneLockEach, IInv
  <2>2. ASSUME NEW x \in Threads PROVE HoldsItsLock(x)'
    <3>1. CASE x = t
      <4>1. l # 0 /\ l = locks[u] /\ holder[l] = t
        BY <1>2, <2>1 DEF Safe, HoldsItsLock, LockOf, Holding
      <4>2. r.time >= last_used'[n] + COOLDOWN
        BY <1>1, <1>4, <1>7
      <4> QED BY <1>1, <1>2, <1>4, <1>5, <1>6, <3>1, <4>1, <4>2 DEF HoldsItsLock, LockOf
    <3>2. CASE x # t
      <4>1. HoldsItsLock(x) /\ thread'[x] = thread[x] /\ thread[x].user \in Users
        BY <1>1, <1>5, <2>1, <3>2 DEF Safe, Typed, Records
      <4>2. ASSUME thread[x].pc = "cool"
            PROVE  /\ tokens'[thread[x].user] = tokens[thread[x].user]
                   /\ last_used'[thread[x].token] = last_used[thread[x].token]
        <5>1. thread[x].user # u
          BY <1>2, <2>1, <3>2, <4>2, HoldersDiffer DEF Holding
        <5>2. thread[x].token # 0 /\ thread[x].token = tokens[thread[x].user]
          BY <4>1, <4>2 DEF HoldsItsLock
        <5>3. thread[x].token \in 1..Len(last_used)
          BY <1>1, <4>1, <5>2 DEF OwnedByOne, Typed
        <5> QED BY <1>6, <1>7, <4>1, <5>1, <5>3
      <4> QED BY <1>2, <4>1, <4>2 DEF HoldsItsLock, LockOf, Holding
    <3> QED BY <3>1, <3>2
  <2>3. NoneReturns /\ UsesMoveOn /\ clock' >= clock
    <3>1. NoneReturns /\ clock' >= clock
      BY <1>1, <1>2, <1>4, <1>5 DEF NoneReturns
    <3>2. ASSUME NEW k \in 1..Len(last_used)
          PROVE  k \in 1..Len(last_used') /\ last_used'[k] >= last_used[k]
      <4>1. last_used[k] \in Int /\ Len(last_used) \in Nat
        BY <1>1, <3>2 DEF Typed
      <4> QED BY <1>2, <1>7, <3>2, <4>1
    <3> QED BY <3>1, <3>2 DEF UsesMoveOn
  <2> QED BY <1>1, <1>2, <1>8, <2>1, <2>2, <2>3, TurnsStay DEF Safe
<1> QED BY <1>8, <1>9, <1>10 DEF IInv

\* A thread that lets its lock go leaves the others theirs.
LEMMA OthersHold ==
    ASSUME Typed, Safe, NEW t \in Threads, thread[t].pc \in Holding, Release(t),
           NEW x \in Threads \ {t}, thread[x].pc \in Holding
    PROVE  holder'[thread[x].held] = x
<1>1. thread[x].held # thread[t].held
  BY HoldersDiffer
<1>2. holder[thread[x].held] = x
  BY DEF Safe, HoldsItsLock
<1>3. holder'[thread[x].held] = holder[thread[x].held]
  BY <1>1 DEF Release, Lock, Typed
<1> QED BY <1>2, <1>3

\* The login fails: the lock is let go.
LEMMA LoginFailsKeeps ==
    ASSUME IInv, NEW t \in Threads, LoginFails(t)
    PROVE  IInv'
<1> DEFINE s == Sponsor[thread[t].user]
           raised == [thread[t] EXCEPT !.pc = "raised", !.held = 0]
           up == [thread[t] EXCEPT !.pc = "check", !.user = s, !.held = 0]
           r == IF s = None THEN raised ELSE up
<1>1. Typed /\ OwnedByOne /\ thread[t] \in Records
  BY DEF IInv, Typed
<1>2. /\ thread' = [thread EXCEPT ![t] = r] /\ thread[t].pc = "login" /\ Release(t)
      /\ UNCHANGED <<clock, locks, made, tokens, last_used, handed>>
  BY DEF LoginFails, At, User
<1>3. r \in Records /\ r.pc \in {"check", "raised"}
  <2>1. raised \in Records /\ raised.pc = "raised"
    BY <1>1 DEF Records, Places
  <2>2. ASSUME s # None PROVE up \in Records /\ up.pc = "check"
    <3>1. s \in Users
      BY <1>1, <2>2, TokenManagerAssumption DEF Records
    <3> HIDE DEF s
    <3> QED BY <1>1, <3>1 DEF Records, Places
  <2> HIDE DEF s, raised, up
  <2> QED BY <2>1, <2>2
<1> HIDE DEF r
<1>4. /\ thread' \in [Threads -> Records] /\ thread'[t] = r
      /\ \A x \in Threads \ {t} : thread'[x] = thread[x]
  BY <1>1, <1>2, <1>3, OthersStay
<1>5. Typed'
  BY <1>1, <1>2, <1>4 DEF Typed, Release
<1>6. OwnedByOne'
  BY <1>1, <1>2 DEF OwnedByOne, Locked
<1>7. ASSUME OneLockEach' PROVE Safe'
  <2>1. OneLockEach /\ Safe
    BY <1>2, <1>7 DEF OneLockEach, IInv
  <2>2. ASSUME NEW x \in Threads PROVE HoldsItsLock(x)'
    <3>1. CASE x = t
      BY <1>3, <1>4, <3>1 DEF HoldsItsLock, LockOf, Holding
    <3>2. CASE x # t
      <4>1. HoldsItsLock(x) /\ thread'[x] = thread[x]
        BY <1>4, <2>1, <3>2 DEF Safe
      <4>2. thread[x].pc \in Holding => holder'[thread[x].held] = x
        BY <1>1, <1>2, <2>1, <3>2, OthersHold DEF Holding
      <4> QED BY <1>2, <4>1, <4>2 DEF HoldsItsLock, LockOf
    <3> QED BY <3>1, <3>2
  <2>3. NoneReturns /\ UsesMoveOn /\ clock' >= clock
    BY <1>1, <1>2, <1>3, <1>4 DEF NoneReturns, UsesMoveOn, Typed
  <2> QED BY <1>1, <1>2, <1>5, <2>1, <2>2, <2>3, TurnsStay DEF Safe
<1> QED BY <1>5, <1>6, <1>7 DEF IInv

\* A turn: a cooldown after the last use of the token, and the lock is let go.
LEMMA UseTokenKeeps ==
    ASSUME IInv, NEW t \in Threads, UseToken(t)
    PROVE  IInv'
<1> DEFINE k == thread[t].token
           r == [thread[t] EXCEPT !.pc = "return", !.held = 0, !.time = clock]
<1>1. /\ Typed /\ OwnedByOne /\ thread[t] \in Records
      /\ k \in Nat /\ clock \in Nat /\ COOLDOWN \in Nat /\ thread[t].time \in Int
  <2>1. Typed /\ OwnedByOne /\ thread[t] \in Records /\ clock \in Nat
    BY DEF IInv, Typed
  <2> QED BY <2>1, TokenManagerAssumption DEF Records
<1>2. /\ clock >= thread[t].time
      /\ last_used' = [last_used EXCEPT ![k] = clock]
      /\ thread' = [thread EXCEPT ![t] = r] /\ thread[t].pc = "cool" /\ Release(t)
      /\ UNCHANGED <<clock, locks, made, tokens, handed>>
  BY DEF UseToken, TakeTurn, At
<1>3. r \in Records /\ r.pc = "return" /\ r.token = k /\ r.time = clock
  <2>1. clock \in Int
    BY <1>1
  <2> QED BY <1>1, <2>1 DEF Records, Places
<1> HIDE DEF r
<1>4. /\ thread' \in [Threads -> Records] /\ thread'[t] = r
      /\ \A x \in Threads \ {t} : thread'[x] = thread[x]
  BY <1>1, <1>2, <1>3, OthersStay
<1> HIDE DEF k
<1>5. /\ last_used' \in Seq(Int) /\ Len(last_used') = Len(last_used)
      /\ k \in 1..Len(last_used) => last_used'[k] = clock
      /\ \A j \in 1..Len(last_used) \ {k} : last_used'[j] = last_used[j]
  <2>1. /\ last_used \in Seq(Int) /\ last_used' = [last_used EXCEPT ![k] = clock]
        /\ clock \in Int
    BY <1>1, <1>2 DEF Typed
  <2>2. CASE k \in 1..Len(last_used)
    BY <2>1, <2>2
  <2>3. CASE k \notin 1..Len(last_used)
    <3>1. last_used' = last_used
      BY <2>1, <2>3
    <3> QED BY <2>1, <2>3, <3>1
  <2> QED BY <2>2, <2>3
<1>6. Typed'
  BY <1>1, <1>2, <1>4, <1>5 DEF Typed, Release
<1>7. OwnedByOne'
  BY <1>1, <1>2, <1>5 DEF OwnedByOne, Locked
<1>8. ASSUME OneLockEach' PROVE Safe'
  <2>1. OneLockEach /\ Safe
    BY <1>2, <1>8 DEF OneLockEach, IInv
  <2>2. /\ k # 0 /\ k = tokens[thread[t].user] /\ thread[t].user \in Users
        /\ thread[t].time >= last_used[k] + COOLDOWN
    BY <1>1, <1>2, <2>1 DEF Safe, HoldsItsLock, Records, k
  <2>3. k \in 1..Len(last_used) /\ last_used[k] \in Int
    BY <1>1, <2>2 DEF OwnedByOne, Typed
  <2>4. ASSUME NEW x \in Threads PROVE HoldsItsLock(x)'
    <3>1. CASE x = t
      BY <1>3, <1>4, <3>1 DEF HoldsItsLock, LockOf, Holding
    <3>2. CASE x # t
      <4>1. HoldsItsLock(x) /\ thread'[x] = thread[x] /\ thread[x].user \in Users
        BY <1>1, <1>4, <2>1, <3>2 DEF Safe, Typed, Records
      <4>2. thread[x].pc \in Holding => holder'[thread[x].held] = x
        BY <1>1, <1>2, <2>1, <3>2, OthersHold DEF Holding
      <4>3. ASSUME thread[x].pc = "cool"
            PROVE  last_used'[thread[x].token] = last_used[thread[x].token]
        <5>1. thread[x].user # thread[t].user
          BY <1>2, <2>1, <3>2, <4>3, HoldersDiffer DEF Holding
        <5>2. thread[x].token # 0 /\ thread[x].token = tokens[thread[x].user]
          BY <4>1, <4>3 DEF HoldsItsLock
        <5>3. thread[x].token # k /\ thread[x].token \in 1..Len(last_used)
          BY <1>1, <2>2, <4>1, <5>1, <5>2 DEF OwnedByOne, Typed
        <5> QED BY <1>5, <5>3
      <4> QED BY <1>2, <4>1, <4>2, <4>3 DEF HoldsItsLock, LockOf
    <3> QED BY <3>1, <3>2
  <2>5. ASSUME NEW j, NEW at \in Int, Before(j, at)
        PROVE  /\ StillBefore(j, at)
               /\ j = k => ApartBy(COOLDOWN, at, clock) /\ ApartBy(COOLDOWN, clock, at)
    <3>1. j \in 1..Len(last_used) /\ at <= last_used[j] /\ at <= clock
      BY <2>5 DEF Before
    <3>2. StillBefore(j, at)
      <4>1. CASE j = k
        BY <1>2, <1>5, <3>1, <4>1 DEF StillBefore
      <4>2. CASE j # k
        BY <1>2, <1>5, <3>1, <4>2 DEF StillBefore
      <4> QED BY <4>1, <4>2
    <3>3. ASSUME j = k PROVE ApartBy(COOLDOWN, at, clock) /\ ApartBy(COOLDOWN, clock, at)
      <4>1. clock - at >= COOLDOWN
        BY <1>1, <1>2, <2>2, <2>3, <3>1, <3>3
      <4> QED BY <4>1 DEF ApartBy
    <3> QED BY <3>2, <3>3
  <2>6. \A u \in Users : \A i \in DOMAIN handed[u] :
           /\ handed[u][i].at \in Int
           /\ handed[u][i].waited => Before(handed[u][i].token, handed[u][i].at)
    <3>1. ASSUME NEW u \in Users, NEW i \in DOMAIN handed[u] PROVE handed[u][i] \in Turns
      <4>1. handed[u] \in Seq(Turns)
        BY <1>1 DEF Typed
      <4> QED BY <4>1
    <3> QED BY <2>1, <3>1 DEF Safe, TurnsApart, TurnsBefore, Turns
  <2>7. \A x \in Threads \ {t} :
           /\ thread'[x] = thread[x] /\ thread[x].time \in Int
           /\ thread[x].pc = "return" => Before(thread[x].token, thread[x].time)
    BY <1>1, <1>4, <2>1 DEF Safe, TurnsApart, TurnsBefore, Typed, Records
  <2>8. TurnsBefore'
    <3>1. ASSUME NEW u \in Users, NEW i \in DOMAIN handed[u], handed[u][i].waited
          PROVE  StillBefore(handed[u][i].token, handed[u][i].at)
      BY <2>5, <2>6, <3>1
    <3>2. StillBefore(k, clock)
      BY <1>1, <1>2, <1>5, <2>3 DEF StillBefore
    <3>3. ASSUME NEW x \in Threads, thread'[x].pc = "return"
          PROVE  StillBefore(thread'[x].token, thread'[x].time)
      BY <1>3, <1>4, <2>5, <2>7, <3>2, <3>3
    <3> QED BY <1>2, <3>1, <3>3 DEF TurnsBefore, Before, StillBefore
  <2>9. DoneApart'
    BY <1>2, <2>1 DEF Safe, TurnsApart, DoneApart
  <2>10. LaterApart'
    <3>1. ASSUME NEW x \in Threads, NEW u \in Users, NEW i \in DOMAIN handed[u],
                 thread'[x].pc = "return", handed[u][i].waited,
                 handed[u][i].token = thread'[x].token
          PROVE  ApartBy(COOLDOWN, handed[u][i].at, thread'[x].time)
      <4>1. CASE x = t
        BY <1>3, <1>4, <2>5, <2>6, <3>1, <4>1
      <4>2. CASE x # t
        BY <2>1, <2>7, <3>1, <4>2 DEF Safe, TurnsApart, LaterApart
      <4> QED BY <4>1, <4>2
    <3> QED BY <1>2, <3>1 DEF LaterApart
  <2>11. ReturningApart'
    <3>1. ASSUME NEW x \in Threads, NEW y \in Threads, x # y,
                 thread'[x].pc = "return", thread'[y].pc = "return",
                 thread'[x].token = thread'[y].token
          PROVE  ApartBy(COOLDOWN, thread'[x].time, thread'[y].time)
      <4>1. CASE x = t
        <5>1. /\ thread'[x].time = clock /\ thread'[x].token = k /\ thread'[y] = thread[y]
              /\ thread[y].pc = "return" /\ thread[y].time \in Int /\ thread[y].token = k
              /\ Before(thread[y].token, thread[y].time)
          BY <1>3, <1>4, <2>7, <3>1, <4>1
        <5> QED BY <2>5, <5>1
      <4>2. CASE y = t
        <5>1. /\ thread'[y].time = clock /\ thread'[y].token = k /\ thread'[x] = thread[x]
              /\ thread[x].pc = "return" /\ thread[x].time \in Int /\ thread[x].token = k
              /\ Before(thread[x].token, thread[x].time)
          BY <1>3, <1>4, <2>7, <3>1, <4>2
        <5> QED BY <2>5, <5>1
      <4>3. CASE x # t /\ y # t
        BY <2>1, <2>7, <3>1, <4>3 DEF Safe, TurnsApart, ReturningApart
      <4> QED BY <4>1, <4>2, <4>3
    <3> QED BY <3>1 DEF ReturningApart
  <2> QED BY <2>4, <2>8, <2>9, <2>10, <2>11 DEF Safe, TurnsApart
<1> QED BY <1>6, <1>7, <1>8 DEF IInv

\* The turn is returned. If it was waited for, it is one of the token that the
\* thread waited for, and as far from the others as before.
LEMMA ReturnTokenKeeps ==
    ASSUME IInv, NEW t \in Threads, ReturnToken(t)
    PROVE  IInv'
<1> DEFINE u == thread[t].user
           k == tokens[u]
           turn == [token |-> k, at |-> thread[t].time, waited |-> k = thread[t].token]
           h == handed[u]
           pc == IF k = 0 THEN "raised" ELSE "request"
           r == [thread[t] EXCEPT !.pc = pc, !.token = 0, !.time = 0]
<1>1. /\ Typed /\ OwnedByOne /\ thread[t] \in Records /\ u \in Users /\ k \in Nat
      /\ thread[t].time \in Int /\ clock \in Nat /\ h \in Seq(Turns)
  BY DEF IInv, Typed, Records
<1>2. /\ thread[t].pc = "return" /\ thread' = [thread EXCEPT ![t] = r]
      /\ handed' = IF k = 0 THEN handed ELSE [handed EXCEPT ![u] = Append(h, turn)]
      /\ UNCHANGED <<clock, locks, made, holder, tokens, last_used>>
  BY DEF ReturnToken, At, User
<1>3. r \in Records /\ r.pc \in {"raised", "request"}
  <2>1. pc \in {"raised", "request"}
    OBVIOUS
  <2>2. pc \in Places /\ 0 \in Nat /\ 0 \in Int
    BY DEF Places
  <2> HIDE DEF pc
  <2>3. r \in Records /\ r.pc = pc
    BY <1>1, <2>2 DEF Records
  <2> QED BY <2>1, <2>3
<1>4. /\ turn \in Turns /\ turn.at = thread[t].time /\ turn.token = k
      /\ turn.waited = (k = thread[t].token)
  BY <1>1 DEF Turns
<1> HIDE DEF r, turn
<1>5. /\ thread' \in [Threads -> Records] /\ thread'[t] = r
      /\ \A x \in Threads \ {t} : thread'[x] = thread[x]
  BY <1>1, <1>2, <1>3, OthersStay
<1>6. /\ handed' \in [Users -> Seq(Turns)]
      /\ \A v \in Users : \A i \in DOMAIN handed'[v] :
            \/ i \in DOMAIN handed[v] /\ handed'[v][i] = handed[v][i]
            \/ v = u /\ i = Len(h) + 1 /\ handed'[v][i] = turn
  <2>1. CASE k = 0
    BY <1>1, <1>2, <2>1 DEF Typed
  <2>2. CASE k # 0
    <3> DEFINE g == Append(h, turn)
    <3>1. /\ g \in Seq(Turns) /\ DOMAIN h = 1..Len(h) /\ Len(h) \in Nat
          /\ \A i \in DOMAIN g : \/ i \in DOMAIN h /\ g[i] = h[i]
                                 \/ i = Len(h) + 1 /\ g[i] = turn
      <4>1. h \in Seq(Turns) /\ turn \in Turns
        BY <1>1, <1>4
      <4> HIDE DEF h
      <4>2. DOMAIN g = 1..Len(h) + 1 /\ DOMAIN h = 1..Len(h) /\ Len(h) \in Nat /\ g \in Seq(Turns)
        BY <4>1
      <4>3. ASSUME NEW i \in 1..Len(h) + 1
            PROVE  \/ i \in DOMAIN h /\ g[i] = h[i]
                   \/ i = Len(h) + 1 /\ g[i] = turn
        BY <4>1, <4>2, <4>3
      <4> QED BY <4>2, <4>3
    <3> HIDE DEF g
    <3>2. handed' = [handed EXCEPT ![u] = g] /\ handed \in [Users -> Seq(Turns)]
      BY <1>1, <1>2, <2>2 DEF Typed, g
    <3> QED BY <1>1, <3>1, <3>2
  <2> QED BY <2>1, <2>2
<1>7. Typed'
  BY <1>1, <1>2, <1>5, <1>6 DEF Typed
<1>8. OwnedByOne'
  BY <1>1, <1>2 DEF OwnedByOne, Locked
<1>9. ASSUME OneLockEach' PROVE Safe'
  <2>1. OneLockEach /\ Safe
    BY <1>2, <1>9 DEF OneLockEach, IInv
  <2>2. ASSUME NEW x \in Threads PROVE HoldsItsLock(x)'
    <3>1. CASE x = t
      BY <1>3, <1>5, <3>1 DEF HoldsItsLock, LockOf, Holding
    <3>2. CASE x # t
      BY <1>2, <1>5, <2>1, <3>2 DEF Safe, HoldsItsLock, LockOf
    <3> QED BY <3>1, <3>2
  <2>3. \A x \in Threads : thread'[x].pc = "return" => x # t /\ thread'[x] = thread[x]
    BY <1>3, <1>5
  <2>4. TurnsBefore'
    <3>1. ASSUME NEW v \in Users, NEW i \in DOMAIN handed'[v], handed'[v][i].waited
          PROVE  Before(handed'[v][i].token, handed'[v][i].at)
      <4>1. CASE i \in DOMAIN handed[v] /\ handed'[v][i] = handed[v][i]
        BY <2>1, <3>1, <4>1 DEF Safe, TurnsApart, TurnsBefore
      <4>2. CASE handed'[v][i] = turn
        BY <1>2, <1>4, <2>1, <3>1, <4>2 DEF Safe, TurnsApart, TurnsBefore
      <4> QED BY <1>6, <4>1, <4>2
    <3>2. ASSUME NEW x \in Threads, thread'[x].pc = "return"
          PROVE  Before(thread'[x].token, thread'[x].time)
      BY <2>1, <2>3, <3>2 DEF Safe, TurnsApart, TurnsBefore
    <3> QED BY <1>2, <3>1, <3>2 DEF TurnsBefore, Before
  <2>5. ASSUME NEW v \in Users, NEW i \in DOMAIN handed[v], handed[v][i].waited,
               turn.waited, handed[v][i].token = turn.token
        PROVE  /\ ApartBy(COOLDOWN, handed[v][i].at, turn.at)
               /\ ApartBy(COOLDOWN, turn.at, handed[v][i].at)
    BY <1>2, <1>4, <2>1, <2>5 DEF Safe, TurnsApart, LaterApart, ApartBy
  <2>6. DoneApart'
    <3>1. ASSUME NEW v \in Users, NEW i \in DOMAIN handed'[v], NEW j \in DOMAIN handed'[v], i # j,
                 handed'[v][i].token = handed'[v][j].token,
                 handed'[v][i].waited, handed'[v][j].waited
          PROVE  ApartBy(COOLDOWN, handed'[v][i].at, handed'[v][j].at)
      <4>1. CASE /\ i \in DOMAIN handed[v] /\ handed'[v][i] = handed[v][i]
                 /\ j \in DOMAIN handed[v] /\ handed'[v][j] = handed[v][j]
        BY <2>1, <3>1, <4>1 DEF Safe, TurnsApart, DoneApart
      <4>2. CASE i \in DOMAIN handed[v] /\ handed'[v][i] = handed[v][i] /\ handed'[v][j] = turn
        BY <2>5, <3>1, <4>2
      <4>3. CASE j \in DOMAIN handed[v] /\ handed'[v][j] = handed[v][j] /\ handed'[v][i] = turn
        BY <2>5, <3>1, <4>3
      <4> QED BY <1>6, <3>1, <4>1, <4>2, <4>3
    <3> QED BY <3>1 DEF DoneApart
  <2>7. LaterApart'
    <3>1. ASSUME NEW x \in Threads, NEW v \in Users, NEW i \in DOMAIN handed'[v],
                 thread'[x].pc = "return", handed'[v][i].waited,
                 handed'[v][i].token = thread'[x].token
          PROVE  ApartBy(COOLDOWN, handed'[v][i].at, thread'[x].time)
      <4>1. CASE i \in DOMAIN handed[v] /\ handed'[v][i] = handed[v][i]
        BY <2>1, <2>3, <3>1, <4>1 DEF Safe, TurnsApart, LaterApart
      <4>2. CASE handed'[v][i] = turn
        <5>1. /\ x # t /\ thread'[x] = thread[x] /\ thread[x].pc = "return"
              /\ thread[t].token = thread[x].token
          BY <1>4, <2>3, <3>1, <4>2
        <5>2. ApartBy(COOLDOWN, thread[t].time, thread[x].time)
          BY <1>2, <2>1, <5>1 DEF Safe, TurnsApart, ReturningApart
        <5> QED BY <1>4, <4>2, <5>1, <5>2
      <4> QED BY <1>6, <4>1, <4>2
    <3> QED BY <3>1 DEF LaterApart
  <2>8. ReturningApart'
    BY <2>1, <2>3 DEF Safe, TurnsApart, ReturningApart
  <2> QED BY <2>2, <2>4, <2>6, <2>7, <2>8 DEF Safe, TurnsApart
<1> QED BY <1>7, <1>8, <1>9 DEF IInv

\* A thread that tries again as the user asked first.
LEMMA TriesAgain ==
    ASSUME Typed, NEW t \in Threads, TryAgain(t)
    PROVE  /\ thread' \in [Threads -> Records]
           /\ thread'[t].pc = "check"
           /\ \A x \in Threads \ {t} : thread'[x] = thread[x]
<1> DEFINE a == thread[t].auth
           r == [Calls(t, "get") EXCEPT !.user = a, !.held = 0]
<1>1. thread[t] \in Records /\ thread' = [thread EXCEPT ![t] = r]
  BY DEF Typed, TryAgain
<1>2. a \in Users /\ Calls(t, "get") \in Records /\ Calls(t, "get").pc = "check"
  BY <1>1 DEF Calls, Records, Places, Ops
<1>3. r \in Records /\ r.pc = "check"
  <2> HIDE DEF a
  <2> QED BY <1>2 DEF Records
<1> HIDE DEF r
<1> QED BY <1>1, <1>3, OthersStay

\* A token is forgotten: nobody holds the lock of its user.
LEMMA InvalidateKeeps ==
    ASSUME IInv, NEW t \in Threads, invalidate(t)
    PROVE  IInv'
<1> DEFINE u == thread[t].user
<1>1. Typed /\ OwnedByOne /\ u \in Users
  BY DEF IInv, Typed, Records
<1>2. /\ thread[t].pc = "acquire" /\ holder[thread[t].held] = None /\ TryAgain(t)
      /\ tokens' = [tokens EXCEPT ![u] = 0]
      /\ UNCHANGED <<clock, locks, made, holder, last_used, handed>>
  BY DEF invalidate, Acquires, Lock, At, User
<1>3. /\ thread' \in [Threads -> Records] /\ thread'[t].pc = "check"
      /\ \A x \in Threads \ {t} : thread'[x] = thread[x]
  BY <1>1, <1>2, TriesAgain
<1>4. /\ tokens' \in [Users -> Nat] /\ tokens'[u] = 0
      /\ \A v \in Users \ {u} : tokens'[v] = tokens[v]
  BY <1>1, <1>2 DEF Typed
<1>5. Typed'
  BY <1>1, <1>2, <1>3, <1>4 DEF Typed
<1>6. OwnedByOne'
  <2>1. \A v \in Users : tokens'[v] <= Len(last_used')
    BY <1>1, <1>2, <1>4 DEF OwnedByOne, Typed
  <2>2. \A v, w \in Users : tokens'[v] = tokens'[w] /\ tokens'[v] # 0 => v = w
    BY <1>1, <1>2, <1>4 DEF OwnedByOne
  <2> QED BY <1>1, <1>2, <2>1, <2>2 DEF OwnedByOne, Locked
<1>7. ASSUME OneLockEach' PROVE Safe'
  <2>1. OneLockEach /\ Safe
    BY <1>2, <1>7 DEF OneLockEach, IInv
  <2>2. ASSUME NEW x \in Threads PROVE HoldsItsLock(x)'
    <3>1. CASE x = t
      BY <1>3, <3>1 DEF HoldsItsLock, LockOf, Holding
    <3>2. CASE x # t
      <4>1. HoldsItsLock(x) /\ thread'[x] = thread[x] /\ thread[x].user \in Users
        BY <1>1, <1>3, <2>1, <3>2 DEF Safe, Typed, Records
      <4>2. thread[x].pc \in Holding => tokens'[thread[x].user] = tokens[thread[x].user]
        BY <1>2, <1>4, <2>1, <4>1, FreeIsNotHeld
      <4> QED BY <1>2, <4>1, <4>2 DEF HoldsItsLock, LockOf, Holding
    <3> QED BY <3>1, <3>2
  <2>3. NoneReturns /\ UsesMoveOn /\ clock' >= clock
    BY <1>1, <1>2, <1>3 DEF NoneReturns, UsesMoveOn, Typed
  <2> QED BY <1>1, <1>2, <1>5, <2>1, <2>2, <2>3, TurnsStay DEF Safe
<1> QED BY <1>5, <1>6, <1>7 DEF IInv

\* The last use of a token is moved: nobody holds the lock of its user, and the
\* new time is not before any turn.
LEMMA SetCooldownKeeps ==
    ASSUME IInv, NEW t \in Threads, set_cooldown(t)
    PROVE  IInv'
<1> DEFINE u == thread[t].user
           k == tokens[u]
           at == clock + EMERGENCY_COOLDOWN
<1>1. Typed /\ OwnedByOne /\ u \in Users /\ clock \in Nat
  BY DEF IInv, Typed, Records
<1>2. /\ thread[t].pc = "acquire" /\ holder[thread[t].held] = None /\ TryAgain(t)
      /\ last_used' = IF k = 0 THEN last_used ELSE [last_used EXCEPT ![k] = at]
      /\ UNCHANGED <<clock, locks, made, holder, tokens, handed>>
  BY DEF set_cooldown, Acquires, Lock, At, User
<1>3. /\ thread' \in [Threads -> Records] /\ thread'[t].pc = "check"
      /\ \A x \in Threads \ {t} : thread'[x] = thread[x]
  BY <1>1, <1>2, TriesAgain
<1>4. at \in Int /\ at >= clock
  BY <1>1, TokenManagerAssumption
<1>5. k \in 0..Len(last_used)
  BY <1>1 DEF Typed, OwnedByOne
<1> HIDE DEF at
<1>6. /\ last_used' \in Seq(Int) /\ Len(last_used') = Len(last_used)
      /\ k # 0 => last_used'[k] = at
      /\ \A j \in 1..Len(last_used) \ {k} : last_used'[j] = last_used[j]
  <2> HIDE DEF k
  <2>1. last_used \in Seq(Int)
    BY <1>1 DEF Typed
  <2>2. CASE k = 0
    BY <1>2, <2>1, <2>2
  <2>3. CASE k # 0
    <3>1. last_used' = [last_used EXCEPT ![k] = at] /\ k \in 1..Len(last_used)
      BY <1>2, <1>5, <2>1, <2>3
    <3> QED BY <1>4, <2>1, <3>1
  <2> QED BY <2>2, <2>3
<1>7. Typed'
  BY <1>1, <1>2, <1>3, <1>6 DEF Typed
<1>8. OwnedByOne'
  BY <1>1, <1>2, <1>6 DEF OwnedByOne, Locked
<1>9. ASSUME OneLockEach' PROVE Safe'
  <2>1. OneLockEach /\ Safe
    BY <1>2, <1>9 DEF OneLockEach, IInv
  <2>2. ASSUME NEW x \in Threads PROVE HoldsItsLock(x)'
    <3>1. CASE x = t
      BY <1>3, <3>1 DEF HoldsItsLock, LockOf, Holding
    <3>2. CASE x # t
      <4>1. HoldsItsLock(x) /\ thread'[x] = thread[x] /\ thread[x].user \in Users
        BY <1>1, <1>3, <2>1, <3>2 DEF Safe, Typed, Records
      <4>2. ASSUME thread[x].pc = "cool"
            PROVE  last_used'[thread[x].token] = last_used[thread[x].token]
        <5>1. thread[x].user # u
          BY <1>2, <2>1, <4>2, FreeIsNotHeld DEF Holding
        <5>2. thread[x].token # 0 /\ thread[x].token = tokens[thread[x].user]
          BY <4>1, <4>2 DEF HoldsItsLock
        <5>3. thread[x].token # k
          BY <1>1, <4>1, <5>1, <5>2 DEF OwnedByOne
        <5>4. thread[x].token \in 1..Len(last_used)
          BY <1>1, <4>1, <5>2 DEF OwnedByOne, Typed
        <5> QED BY <1>6, <5>3, <5>4
      <4> QED BY <1>2, <4>1, <4>2 DEF HoldsItsLock, LockOf
    <3> QED BY <3>1, <3>2
  <2>3. NoneReturns /\ UsesMoveOn /\ clock' >= clock
    <3>1. NoneReturns /\ clock' >= clock
      BY <1>1, <1>2, <1>3 DEF NoneReturns
    <3>2. ASSUME NEW j \in 1..Len(last_used)
          PROVE  /\ j \in 1..Len(last_used')
                 /\ last_used'[j] >= last_used[j] \/ last_used'[j] >= clock
      <4>1. last_used[j] \in Int
        BY <1>1, <3>2 DEF Typed
      <4> HIDE DEF k
      <4> QED BY <1>4, <1>6, <3>2, <4>1
    <3> QED BY <3>1, <3>2 DEF UsesMoveOn
  <2> QED BY <1>1, <1>2, <1>7, <2>1, <2>2, <2>3, TurnsStay DEF Safe
<1> QED BY <1>7, <1>8, <1>9 DEF IInv

\* Time passes.
LEMMA TickKeeps ==
    ASSUME IInv, Tick
    PROVE  IInv'
<1>1. /\ Typed /\ OwnedByOne /\ clock \in Nat /\ clock' = clock + 1
      /\ UNCHANGED <<locks, made, holder, tokens, last_used, thread, handed>>
  BY DEF IInv, Typed, Tick
<1>2. Typed'
  BY <1>1 DEF Typed
<1>3. OwnedByOne'
  BY <1>1 DEF OwnedByOne, Locked
<1>4. ASSUME OneLockEach' PROVE Safe'
  <2>1. Safe
    BY <1>1, <1>4 DEF OneLockEach, IInv
  <2>2. ASSUME NEW x \in Threads PROVE HoldsItsLock(x)'
    BY <1>1, <2>1 DEF Safe, HoldsItsLock, LockOf
  <2>3. NoneReturns /\ UsesMoveOn /\ clock' >= clock
    BY <1>1 DEF NoneReturns, UsesMoveOn, Typed
  <2> QED BY <1>1, <1>2, <2>1, <2>2, <2>3, TurnsStay DEF Safe
<1> QED BY <1>2, <1>3, <1>4 DEF IInv

\* At the start there are no locks, no tokens and nobody who holds one.
LEMMA InitHolds ==
    ASSUME Init
    PROVE  IInv
<1>1. Typed
  <2>1. ASSUME NEW t \in Threads PROVE thread[t] \in Records
    BY TokenManagerAssumption DEF Init, Records, Places, Ops
  <2>2. thread \in [Threads -> Records]
    BY <2>1 DEF Init
  <2>3. handed \in [Users -> Seq(Turns)] /\ last_used \in Seq(Int)
    BY DEF Init
  <2> QED BY <2>2, <2>3 DEF Init, Typed
<1>2. OwnedByOne
  <2>1. Locked = {}
    BY DEF Init, Locked
  <2> QED BY <2>1, FS_EmptySet DEF Init, OwnedByOne
<1>3. Safe
  <2>1. \A t \in Threads : thread[t].pc = "check"
    BY DEF Init
  <2>2. ASSUME NEW t \in Threads PROVE HoldsItsLock(t)
    BY <2>1 DEF HoldsItsLock, LockOf, Holding
  <2>3. \A u \in Users : DOMAIN handed[u] = {}
    BY DEF Init
  <2> QED BY <2>1, <2>2, <2>3
          DEF Safe, TurnsApart, TurnsBefore, DoneApart, LaterApart, ReturningApart
<1> QED BY <1>1, <1>2, <1>3 DEF IInv

\* Every step keeps the invariant.
LEMMA NextKeeps ==
    ASSUME IInv, [Next]_vars
    PROVE  IInv'
<1>1. CASE Tick
  BY <1>1, TickKeeps
<1>2. ASSUME NEW t \in Threads, Thread(t) PROVE IInv'
  BY <1>2, QuietSteps, MakeLockKeeps, AcquireKeeps, LoginKeeps, LoginFailsKeeps, UseTokenKeeps,
     ReturnTokenKeeps, InvalidateKeeps, SetCooldownKeeps
     DEF Thread
<1>3. CASE UNCHANGED vars
  BY <1>3 DEF vars, IInv, Typed, OwnedByOne, OneLockEach, Safe, HoldsItsLock, LockOf, Locked,
              TurnsApart, TurnsBefore, Before, DoneApart, LaterApart, ReturningApart
<1> QED BY <1>1, <1>2, <1>3 DEF Next, Done

\* get_token "Blocks until the per-user cooldown has elapsed", as far as it does:
\* for any number of threads and users, and however long the cooldowns are, any
\* two turns with one token are a cooldown apart, in whatever order they return.
\* It says nothing of a thread that is given a token which another has fetched
\* while it slept, and nothing once two threads have made a lock for one user.
THEOREM TokensAreSpaced == Spec => []Spaced
<1>1. Init => IInv
  BY InitHolds
<1>2. IInv /\ [Next]_vars => IInv'
  BY NextKeeps
<1>3. IInv => Spaced
  BY DEF IInv, Safe, TurnsApart, DoneApart, Spaced
<1> QED BY <1>1, <1>2, <1>3, PTL DEF Spec
==============================================================================
