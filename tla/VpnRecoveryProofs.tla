-------------------------- MODULE VpnRecoveryProofs --------------------------
(***************************************************************************)
(* What a VPN session believes of its networks is true, for any number of  *)
(* networks and any order of the queued events: a network is held for      *)
(* failed only with a reason, a loss is not forgotten, and a QUIC          *)
(* connection is only replaced when it is broken.                          *)
(***************************************************************************)
EXTENDS VpnRecovery, FiniteSetTheorems, TLAPS

Tasks ==
  {t \in [what : {"available", "lost", "losing", "down", "path", "stop", "wifi", "cellular"},
          net : Maybe, token : Nat, path : Paths] :
     t.what \in {"available", "lost"} => t.net \in Handle}
Jobs ==
  [at : {"idle", "starting", "switching", "standby", "probing"}, net : Maybe,
   why : {"none", "recover", "button", "prefer"}, fresh : BOOLEAN, tail : BOOLEAN]
Conns == [st : {"none", "ok", "zombie", "dead"}, net : Maybe, path : Paths]
Sockets == [net : Maybe, path : Paths, checked : BOOLEAN]

(* The networks that the tasks of one kind are about, the sockets that the *)
(* tasks complain of, and the order of Android's tasks on one network.     *)
About(what, q) == {n \in Handle : \E i \in DOMAIN q : q[i].what = what /\ q[i].net = n}
Complaints(q) == {p \in Paths : \E i \in DOMAIN q : q[i].what = "path" /\ q[i].path = p}
Ordered(q) ==
  \A i, j \in DOMAIN q :
    q[i].what = "available" /\ q[j].what = "lost" /\ q[i].net = q[j].net => i < j

(* The shape of the state that VpnTypeOK leaves open.                      *)
VpnShapes ==
  /\ queue \in Seq(Tasks) /\ job \in Jobs /\ epoch \in Nat
  /\ trouble \in BOOLEAN /\ broken \in BOOLEAN

(* The worker is blocked in start only without a session, in migrate and   *)
(* in the probe of the reserve only with one.                              *)
JobsAreSound ==
  /\ job.at = "starting" => ~alive /\ ~reconnectRequired
  /\ job.at \in {"switching", "standby", "probing"} => alive
  /\ job.at = "switching" /\ job.fresh => conn.st = "none"
  /\ job.at = "probing" => job.net \in Reserve

(* The transport in use and the candidates beside it have sockets of their *)
(* own.                                                                    *)
Apart(a, b) == a.path = b.path => a.path = NoPath
SocketsApart ==
  /\ prepared \in Sockets /\ parked \in Sockets
  /\ Apart(conn, prepared) /\ Apart(conn, parked) /\ Apart(prepared, parked)

(* Android's events are queued in their order: a network that is gone and  *)
(* whose loss is not queued any more is not known, the worker is not about *)
(* to use it, and if it is in use it is held for failed.                   *)
LossesAreOrdered ==
  /\ About("lost", queue) \subseteq {n \in Handle : phase[n] = "gone"}
  /\ Ordered(queue)
  /\ \A n \in Handle : phase[n] = "gone" /\ n \notin About("lost", queue) =>
       /\ \A k \in Kind : networks[k] # n
       /\ n \notin About("available", queue) /\ n # preparedNetwork /\ n # job.net
  /\ alive /\ phase[activeNetwork] = "gone" /\ failedNetwork = NoNet =>
       activeNetwork \in About("lost", queue)

(* Each sign that the session acts on has a reason: a complaint about the  *)
(* socket in use, silence, the demand for a new connection, a connection   *)
(* that is not there.                                                      *)
SignsHaveReasons ==
  /\ conn.st # "none" /\ conn.path \in Complaints(queue) => trouble \/ broken
  /\ alive /\ echo = "stalled" => trouble
  /\ reply = "overdue" => broken
  /\ alive /\ reconnectRequired => broken
  /\ alive /\ transport # "awg" /\ ~IsConnected /\ ~(job.at = "switching" /\ job.fresh) => broken
  /\ TroubleIsReal

(* The inductive invariant.                                                *)
VpnIInv ==
  VpnTypeOK /\ VpnShapes /\ JobsAreSound /\ SocketsApart /\ LossesAreOrdered /\ SignsHaveReasons

-----------------------------------------------------------------------------
(* Lemmas on the operators of the model.                                   *)

\* The task at the head of the queue is taken.
LEMMA TailOf ==
  ASSUME NEW q \in Seq(Tasks), q # <<>>
  PROVE  /\ Tail(q) \in Seq(Tasks) /\ Len(Tail(q)) <= Len(q) /\ Len(Tail(q)) \in Nat
         /\ Head(q) \in Tasks
         /\ \A w : /\ About(w, Tail(q)) \subseteq About(w, q)
                   /\ \A n \in About(w, q) :
                        n \in About(w, Tail(q)) \/ (Head(q).what = w /\ Head(q).net = n)
         /\ \A w : Head(q).what = w /\ Head(q).net \in Handle => Head(q).net \in About(w, q)
         /\ Complaints(Tail(q)) \subseteq Complaints(q)
         /\ Head(q).what = "path" => Head(q).path \in Complaints(q)
         /\ Ordered(q) => Ordered(Tail(q))
         /\ Ordered(q) /\ Head(q).what = "lost" => Head(q).net \notin About("available", q)
<1>1. /\ Head(q) = q[1] /\ 1 \in DOMAIN q /\ Tail(q) \in Seq(Tasks) /\ q[1] \in Tasks
      /\ Len(q) \in Nat /\ Len(Tail(q)) = Len(q) - 1 /\ Len(Tail(q)) \in Nat
      /\ DOMAIN q = 1 .. Len(q) /\ DOMAIN Tail(q) = 1 .. (Len(q) - 1)
      /\ \A i \in DOMAIN Tail(q) : Tail(q)[i] = q[i + 1]
  OBVIOUS
<1>2. \A i \in DOMAIN Tail(q) : i + 1 \in DOMAIN q
  BY <1>1
<1>3. ASSUME NEW i \in DOMAIN q, i # 1
      PROVE  \E j \in DOMAIN Tail(q) : q[i] = Tail(q)[j]
  <2>1. i - 1 \in 1 .. (Len(q) - 1) /\ (i - 1) + 1 = i
    BY <1>1, <1>3
  <2>2. Tail(q)[i - 1] = q[(i - 1) + 1]
    BY <1>1, <2>1
  <2> QED BY <1>1, <2>1, <2>2
<1>4. ASSUME NEW w
      PROVE  /\ About(w, Tail(q)) \subseteq About(w, q)
             /\ \A n \in About(w, q) :
                  n \in About(w, Tail(q)) \/ (Head(q).what = w /\ Head(q).net = n)
             /\ Head(q).what = w /\ Head(q).net \in Handle => Head(q).net \in About(w, q)
  <2>1. About(w, Tail(q)) \subseteq About(w, q)
    BY <1>1, <1>2 DEF About
  <2>2. ASSUME NEW n \in About(w, q), ~(Head(q).what = w /\ Head(q).net = n)
        PROVE  n \in About(w, Tail(q))
    BY <1>1, <1>3, <2>2 DEF About
  <2> QED BY <1>1, <2>1, <2>2 DEF About
<1>5. Complaints(Tail(q)) \subseteq Complaints(q)
  BY <1>1, <1>2 DEF Complaints
<1>6. Head(q).what = "path" => Head(q).path \in Complaints(q)
  BY <1>1 DEF Complaints, Tasks
<1>7. Ordered(q) => Ordered(Tail(q))
  <2> SUFFICES ASSUME Ordered(q), NEW i \in DOMAIN Tail(q), NEW j \in DOMAIN Tail(q),
                      Tail(q)[i].what = "available", Tail(q)[j].what = "lost",
                      Tail(q)[i].net = Tail(q)[j].net
               PROVE  i < j
    BY DEF Ordered
  <2>1. i + 1 < j + 1
    BY <1>1, <1>2 DEF Ordered
  <2> QED BY <1>1, <2>1
<1>8. Ordered(q) /\ Head(q).what = "lost" => Head(q).net \notin About("available", q)
  <2> SUFFICES ASSUME Ordered(q), q[1].what = "lost", NEW i \in DOMAIN q,
                      q[i].what = "available", q[i].net = q[1].net
               PROVE  FALSE
    BY <1>1 DEF About
  <2>1. i < 1
    BY <1>1 DEF Ordered
  <2> QED BY <1>1, <2>1
<1>9. Len(Tail(q)) <= Len(q)
  BY <1>1
<1> QED BY <1>1, <1>4, <1>5, <1>6, <1>7, <1>8, <1>9

\* A task is queued.
LEMMA AppendOf ==
  ASSUME NEW q \in Seq(Tasks), NEW t \in Tasks
  PROVE  /\ Append(q, t) \in Seq(Tasks) /\ Len(Append(q, t)) = Len(q) + 1
         /\ \A w : /\ About(w, q) \subseteq About(w, Append(q, t))
                   /\ t.what # w => About(w, Append(q, t)) = About(w, q)
                   /\ t.what = w /\ t.net \in Handle =>
                        About(w, Append(q, t)) = About(w, q) \cup {t.net}
         /\ t.what # "path" => Complaints(Append(q, t)) = Complaints(q)
         /\ t.what = "path" => Complaints(Append(q, t)) = Complaints(q) \cup {t.path}
         /\ Ordered(q) /\ (t.what = "available" => t.net \notin About("lost", q)) =>
              Ordered(Append(q, t))
<1>1. /\ Append(q, t) \in Seq(Tasks) /\ Len(Append(q, t)) = Len(q) + 1 /\ Len(q) \in Nat
      /\ DOMAIN q = 1 .. Len(q) /\ DOMAIN Append(q, t) = 1 .. (Len(q) + 1)
      /\ \A i \in DOMAIN q : Append(q, t)[i] = q[i]
      /\ Append(q, t)[Len(q) + 1] = t
  OBVIOUS
<1>2. /\ \A i \in DOMAIN Append(q, t) : i \in DOMAIN q \/ i = Len(q) + 1
      /\ Len(q) + 1 \in DOMAIN Append(q, t)
      /\ \A i \in DOMAIN q : i \in DOMAIN Append(q, t) /\ i < Len(q) + 1
      /\ t.path \in Paths
  BY <1>1 DEF Tasks
<1>3. ASSUME NEW w
      PROVE  /\ About(w, q) \subseteq About(w, Append(q, t))
             /\ t.what # w => About(w, Append(q, t)) = About(w, q)
             /\ t.what = w /\ t.net \in Handle =>
                  About(w, Append(q, t)) = About(w, q) \cup {t.net}
  <2>1. About(w, q) \subseteq About(w, Append(q, t))
    BY <1>1, <1>2 DEF About
  <2>2. \A n \in About(w, Append(q, t)) : n \in About(w, q) \/ (t.what = w /\ t.net = n)
    BY <1>1, <1>2 DEF About
  <2>3. t.what = w /\ t.net \in Handle => t.net \in About(w, Append(q, t))
    BY <1>1, <1>2 DEF About
  <2> QED BY <2>1, <2>2, <2>3
<1>4. /\ t.what # "path" => Complaints(Append(q, t)) = Complaints(q)
      /\ t.what = "path" => Complaints(Append(q, t)) = Complaints(q) \cup {t.path}
  <2>1. Complaints(q) \subseteq Complaints(Append(q, t))
    BY <1>1, <1>2 DEF Complaints
  <2>2. \A p \in Complaints(Append(q, t)) : p \in Complaints(q) \/ (t.what = "path" /\ t.path = p)
    BY <1>1, <1>2 DEF Complaints
  <2>3. t.what = "path" => t.path \in Complaints(Append(q, t))
    BY <1>1, <1>2 DEF Complaints
  <2> QED BY <2>1, <2>2, <2>3
<1>5. Ordered(q) /\ (t.what = "available" => t.net \notin About("lost", q)) => Ordered(Append(q, t))
  <2> SUFFICES ASSUME Ordered(q), t.what = "available" => t.net \notin About("lost", q),
                      NEW i \in DOMAIN Append(q, t), NEW j \in DOMAIN Append(q, t),
                      Append(q, t)[i].what = "available", Append(q, t)[j].what = "lost",
                      Append(q, t)[i].net = Append(q, t)[j].net
               PROVE  i < j
    BY DEF Ordered
  <2>1. CASE i \in DOMAIN q /\ j \in DOMAIN q
    BY <1>1, <2>1 DEF Ordered
  <2>2. CASE i \in DOMAIN q /\ j = Len(q) + 1
    BY <1>2, <2>2
  <2>3. CASE i = Len(q) + 1 /\ j \in DOMAIN q
    <3>1. t.what = "available" /\ q[j].what = "lost" /\ t.net = q[j].net /\ t.net \in Handle
      BY <1>1, <2>3 DEF Tasks
    <3> QED BY <3>1, <2>3 DEF About
  <2>4. CASE i = Len(q) + 1 /\ j = Len(q) + 1
    BY <1>1, <2>4
  <2> QED BY <1>2, <2>1, <2>2, <2>3, <2>4
<1> QED BY <1>1, <1>3, <1>4, <1>5

LEMMA EmptyQueueIs ==
  <<>> \in Seq(Tasks) /\ Complaints(<<>>) = {} /\ Ordered(<<>>) /\ \A w : About(w, <<>>) = {}
  BY DEF About, Complaints, Ordered

\* What a task is made of.
LEMMA TaskIs ==
  ASSUME NEW what \in {"available", "lost", "losing", "down", "path", "stop", "wifi", "cellular"},
         NEW n \in Maybe, NEW token \in Nat, NEW p \in Paths,
         what \in {"available", "lost"} => n \in Handle
  PROVE  LET t == Task(what, n, token, p)
         IN  t \in Tasks /\ t.what = what /\ t.net = n /\ t.path = p
  BY DEF Task, Tasks

\* The bounds and the things that are not there.
LEMMA Basics ==
  /\ MaxQueue \in Nat /\ NoNet \notin Handle /\ NoNet \in Maybe /\ Handle \subseteq Maybe
  /\ NoPath \in Paths
  /\ NoConn \in Conns /\ NoConn.st = "none" /\ NoConn.path = NoPath
  /\ NoSocket \in Sockets /\ NoSocket.path = NoPath
  /\ Idle \in Jobs /\ Idle.at = "idle" /\ Idle.net = NoNet
  BY HandleAssumption, VpnBounds
  DEF Maybe, Paths, NoConn, Conns, NoSocket, Sockets, Idle, Jobs

\* The transport in use without a network, or in another state.
LEMMA ConnLeaves ==
  ASSUME NEW c \in Conns
  PROVE  /\ [c EXCEPT !.net = NoNet] \in Conns
         /\ [c EXCEPT !.net = NoNet].st = c.st /\ [c EXCEPT !.net = NoNet].path = c.path
  BY Basics DEF Conns

LEMMA ConnTurns ==
  ASSUME NEW c \in Conns, NEW s \in {"none", "ok", "zombie", "dead"}
  PROVE  /\ [c EXCEPT !.st = s] \in Conns
         /\ [c EXCEPT !.st = s].st = s /\ [c EXCEPT !.st = s].path = c.path
  BY DEF Conns

\* A candidate with another mark, or let go.
LEMMA SocketIs ==
  ASSUME NEW s \in Sockets
  PROVE  /\ Unchecked(s) \in Sockets /\ Unchecked(s).path = s.path
         /\ [s EXCEPT !.checked = TRUE] \in Sockets /\ [s EXCEPT !.checked = TRUE].path = s.path
  BY DEF Sockets, Unchecked

LEMMA WithoutIs ==
  ASSUME NEW s \in Sockets, NEW n
  PROVE  Without(s, n) \in Sockets /\ Without(s, n).path \in {s.path, NoPath}
  BY Basics DEF Without

\* What the worker may be blocked in.
LEMMA AfterIs ==
  ASSUME NEW tail \in BOOLEAN
  PROVE  /\ After(tail) \in Jobs /\ After(tail).at \in {"idle", "standby"}
         /\ After(tail).net = NoNet /\ (After(tail).at = "standby" => tail)
  BY Basics DEF After, Idle, Jobs

LEMMA StartingIs ==
  ASSUME NEW n \in Handle
  PROVE  LET j == [Idle EXCEPT !.at = "starting", !.net = n]
         IN  j \in Jobs /\ j.at = "starting" /\ j.net = n
  BY Basics DEF Idle, Jobs

LEMMA ProbingIs ==
  ASSUME NEW n \in Handle
  PROVE  LET j == [Idle EXCEPT !.at = "probing", !.net = n]
         IN  j \in Jobs /\ j.at = "probing" /\ j.net = n
  BY Basics DEF Idle, Jobs

LEMMA SwitchingIs ==
  ASSUME NEW n \in Handle, NEW why \in {"none", "recover", "button", "prefer"},
         NEW fresh \in BOOLEAN, NEW tail \in BOOLEAN
  PROVE  LET j == [at |-> "switching", net |-> n, why |-> why, fresh |-> fresh, tail |-> tail]
         IN  j \in Jobs /\ j.at = "switching" /\ j.net = n /\ j.fresh = fresh
  BY Basics DEF Jobs

-----------------------------------------------------------------------------
(* What the invariant says of the state, for the steps below.              *)

LEMMA Facts ==
  ASSUME VpnIInv
  PROVE  /\ transport \in {"quic", "https", "awg"}
         /\ phase \in [Handle -> {"unused", "up", "bad", "gone"}]
         /\ networks \in [Kind -> Maybe]
         /\ queue \in Seq(Tasks) /\ Len(queue) <= MaxQueue /\ Len(queue) \in Nat
         /\ job \in Jobs
         /\ (job.at \in {"starting", "switching", "probing"} <=> job.net \in Handle)
         /\ alive \in BOOLEAN /\ reconnectRequired \in BOOLEAN /\ awgPingSeen \in BOOLEAN
         /\ activeNetwork \in Maybe /\ failedNetwork \in Maybe /\ preparedNetwork \in Maybe
         /\ (alive <=> activeNetwork # NoNet) /\ (failedNetwork # NoNet => alive)
         /\ retryAt \in [Handle -> 0..2] /\ conn \in Conns /\ epoch \in Nat
         /\ trouble \in BOOLEAN /\ broken \in BOOLEAN
<1>1. /\ transport \in {"quic", "https", "awg"}
      /\ phase \in [Handle -> {"unused", "up", "bad", "gone"}]
      /\ networks \in [Kind -> Maybe] /\ Len(queue) <= MaxQueue
      /\ job.at \in {"starting", "switching", "probing"} <=> job.net \in Handle
      /\ alive <=> activeNetwork # NoNet
      /\ failedNetwork # NoNet => alive
      /\ retryAt \in [Handle -> 0..2] /\ conn \in Conns
  BY DEF VpnIInv, VpnTypeOK, Conns
<1>2. {alive, reconnectRequired, awgPingSeen} \subseteq BOOLEAN
  BY DEF VpnIInv, VpnTypeOK
<1>3. alive \in BOOLEAN /\ reconnectRequired \in BOOLEAN /\ awgPingSeen \in BOOLEAN
  BY <1>2, Zenon
<1>4. activeNetwork \in Maybe /\ failedNetwork \in Maybe /\ preparedNetwork \in Maybe
  BY DEF VpnIInv, VpnTypeOK
<1>5. /\ queue \in Seq(Tasks) /\ job \in Jobs /\ epoch \in Nat
      /\ trouble \in BOOLEAN /\ broken \in BOOLEAN
  BY DEF VpnIInv, VpnShapes
<1>6. Len(queue) \in Nat
  BY <1>5
<1> QED BY <1>1, <1>3, <1>4, <1>5, <1>6

\* There is always a local address that nobody holds.
LEMMA FreshPathIs ==
  ASSUME NEW n \in Handle, NEW a, NEW b, NEW held \in SUBSET {a, b},
         NEW q, Len(q) \in Nat, Len(q) <= MaxQueue
  PROVE  FreshPath(n, held, q) \in Paths /\ FreshPath(n, held, q) \notin held
<1>1. MaxQueue \in Nat
  BY Basics
<1> DEFINE numbers == 1 .. (MaxQueue + 3)
           holders == 1 .. (Len(q) + 2)
           holds(i) == IF i <= Len(q) THEN q[i].path ELSE IF i = Len(q) + 1 THEN a ELSE b
           Free(p) == p \notin held /\ \A i \in 1 .. Len(q) : q[i].path # p
<1>2. /\ IsFiniteSet(numbers) /\ IsFiniteSet(holders)
      /\ Cardinality(holders) < Cardinality(numbers)
  <2>1. IsFiniteSet(numbers) /\ Cardinality(numbers) = MaxQueue + 3
    <3>1. 1 \in Int /\ MaxQueue + 3 \in Int /\ ~(1 > MaxQueue + 3)
      BY <1>1
    <3>2. /\ IsFiniteSet(1 .. (MaxQueue + 3))
          /\ Cardinality(1 .. (MaxQueue + 3)) =
               IF 1 > MaxQueue + 3 THEN 0 ELSE (MaxQueue + 3) - 1 + 1
      BY <3>1, FS_Interval
    <3> QED BY <1>1, <3>1, <3>2
  <2>2. IsFiniteSet(holders) /\ Cardinality(holders) = Len(q) + 2
    <3>1. 1 \in Int /\ Len(q) + 2 \in Int /\ ~(1 > Len(q) + 2)
      OBVIOUS
    <3>2. /\ IsFiniteSet(1 .. (Len(q) + 2))
          /\ Cardinality(1 .. (Len(q) + 2)) = IF 1 > Len(q) + 2 THEN 0 ELSE (Len(q) + 2) - 1 + 1
      BY <3>1, FS_Interval
    <3> QED BY <3>1, <3>2
  <2> HIDE DEF numbers, holders
  <2> QED BY <1>1, <2>1, <2>2
<1>3. \E m \in numbers : \A i \in holders : holds(i) # <<n, m>>
  <2> SUFFICES ASSUME \A m \in numbers : \E i \in holders : holds(i) = <<n, m>> PROVE FALSE
    OBVIOUS
  <2> HIDE DEF numbers, holders, holds
  <2> DEFINE f == [m \in numbers |-> CHOOSE i \in holders : holds(i) = <<n, m>>]
  <2>1. \A m \in numbers : f[m] \in holders /\ holds(f[m]) = <<n, m>>
    OBVIOUS
  <2>2. f \in [numbers -> holders]
    BY <2>1
  <2> HIDE DEF f
  <2>3. PICK x \in numbers, y \in numbers : x # y /\ f[x] = f[y]
    BY <1>2, <2>2, FS_PigeonHole
  <2>4. <<n, x>> = <<n, y>>
    BY <2>1, <2>3
  <2> QED BY <2>3, <2>4
<1>4. \E p \in {n} \X numbers : Free(p)
  <2>1. PICK m \in numbers : \A i \in holders : holds(i) # <<n, m>>
    BY <1>3
  <2>2. <<n, m>> \in {n} \X numbers
    BY <2>1
  <2>3. \A i \in 1 .. Len(q) : i \in holders /\ holds(i) = q[i].path
    OBVIOUS
  <2>4. /\ Len(q) + 1 \in holders /\ holds(Len(q) + 1) = a
        /\ Len(q) + 2 \in holders /\ holds(Len(q) + 2) = b
    OBVIOUS
  <2> HIDE DEF numbers, holders, holds
  <2>5. Free(<<n, m>>)
    BY <2>1, <2>3, <2>4
  <2> QED BY <2>2, <2>5
<1>5. FreshPath(n, held, q) = CHOOSE p \in {n} \X numbers : Free(p)
  BY DEF FreshPath
<1> HIDE DEF Free
<1>6. FreshPath(n, held, q) \in {n} \X numbers /\ Free(FreshPath(n, held, q))
  BY <1>4, <1>5
<1> QED BY <1>6 DEF Free, Paths

\* A new socket is nobody else's.
LEMMA OpenedIs ==
  ASSUME NEW n \in Handle, NEW a, NEW b, NEW held \in SUBSET {a, b},
         NEW q, Len(q) \in Nat, Len(q) <= MaxQueue
  PROVE  /\ Opened(n, held, q) \in Sockets
         /\ \A x \in held : Opened(n, held, q).path = x => x = NoPath
<1>1. CASE transport = "quic"
  <2>1. FreshPath(n, held, q) \in Paths /\ FreshPath(n, held, q) \notin held
    BY FreshPathIs
  <2>2. Opened(n, held, q) = [net |-> n, path |-> FreshPath(n, held, q), checked |-> FALSE]
    BY <1>1 DEF Opened
  <2>3. n \in Maybe
    BY Basics
  <2> QED BY <2>1, <2>2, <2>3 DEF Sockets
<1>2. CASE transport # "quic"
  <2>1. Opened(n, held, q) = NoSocket
    BY <1>2 DEF Opened
  <2> QED BY <2>1, Basics
<1> QED BY <1>1, <1>2

\* Candidates that the caller has kept, marked or let go.
Kept(p, k) ==
  /\ p \in Sockets /\ k \in Sockets
  /\ p.path \in {prepared.path, NoPath} /\ k.path \in {parked.path, NoPath}

LEMMA KeptIs == ASSUME VpnIInv PROVE Kept(prepared, parked)
  BY DEF VpnIInv, SocketsApart, Kept

LEMMA KeptApart ==
  ASSUME VpnIInv, Kept(prepared', parked'), conn'.path \in {conn.path, NoPath}
  PROVE  SocketsApart'
  BY DEF VpnIInv, SocketsApart, Kept, Apart

\* prepare leaves each socket to one.
LEMMA PrepareIs ==
  ASSUME VpnIInv, NEW n \in Handle, NEW p, NEW k, Kept(p, k),
         NEW q, Len(q) \in Nat, Len(q) <= MaxQueue, Prepare(n, p, k, q), conn'.path = conn.path
  PROVE  SocketsApart'
<1> DEFINE kept == IF p = NoSocket THEN k ELSE Unchecked(p)
<1>1. Unchecked(p) \in Sockets /\ Unchecked(p).path = p.path
  BY SocketIs DEF Kept
<1>2. CASE prepared' = p /\ parked' = k
  BY <1>2, KeptApart
<1>3. CASE prepared' = k /\ parked' = Unchecked(p)
  BY <1>1, <1>3 DEF VpnIInv, SocketsApart, Kept, Apart
<1>4. CASE prepared' = Opened(n, {conn.path, kept.path}, q) /\ parked' = kept
  <2>1. kept \in Sockets /\ kept.path \in {prepared.path, parked.path, NoPath}
    BY <1>1 DEF Kept
  <2> HIDE DEF kept
  <2> DEFINE held == {conn.path, kept.path}
  <2>2. held \in SUBSET {conn.path, kept.path}
    OBVIOUS
  <2>3. prepared' = Opened(n, held, q) /\ conn.path \in held /\ kept.path \in held
    BY <1>4
  <2> HIDE DEF held
  <2>4. prepared' \in Sockets /\ \A x \in held : prepared'.path = x => x = NoPath
    BY <2>2, <2>3, OpenedIs
  <2> QED BY <1>4, <2>1, <2>3, <2>4 DEF VpnIInv, SocketsApart, Apart
<1> QED BY <1>2, <1>3, <1>4 DEF Prepare

\* A complaint that is queued is a report of the socket.
LEMMA ReportedIs ==
  ASSUME VpnIInv
  PROVE  /\ Reported(prepared) \in BOOLEAN
         /\ prepared.path \in Complaints(queue) => Reported(prepared)
<1>1. queue \in Seq(Tasks) /\ DOMAIN queue = 1 .. Len(queue)
  BY Facts
<1> QED BY <1>1 DEF Reported, Complaints

-----------------------------------------------------------------------------
(* Two ways in which the state goes on.                                    *)

\* The worker: it takes a task or makes a tick, and maybe begins to switch.
\* q is the queue without the task; required, whether a new connection is
\* demanded.
MovesOn(q, required) ==
  /\ job' \in Jobs /\ job'.at \in {"idle", "standby", "probing", "switching"}
  /\ (job'.at \in {"switching", "probing"} <=> job'.net \in Handle)
  /\ job'.at # "idle" => alive
  /\ job'.at = "probing" => job'.net \in Reserve'
  /\ \A n \in Handle : phase[n] = "gone" /\ n \notin About("lost", q) => n # job'.net
  /\ SocketsApart'
  /\ queue' = q \/ queue' = Append(q, Task("down", NoNet, epoch, NoPath))
  /\ Len(queue') <= MaxQueue
  /\ conn' \in Conns
  /\ \/ conn'.st = conn.st /\ conn'.path = conn.path /\ ~(job'.at = "switching" /\ job'.fresh)
     \/ /\ conn' = NoConn /\ job'.at = "switching" /\ job'.fresh
        /\ (transport = "quic" /\ IsConnected => required)

\* What the session then knows of its networks: none that is gone, unless the
\* task that says so is still to come.
NetworksFit(q) ==
  /\ networks' \in [Kind -> Maybe] /\ preparedNetwork' \in Maybe
  /\ \A k \in Kind : networks'[k] # NoNet => KindOf(networks'[k]) = k
  /\ \A n \in Handle : phase[n] = "gone" /\ n \notin About("lost", q) =>
       /\ \A k \in Kind : networks'[k] # n
       /\ n \notin About("available", q) /\ n # preparedNetwork'

\* A QUIC connection that was not lost is not given up (ReplacedOnlyIfBroken).
KeepsConnection ==
  transport = "quic" /\ alive /\ alive' /\ IsConnected /\ conn'.st = "none" => broken

LEMMA SessionKeeps ==
  ASSUME VpnIInv, UNCHANGED steady, NEW q, NEW required, MovesOn(q, required),
         q = queue \/ (queue # <<>> /\ q = Rest),
         NetworksFit(q), failedNetwork' \in Maybe, failedNetwork' # NoNet => alive,
         reconnectRequired' \in BOOLEAN, retryAt' \in [Handle -> 0..2],
         alive /\ phase[activeNetwork] = "gone" /\ failedNetwork' = NoNet =>
           activeNetwork \in About("lost", q),
         trouble' \in BOOLEAN, broken' \in BOOLEAN, trouble => trouble', broken => broken',
         alive /\ reconnectRequired' => broken', alive /\ required => broken,
         failedNetwork' # NoNet => trouble' \/ broken' \/ phase[activeNetwork] = "gone",
         alive /\ transport # "awg" /\ ~IsConnected => broken' \/ (job'.at = "switching" /\ job'.fresh)
  PROVE  VpnIInv' /\ KeepsConnection
<1>1. /\ UNCHANGED <<transport, phase, user, faults, alive, epoch, activeNetwork>>
      /\ UNCHANGED <<echo, reply, awgPingSeen>>
  BY DEF steady, world, timing
<1>2. /\ q \in Seq(Tasks) /\ Ordered(q) /\ Complaints(q) \subseteq Complaints(queue)
      /\ About("lost", q) \subseteq About("lost", queue)
  <2>1. queue \in Seq(Tasks) /\ Ordered(queue)
    BY Facts DEF VpnIInv, LossesAreOrdered
  <2>2. CASE q = queue
    BY <2>1, <2>2
  <2>3. CASE queue # <<>> /\ q = Tail(queue)
    BY <2>1, <2>3, TailOf
  <2> QED BY <2>2, <2>3 DEF Rest
<1>3. /\ queue' \in Seq(Tasks) /\ Ordered(queue') /\ Complaints(queue') = Complaints(q)
      /\ About("lost", queue') = About("lost", q)
      /\ About("available", queue') = About("available", q)
  <2>1. CASE queue' = q
    BY <2>1, <1>2
  <2>2. CASE queue' = Append(q, Task("down", NoNet, epoch, NoPath))
    <3> DEFINE t == Task("down", NoNet, epoch, NoPath)
    <3>1. t \in Tasks /\ t.what = "down"
      BY Facts, Basics, TaskIs
    <3> HIDE DEF t
    <3>2. queue' = Append(q, t)
      BY <2>2 DEF t
    <3> QED BY <1>2, <3>1, <3>2, AppendOf
  <2> QED BY <2>1, <2>2 DEF MovesOn
<1>4. VpnTypeOK'
  <2>1. {alive, reconnectRequired, awgPingSeen}' \subseteq BOOLEAN
    BY <1>1, Facts
  <2>2. job'.at \in {"starting", "switching", "probing"} <=> job'.net \in Handle
    BY DEF MovesOn
  <2>3. /\ Len(queue') <= MaxQueue /\ conn' \in Conns
        /\ job'.at \in {"idle", "starting", "switching", "standby", "probing"}
    BY DEF MovesOn
  <2>4. {activeNetwork, failedNetwork, preparedNetwork}' \subseteq Maybe
    BY <1>1, Facts DEF NetworksFit
  <2>5. {prepared, parked}' \subseteq Sockets
    BY DEF MovesOn, SocketsApart
  <2> QED BY <1>1, <2>1, <2>2, <2>3, <2>4, <2>5 DEF VpnIInv, VpnTypeOK, Conns, Sockets, NetworksFit
<1>5. VpnShapes'
  BY <1>1, <1>3, Facts DEF VpnShapes, MovesOn
<1>6. JobsAreSound'
  BY <1>1, Basics DEF JobsAreSound, MovesOn
<1>7. LossesAreOrdered'
  BY <1>1, <1>2, <1>3 DEF VpnIInv, LossesAreOrdered, NetworksFit, MovesOn
<1>8. SignsHaveReasons'
  <2>2. conn'.st # "none" /\ conn'.path \in Complaints(queue') => trouble' \/ broken'
    BY <1>2, <1>3, Basics DEF VpnIInv, SignsHaveReasons, MovesOn
  <2>3. (alive' /\ echo' = "stalled" => trouble') /\ (reply' = "overdue" => broken')
    BY <1>1 DEF VpnIInv, SignsHaveReasons
  <2>4. IsConnected' => IsConnected
    BY Basics DEF IsConnected, MovesOn
  <2>5. alive' /\ transport' # "awg" /\ ~IsConnected' /\ ~(job'.at = "switching" /\ job'.fresh)
          => broken'
    <3>1. ~(job'.at = "switching" /\ job'.fresh) => (IsConnected' <=> IsConnected)
      BY DEF IsConnected, MovesOn
    <3> QED BY <3>1, <1>1
  <2>6. TroubleIsReal'
    BY <1>1 DEF TroubleIsReal
  <2>7. alive' /\ reconnectRequired' => broken'
    BY <1>1
  <2> QED BY <2>2, <2>3, <2>5, <2>6, <2>7 DEF SignsHaveReasons
<1>9. KeepsConnection
  BY DEF KeepsConnection, MovesOn, IsConnected
<1>10. SocketsApart'
  BY DEF MovesOn
<1> QED BY <1>4, <1>5, <1>6, <1>7, <1>8, <1>9, <1>10 DEF VpnIInv

\* The world: the session's own state stays, networks and the transport
\* change, and tasks are queued.
LEMMA OutsideKeeps ==
  ASSUME VpnIInv,
         UNCHANGED <<transport, networks, job, alive, epoch, choice, reconnectRequired, sockets>>,
         phase' \in [Handle -> {"unused", "up", "bad", "gone"}],
         \A n \in Handle : phase[n] = "gone" => phase'[n] = "gone",
         user' \in 0..MaxUser, faults' \in 0..MaxFaults, retryAt' \in [Handle -> 0..2],
         \A n \in Handle : retryAt[n] = 0 => retryAt'[n] = 0,
         echo' \in {"recent", "stalled"}, reply' \in {"recent", "old", "overdue"},
         awgPingSeen' \in BOOLEAN,
         queue' \in Seq(Tasks), Len(queue') <= MaxQueue, Ordered(queue'),
         About("lost", queue) \subseteq About("lost", queue'),
         \A n \in About("lost", queue') : phase'[n] = "gone",
         \A n \in Handle : phase'[n] = "gone" /\ n \notin About("lost", queue') => phase[n] = "gone",
         \A n \in About("available", queue') : n \in About("available", queue) \/ phase'[n] # "gone",
         conn' \in Conns, conn'.path = conn.path, conn'.st = "none" <=> conn.st = "none",
         trouble' \in BOOLEAN, broken' \in BOOLEAN, trouble => trouble', broken => broken',
         IsConnected => IsConnected' \/ broken',
         conn.st # "none" /\ conn.path \in Complaints(queue') => trouble' \/ broken',
         alive /\ echo' = "stalled" => trouble', reply' = "overdue" => broken'
  PROVE  VpnIInv' /\ KeepsConnection
<1>1. /\ UNCHANGED <<transport, networks, job, alive, epoch, reconnectRequired>>
      /\ UNCHANGED <<activeNetwork, failedNetwork, preparedNetwork, prepared, parked>>
  BY DEF choice, sockets
<1>2. VpnTypeOK'
  <2>1. {alive, reconnectRequired, awgPingSeen}' \subseteq BOOLEAN
    BY <1>1, Facts
  <2> QED BY <1>1, <2>1 DEF VpnIInv, VpnTypeOK, Conns
<1>3. VpnShapes'
  BY <1>1, Facts DEF VpnShapes
<1>4. JobsAreSound'
  <2>1. job.at = "probing" => job.net \in Reserve'
    <3>1. job.at = "probing" => job.net \in Reserve /\ job.net \in Handle
      BY Facts DEF VpnIInv, JobsAreSound
    <3> QED BY <1>1, <3>1 DEF Reserve
  <2> QED BY <1>1, <2>1 DEF VpnIInv, JobsAreSound
<1>5. LossesAreOrdered'
  <2>1. About("lost", queue') \subseteq {n \in Handle : phase'[n] = "gone"}
    BY DEF About
  <2>2. ASSUME NEW n \in Handle, phase'[n] = "gone", n \notin About("lost", queue')
        PROVE  /\ \A k \in Kind : networks'[k] # n
               /\ n \notin About("available", queue') /\ n # preparedNetwork' /\ n # job'.net
    BY <1>1, <2>2 DEF VpnIInv, LossesAreOrdered
  <2>3. alive' /\ phase'[activeNetwork'] = "gone" /\ failedNetwork' = NoNet =>
          activeNetwork' \in About("lost", queue')
    <3>1. alive => activeNetwork \in Handle
      BY Facts DEF Maybe
    <3> QED BY <1>1, <3>1 DEF VpnIInv, LossesAreOrdered
  <2> QED BY <2>1, <2>2, <2>3 DEF LossesAreOrdered
<1>6. SignsHaveReasons'
  <2>1. TroubleIsReal'
    <3>1. failedNetwork # NoNet => activeNetwork \in Handle
      BY Facts DEF Maybe
    <3> QED BY <1>1, <3>1 DEF VpnIInv, SignsHaveReasons, TroubleIsReal
  <2>2. alive' /\ reconnectRequired' => broken'
    BY <1>1 DEF VpnIInv, SignsHaveReasons
  <2>3. alive' /\ transport' # "awg" /\ ~IsConnected' /\ ~(job'.at = "switching" /\ job'.fresh)
          => broken'
    BY <1>1 DEF VpnIInv, SignsHaveReasons
  <2> QED BY <1>1, <2>1, <2>2, <2>3 DEF SignsHaveReasons
<1>7. KeepsConnection
  BY DEF KeepsConnection, IsConnected
<1>8. SocketsApart'
  BY <1>1, KeptIs, KeptApart
<1> QED BY <1>2, <1>3, <1>4, <1>5, <1>6, <1>7, <1>8 DEF VpnIInv

-----------------------------------------------------------------------------
(* How the worker begins to switch.                                        *)

\* MigrateTo and Reconnect, up to the point where they wait.
LEMMA BeginIs ==
  ASSUME VpnIInv, alive, NEW n \in Handle, NEW why \in {"recover", "button", "prefer"},
         NEW tail \in BOOLEAN, NEW required \in BOOLEAN, NEW q, Len(q) \in Nat,
         Len(q) <= MaxQueue, phase[n] = "gone" => n \in About("lost", q),
         NEW p, NEW k, Kept(p, k), Begin(n, why, tail, required, q, p, k)
  PROVE  MovesOn(q, required)
<1>1. conn \in Conns /\ NoConn \in Conns
  BY Facts, Basics
<1>2. CASE Replaces(required)
  <2>1. /\ job' = [at |-> "switching", net |-> n, why |-> why, fresh |-> TRUE, tail |-> tail]
        /\ conn' = NoConn /\ queue' = Closing(q) /\ Len(Closing(q)) <= MaxQueue
    <3>1. Replaces(required) = TRUE
      BY <1>2 DEF Replaces
    <3>2. job' = [at |-> "switching", net |-> n, why |-> why, fresh |-> Replaces(required),
                  tail |-> tail]
      BY DEF Begin
    <3>3. conn' = NoConn /\ queue' = Closing(q) /\ Len(Closing(q)) <= MaxQueue
      BY <1>2 DEF Begin
    <3> QED BY <3>1, <3>2, <3>3
  <2>2. job' \in Jobs /\ job'.at = "switching" /\ job'.net = n /\ job'.fresh = TRUE
    BY <2>1, SwitchingIs
  <2>3. transport = "quic" /\ IsConnected => required
    BY <1>2 DEF Replaces, IsConnected
  <2>4. queue' = q \/ queue' = Append(q, Task("down", NoNet, epoch, NoPath))
    BY <2>1 DEF Closing
  <2>5. SocketsApart'
    <3>1. prepared' = Opened(n, {}, q) /\ parked' = NoSocket
      BY <1>2 DEF Begin
    <3>2. {} \in SUBSET {NoPath, NoPath}
      OBVIOUS
    <3>3. prepared' \in Sockets
      BY <3>1, <3>2, OpenedIs
    <3> QED BY <2>1, <3>1, <3>3, Basics DEF SocketsApart, Apart
  <2> QED BY <1>1, <2>1, <2>2, <2>3, <2>4, <2>5 DEF MovesOn
<1>3. CASE ~Replaces(required)
  <2>1. /\ job' = [at |-> "switching", net |-> n, why |-> why, fresh |-> FALSE, tail |-> tail]
        /\ conn' = conn /\ queue' = q
    <3>1. Replaces(required) = FALSE
      BY <1>3 DEF Replaces
    <3>2. job' = [at |-> "switching", net |-> n, why |-> why, fresh |-> Replaces(required),
                  tail |-> tail]
      BY DEF Begin
    <3>3. conn' = conn /\ queue' = q
      BY <1>3 DEF Begin
    <3> QED BY <3>1, <3>2, <3>3
  <2>2. job' \in Jobs /\ job'.at = "switching" /\ job'.net = n /\ job'.fresh = FALSE
    BY <2>1, SwitchingIs
  <2>3. SocketsApart'
    <3>1. Prepare(n, p, k, q)
      BY <1>3 DEF Begin
    <3> QED BY <2>1, <3>1, PrepareIs
  <2> QED BY <1>1, <2>1, <2>2, <2>3 DEF MovesOn
<1> QED BY <1>2, <1>3

\* The task is done without an attempt, or nothing is to be done.
LEMMA RestsIs ==
  ASSUME VpnIInv, NEW q, Len(q) <= MaxQueue, NEW tail \in BOOLEAN, tail => alive,
         job' = After(tail), queue' = q, conn' = conn, Kept(prepared', parked')
  PROVE  MovesOn(q, FALSE)
<1>1. conn \in Conns /\ NoNet \notin Handle
  BY Facts, Basics
<1>2. /\ job' \in Jobs /\ job'.at \in {"idle", "standby"} /\ job'.net = NoNet
      /\ job'.at = "standby" => tail
  BY AfterIs
<1>3. SocketsApart'
  BY KeptApart
<1> QED BY <1>1, <1>2, <1>3 DEF MovesOn

LEMMA IdleIs == Idle = After(FALSE)
  BY DEF After

\* recover tries only networks that Android has reported.
LEMMA CandidatesAre ==
  ASSUME NEW known \in [Kind -> Maybe], NEW failed, NEW required, NEW retry
  PROVE  /\ Candidates(known, failed, required, retry) \subseteq Handle
         /\ \A n \in Candidates(known, failed, required, retry) : \E k \in Kind : known[k] = n
<1> DEFINE ready == {n \in {known[k] : k \in Kind} \ {NoNet} : retry[n] = 0}
           others == ready \ {activeNetwork}
<1>1. ready \subseteq Handle /\ \A n \in ready : \E k \in Kind : known[k] = n
  BY DEF Maybe
<1>2. \/ Candidates(known, failed, required, retry) = others \cap Wifi
      \/ Candidates(known, failed, required, retry) = others
      \/ Candidates(known, failed, required, retry) = ready
      \/ Candidates(known, failed, required, retry) = {}
  BY DEF Candidates
<1> QED BY <1>1, <1>2

\* Another network that is ready is tried.
LEMMA CandidatesExist ==
  ASSUME NEW known \in [Kind -> Maybe], NEW failed, NEW required, NEW retry,
         NEW n \in {known[k] : k \in Kind} \ {NoNet, activeNetwork}, retry[n] = 0
  PROVE  Candidates(known, failed, required, retry) # {}
<1> DEFINE ready == {m \in {known[k] : k \in Kind} \ {NoNet} : retry[m] = 0}
           others == ready \ {activeNetwork}
<1>1. n \in others
  OBVIOUS
<1>2. CASE others \cap Wifi # {}
  <2>1. Candidates(known, failed, required, retry) = others \cap Wifi
    BY <1>2 DEF Candidates
  <2> QED BY <1>2, <2>1
<1>3. CASE others \cap Wifi = {}
  <2>1. Candidates(known, failed, required, retry) = others
    BY <1>1, <1>3 DEF Candidates
  <2> QED BY <1>1, <2>1
<1> QED BY <1>2, <1>3

\* recover: an attempt, or none.
LEMMA RecoverIs ==
  ASSUME VpnIInv, NEW early \in BOOLEAN, NEW failed \in Maybe, NEW required \in BOOLEAN,
         NEW retry \in [Handle -> 0..2], NEW q, Len(q) \in Nat, Len(q) <= MaxQueue,
         NetworksFit(q),
         NEW p, NEW k, Kept(p, k), NEW tail \in BOOLEAN, tail => alive,
         RecoverAt(early, failed, required, retry, q, p, k, tail)
  PROVE  /\ MovesOn(q, required) /\ reconnectRequired' = required
         /\ retryAt' \in [Handle -> 0..2]
         /\ \/ failedNetwork' = failed
            \/ /\ alive /\ failedNetwork' = activeNetwork
               /\ Candidates(networks', failed, required, retry) = {}
<1> DEFINE cs == Candidates(networks', failed, required, retry)
           attempt == alive /\ ~early
<1>1. reconnectRequired' = required /\ retryAt' \in [Handle -> 0..2]
  <2>1. reconnectRequired' = required
    BY DEF RecoverAt
  <2>2. \/ retryAt' = [n \in Handle |-> IF retry[n] = 2 THEN 1 ELSE retry[n]]
        \/ retryAt' = retry
    BY DEF RecoverAt
  <2>3. \A n \in Handle : (IF retry[n] = 2 THEN 1 ELSE retry[n]) \in 0..2
    OBVIOUS
  <2> QED BY <2>1, <2>2, <2>3
<1>2. CASE attempt /\ cs # {}
  <2>1. PICK n \in cs : Begin(n, "recover", tail, required, q, p, k)
    BY <1>2 DEF RecoverAt
  <2>2. n \in Handle /\ (phase[n] = "gone" => n \in About("lost", q))
    <3>1. n \in Handle /\ \E i \in Kind : networks'[i] = n
      BY <2>1, CandidatesAre DEF NetworksFit
    <3> QED BY <3>1 DEF NetworksFit
  <2>3. MovesOn(q, required)
    BY <1>2, <2>1, <2>2, BeginIs
  <2>4. failedNetwork' = failed
    BY <1>2 DEF RecoverAt
  <2> QED BY <1>1, <2>3, <2>4
<1>3. CASE ~(attempt /\ cs # {})
  <2>1. /\ failedNetwork' = (IF attempt THEN activeNetwork ELSE failed)
        /\ job' = After(tail) /\ queue' = q /\ conn' = conn /\ prepared' = p /\ parked' = k
    BY <1>3 DEF RecoverAt
  <2>2. MovesOn(q, FALSE)
    BY <2>1, RestsIs
  <2>3. MovesOn(q, required)
    BY <2>2 DEF MovesOn
  <2> HIDE DEF cs
  <2>4. failedNetwork' = failed \/ (alive /\ failedNetwork' = activeNetwork /\ cs = {})
    BY <1>3, <2>1
  <2> QED BY <1>1, <2>3, <2>4 DEF cs
<1> QED BY <1>2, <1>3

\* recover keeps the invariant if its caller has a reason for it: for the
\* network it holds for failed, and for leaving the one in use when there is
\* no other.
LEMMA RecoverKeeps ==
  ASSUME VpnIInv, UNCHANGED steady, job.at \in {"idle", "standby", "probing"},
         NEW early \in BOOLEAN, NEW failed \in Maybe, NEW required \in BOOLEAN,
         NEW retry \in [Handle -> 0..2], NEW q,
         NEW p, NEW k, Kept(p, k), NEW tail \in BOOLEAN, tail => alive,
         q = queue \/ (queue # <<>> /\ q = Rest),
         NetworksFit(q),
         alive /\ phase[activeNetwork] = "gone" /\ failed = NoNet =>
           activeNetwork \in About("lost", q),
         trouble' \in BOOLEAN, broken' = broken, trouble => trouble',
         failed # NoNet => alive, alive /\ required => broken,
         failed # NoNet => trouble' \/ broken \/ phase[activeNetwork] = "gone",
         \/ Candidates(networks', failed, required, retry) # {}
         \/ ~alive \/ trouble' \/ broken \/ phase[activeNetwork] = "gone",
         RecoverAt(early, failed, required, retry, q, p, k, tail)
  PROVE  VpnIInv' /\ KeepsConnection
<1>1. queue \in Seq(Tasks) /\ Len(queue) \in Nat /\ Len(queue) <= MaxQueue /\ MaxQueue \in Nat
  BY Facts, Basics
<1>2. Len(q) <= MaxQueue /\ Len(q) \in Nat
  <2>1. CASE q = queue
    BY <1>1, <2>1
  <2>2. CASE queue # <<>> /\ q = Tail(queue)
    <3>1. Len(q) \in Nat /\ Len(q) <= Len(queue)
      BY <1>1, <2>2, TailOf
    <3> QED BY <1>1, <3>1
  <2> QED BY <2>1, <2>2 DEF Rest
<1>3. /\ MovesOn(q, required) /\ reconnectRequired' = required
      /\ retryAt' \in [Handle -> 0..2]
      /\ \/ failedNetwork' = failed
         \/ /\ alive /\ failedNetwork' = activeNetwork
            /\ Candidates(networks', failed, required, retry) = {}
  BY <1>2, RecoverIs
<1>4. activeNetwork \in Maybe /\ (alive <=> activeNetwork # NoNet) /\ broken \in BOOLEAN
  BY Facts
<1>5. failedNetwork' \in Maybe /\ (failedNetwork' # NoNet => alive)
  BY <1>3, <1>4
<1>6. failedNetwork' # NoNet => trouble' \/ broken' \/ phase[activeNetwork] = "gone"
  BY <1>3
<1>7. alive /\ phase[activeNetwork] = "gone" /\ failedNetwork' = NoNet =>
        activeNetwork \in About("lost", q)
  BY <1>3, <1>4
<1>8. alive /\ transport # "awg" /\ ~IsConnected => broken'
  BY DEF VpnIInv, SignsHaveReasons
<1>9. /\ broken' \in BOOLEAN /\ (broken => broken') /\ reconnectRequired' \in BOOLEAN
      /\ alive /\ reconnectRequired' => broken'
  BY <1>3, <1>4
<1> QED BY <1>3, <1>5, <1>6, <1>7, <1>8, <1>9, SessionKeeps

-----------------------------------------------------------------------------
(* The tasks of the worker.                                                *)

\* The losses that are still queued when a task is taken that is none of them.
Calm(q) ==
  /\ \A n \in Handle : phase[n] = "gone" /\ n \notin About("lost", q) =>
       /\ \A k \in Kind : networks[k] # n
       /\ n \notin About("available", q) /\ n # preparedNetwork
  /\ alive /\ phase[activeNetwork] = "gone" /\ failedNetwork = NoNet =>
       activeNetwork \in About("lost", q)

LEMMA TakesTask ==
  ASSUME VpnIInv, queue # <<>>
  PROVE  /\ Head(queue) \in Tasks /\ Rest \in Seq(Tasks)
         /\ Len(Rest) <= MaxQueue /\ Len(Rest) \in Nat
         /\ Head(queue).what # "lost" => Calm(Rest)
<1>1. queue \in Seq(Tasks) /\ Len(queue) \in Nat /\ Len(queue) <= MaxQueue /\ MaxQueue \in Nat
  BY Facts, Basics
<1>2. /\ Tail(queue) \in Seq(Tasks) /\ Len(Tail(queue)) <= Len(queue) /\ Len(Tail(queue)) \in Nat
      /\ Head(queue) \in Tasks
      /\ \A w : /\ About(w, Tail(queue)) \subseteq About(w, queue)
                /\ \A n \in About(w, queue) :
                     n \in About(w, Tail(queue)) \/ (Head(queue).what = w /\ Head(queue).net = n)
  BY <1>1, TailOf
<1>3. Len(Rest) <= MaxQueue
  BY <1>1, <1>2 DEF Rest
<1>4. ASSUME Head(queue).what # "lost" PROVE Calm(Rest)
  <2>1. /\ About("lost", Rest) = About("lost", queue)
        /\ About("available", Rest) \subseteq About("available", queue)
    <3>1. About("lost", Tail(queue)) \subseteq About("lost", queue)
      BY <1>2
    <3>2. \A n \in About("lost", queue) :
            n \in About("lost", Tail(queue)) \/ (Head(queue).what = "lost" /\ Head(queue).net = n)
      BY <1>2
    <3>3. About("available", Tail(queue)) \subseteq About("available", queue)
      BY <1>2
    <3> QED BY <1>4, <3>1, <3>2, <3>3 DEF Rest
  <2> QED BY <2>1 DEF VpnIInv, LossesAreOrdered, Calm
<1> QED BY <1>2, <1>3, <1>4 DEF Rest

LEMMA IsCalm == ASSUME VpnIInv PROVE Calm(queue)
  BY DEF VpnIInv, LossesAreOrdered, Calm

LEMMA TypedNetworks ==
  ASSUME VpnIInv
  PROVE  /\ networks \in [Kind -> Maybe]
         /\ \A k \in Kind : networks[k] # NoNet => KindOf(networks[k]) = k
  BY DEF VpnIInv, VpnTypeOK

\* A task, or a tick, that changes nothing but what the caller says of the
\* networks.
LEMMA QuietKeeps ==
  ASSUME VpnIInv, UNCHANGED steady, job.at \in {"idle", "standby", "probing"},
         NEW q, q = queue \/ (queue # <<>> /\ q = Rest),
         MovesOn(q, FALSE), UNCHANGED <<reconnectRequired, history>>, retryAt' \in [Handle -> 0..2],
         failedNetwork' \in {failedNetwork, NoNet},
         NetworksFit(q),
         alive /\ phase[activeNetwork] = "gone" /\ failedNetwork' = NoNet =>
           activeNetwork \in About("lost", q)
  PROVE  VpnIInv' /\ KeepsConnection
<1>3. /\ trouble' = trouble /\ broken' = broken /\ trouble \in BOOLEAN /\ broken \in BOOLEAN
      /\ reconnectRequired' \in BOOLEAN /\ reconnectRequired' = reconnectRequired
      /\ failedNetwork' \in Maybe /\ (failedNetwork' # NoNet => failedNetwork # NoNet /\ alive)
  BY Facts, Basics DEF history
<1>4. alive /\ transport # "awg" /\ ~IsConnected => broken'
  BY <1>3 DEF VpnIInv, SignsHaveReasons
<1>5. alive /\ reconnectRequired' => broken'
  BY <1>3 DEF VpnIInv, SignsHaveReasons
<1>6. failedNetwork' # NoNet => trouble' \/ broken' \/ phase[activeNetwork] = "gone"
  BY <1>3 DEF VpnIInv, SignsHaveReasons, TroubleIsReal
<1> QED BY <1>3, <1>4, <1>5, <1>6, SessionKeeps

\* A task is taken and nothing is begun.
LEMMA TakenIs ==
  ASSUME VpnIInv, job.at = "idle", queue # <<>>, queue' = Rest, UNCHANGED <<job, conn>>,
         Kept(prepared', parked')
  PROVE  MovesOn(Rest, FALSE)
<1>1. /\ job \in Jobs /\ job.net \notin Handle /\ conn \in Conns
  BY Facts
<1>2. Len(Rest) <= MaxQueue
  BY TakesTask
<1>3. SocketsApart'
  BY KeptApart
<1> QED BY <1>1, <1>2, <1>3 DEF MovesOn

\* A task that is done without any change: the network is unknown or in use,
\* the event is out of date.
LEMMA DoneKeeps ==
  ASSUME VpnIInv, job.at = "idle", queue # <<>>, Head(queue).what # "lost", Done,
         UNCHANGED steady, UNCHANGED <<networks, preparedNetwork, history>>
  PROVE  VpnIInv' /\ KeepsConnection
<1>1. /\ queue' = Rest /\ UNCHANGED <<job, conn, failedNetwork, reconnectRequired, retryAt>>
      /\ networks' = networks /\ preparedNetwork' = preparedNetwork
      /\ prepared' = prepared /\ parked' = parked
  BY DEF Done, sockets
<1>2. Calm(Rest) /\ MovesOn(Rest, FALSE)
  BY <1>1, TakesTask, TakenIs, KeptIs
<1>3. preparedNetwork' \in Maybe /\ retryAt' \in [Handle -> 0..2]
  BY <1>1, Facts
<1>4. alive /\ phase[activeNetwork] = "gone" /\ failedNetwork' = NoNet =>
        activeNetwork \in About("lost", Rest)
  BY <1>1, <1>2 DEF Calm
<1>5. NetworksFit(Rest)
  BY <1>1, <1>2, <1>3, TypedNetworks DEF Calm, NetworksFit
<1> QED BY <1>1, <1>2, <1>3, <1>4, <1>5, QuietKeeps

LEMMA OnAvailableKeeps == ASSUME VpnIInv, OnAvailable PROVE VpnIInv' /\ KeepsConnection
<1> DEFINE n == Head(queue).net
<1>1. /\ job.at = "idle" /\ queue # <<>> /\ Head(queue).what = "available"
      /\ queue' = Rest /\ UNCHANGED <<job, conn, failedNetwork, reconnectRequired, retryAt>>
      /\ networks' = [networks EXCEPT ![KindOf(n)] = n]
      /\ UNCHANGED steady /\ UNCHANGED <<preparedNetwork, history>>
      /\ prepared' = prepared /\ parked' = parked
  BY DEF OnAvailable, Next1, Done, sockets
<1>2. n \in Handle /\ KindOf(n) \in Kind /\ n \in Maybe
  BY <1>1, TakesTask DEF Tasks, KindOf, Kind, Maybe
<1>3. n \in About("available", queue) /\ Calm(Rest)
  BY <1>1, <1>2, TakesTask, TailOf, Facts
<1>4. phase[n] = "gone" => n \in About("lost", Rest)
  <2>1. phase[n] = "gone" => n \in About("lost", queue)
    BY <1>2, <1>3 DEF VpnIInv, LossesAreOrdered
  <2>2. \A m \in About("lost", queue) : m \in About("lost", Tail(queue)) \/ Head(queue).what = "lost"
    BY <1>1, TailOf, Facts
  <2> QED BY <1>1, <2>1, <2>2 DEF Rest
<1> HIDE DEF n
<1>5. /\ networks' \in [Kind -> Maybe]
      /\ \A k \in Kind : networks'[k] = networks[k] \/ (networks'[k] = n /\ k = KindOf(n))
  BY <1>1, <1>2, TypedNetworks
<1>6. \A k \in Kind : networks'[k] # NoNet => KindOf(networks'[k]) = k
  BY <1>5, TypedNetworks
<1>7. NetworksFit(Rest)
  <2>1. preparedNetwork' = preparedNetwork /\ preparedNetwork' \in Maybe
    BY <1>1, Facts
  <2> QED BY <2>1, <1>3, <1>4, <1>5, <1>6 DEF Calm, NetworksFit
<1>8. MovesOn(Rest, FALSE) /\ retryAt' \in [Handle -> 0..2]
  BY <1>1, TakenIs, KeptIs, Facts
<1>9. alive /\ phase[activeNetwork] = "gone" /\ failedNetwork' = NoNet =>
        activeNetwork \in About("lost", Rest)
  BY <1>1, <1>3 DEF Calm
<1> QED BY <1>1, <1>7, <1>8, <1>9, QuietKeeps

LEMMA OnLostKeeps == ASSUME VpnIInv, OnLost PROVE VpnIInv' /\ KeepsConnection
<1> DEFINE n == Head(queue).net
<1>1. /\ job.at = "idle" /\ queue # <<>> /\ Head(queue).what = "lost"
      /\ networks' = [k \in Kind |-> IF networks[k] = n THEN NoNet ELSE networks[k]]
      /\ preparedNetwork' = IF preparedNetwork = n THEN NoNet ELSE preparedNetwork
      /\ UNCHANGED steady /\ UNCHANGED history
  BY DEF OnLost, Next1
<1>2. n \in Handle /\ n # NoNet /\ n \in Maybe
  BY <1>1, TakesTask, Basics DEF Tasks
<1>3. /\ n \in About("lost", queue) /\ n \notin About("available", queue)
      /\ \A m \in About("lost", queue) : m \in About("lost", Rest) \/ m = n
      /\ About("available", Rest) \subseteq About("available", queue)
  BY <1>1, <1>2, TailOf, Facts DEF VpnIInv, LossesAreOrdered, Rest
<1>4. phase[n] = "gone"
  BY <1>3 DEF VpnIInv, LossesAreOrdered
<1> HIDE DEF n
<1>5. /\ networks' \in [Kind -> Maybe] /\ preparedNetwork' \in Maybe
      /\ \A k \in Kind : networks'[k] \in {networks[k], NoNet} /\ networks'[k] # n
      /\ preparedNetwork' # n /\ preparedNetwork' \in {preparedNetwork, NoNet}
  BY <1>1, <1>2, Facts, Basics
<1>6. \A k \in Kind : networks'[k] # NoNet => KindOf(networks'[k]) = k
  BY <1>5, TypedNetworks
<1>7. NetworksFit(Rest)
  <2> SUFFICES ASSUME NEW m \in Handle, phase[m] = "gone", m \notin About("lost", Rest)
               PROVE  /\ \A k \in Kind : networks'[k] # m
                      /\ m \notin About("available", Rest) /\ m # preparedNetwork'
    BY <1>5, <1>6 DEF NetworksFit
  <2>1. CASE m = n
    BY <2>1, <1>3, <1>5
  <2>2. CASE m # n
    <3>1. m \notin About("lost", queue) /\ m # NoNet
      BY <1>3, <2>2, Basics
    <3>2. (\A k \in Kind : networks[k] # m) /\ m \notin About("available", queue) /\ m # preparedNetwork
      BY <3>1 DEF VpnIInv, LossesAreOrdered
    <3> QED BY <3>1, <3>2, <1>3, <1>5
  <2> QED BY <2>1, <2>2
<1> DEFINE p == Without(prepared, n)
           o == Without(parked, n)
<1>8. Kept(p, o)
  BY WithoutIs DEF VpnIInv, SocketsApart, Kept
<1>9. CASE activeNetwork = n
  <2>1. PICK early \in BOOLEAN :
          RecoverAt(early, n, reconnectRequired, NoPenalty, Rest, p, o, FALSE)
    BY <1>1, <1>9 DEF OnLost, Recover, n
  <2> HIDE DEF p, o
  <2>2. /\ NoPenalty \in [Handle -> 0..2] /\ reconnectRequired \in BOOLEAN /\ alive
        /\ trouble' \in BOOLEAN /\ broken' = broken /\ (trouble => trouble')
    BY <1>1, <1>2, <1>9, Facts DEF NoPenalty, history
  <2>3. alive /\ reconnectRequired => broken
    BY DEF VpnIInv, SignsHaveReasons
  <2>4. phase[activeNetwork] = "gone" /\ n # NoNet /\ n \in Maybe
    BY <1>2, <1>4, <1>9
  <2>5. job.at \in {"idle", "standby", "probing"} /\ queue # <<>> /\ UNCHANGED steady
    BY <1>1
  <2>6. (Rest = queue \/ (queue # <<>> /\ Rest = Rest)) /\ (FALSE => alive)
    BY <1>1
  <2>7. /\ n # NoNet => alive
        /\ alive /\ phase[activeNetwork] = "gone" /\ n = NoNet =>
             activeNetwork \in About("lost", Rest)
        /\ n # NoNet => trouble' \/ broken \/ phase[activeNetwork] = "gone"
        /\ \/ Candidates(networks', n, reconnectRequired, NoPenalty) # {}
           \/ ~alive \/ trouble' \/ broken \/ phase[activeNetwork] = "gone"
    BY <2>2, <2>4
  <2> QED BY <1>7, <1>8, <2>1, <2>2, <2>3, <2>4, <2>5, <2>6, <2>7, RecoverKeeps
<1>10. CASE activeNetwork # n
  <2>1. /\ queue' = Rest /\ retryAt' = [retryAt EXCEPT ![n] = 0]
        /\ UNCHANGED <<job, conn, failedNetwork, reconnectRequired>>
        /\ prepared' = p /\ parked' = o
    BY <1>1, <1>10 DEF OnLost, n
  <2> HIDE DEF p, o
  <2>2. MovesOn(Rest, FALSE) /\ retryAt' \in [Handle -> 0..2]
    <3>1. retryAt \in [Handle -> 0..2] /\ 0 \in 0..2
      BY Facts
    <3>2. retryAt' \in [Handle -> 0..2]
      BY <2>1, <3>1
    <3> QED BY <1>1, <1>8, <2>1, <3>2, TakenIs
  <2>3. alive /\ phase[activeNetwork] = "gone" /\ failedNetwork' = NoNet =>
          activeNetwork \in About("lost", Rest)
    BY <1>3, <1>10, <2>1 DEF VpnIInv, LossesAreOrdered
  <2> QED BY <1>1, <1>7, <2>1, <2>2, <2>3, QuietKeeps
<1> QED BY <1>9, <1>10

\* recover for the network in use, with the networks as they are.
LEMMA RecoverInPlace ==
  ASSUME VpnIInv, UNCHANGED steady, job.at \in {"idle", "standby", "probing"},
         NEW early \in BOOLEAN, NEW failed \in {failedNetwork, activeNetwork},
         NEW required \in BOOLEAN, NEW retry \in [Handle -> 0..2], NEW q,
         NEW p, NEW k, Kept(p, k), NEW tail \in BOOLEAN, tail => alive,
         (q = queue \/ (queue # <<>> /\ q = Rest)), Calm(q),
         UNCHANGED <<networks, preparedNetwork, broken>>,
         trouble' \in BOOLEAN, trouble => trouble',
         alive /\ required => broken,
         ~alive \/ trouble' \/ broken \/ phase[activeNetwork] = "gone",
         RecoverAt(early, failed, required, retry, q, p, k, tail)
  PROVE  VpnIInv' /\ KeepsConnection
<1>1. /\ failed \in Maybe /\ preparedNetwork' \in Maybe /\ (failed # NoNet => alive)
      /\ alive => activeNetwork # NoNet
  BY Facts
<1>2. NetworksFit(q)
  BY <1>1, TypedNetworks DEF Calm, NetworksFit
<1>3. alive /\ phase[activeNetwork] = "gone" /\ failed = NoNet => activeNetwork \in About("lost", q)
  BY <1>1 DEF Calm
<1> QED BY <1>1, <1>2, <1>3, RecoverKeeps

LEMMA OnLosingKeeps == ASSUME VpnIInv, OnLosing PROVE VpnIInv' /\ KeepsConnection
<1>1. /\ job.at = "idle" /\ queue # <<>> /\ Head(queue).what = "losing"
      /\ UNCHANGED steady /\ UNCHANGED <<networks, preparedNetwork, broken>>
  BY DEF OnLosing, Next1
<1>2. Calm(Rest)
  BY <1>1, TakesTask
<1>3. CASE trouble' = TRUE /\ Recover(failedNetwork, reconnectRequired, retryAt, Rest,
                                          prepared, parked, FALSE)
  <2>1. PICK early \in BOOLEAN :
          RecoverAt(early, failedNetwork, reconnectRequired, retryAt, Rest, prepared, parked, FALSE)
    BY <1>3 DEF Recover
  <2>2. retryAt \in [Handle -> 0..2] /\ reconnectRequired \in BOOLEAN
    BY Facts
  <2>3. alive /\ reconnectRequired => broken
    BY DEF VpnIInv, SignsHaveReasons
  <2> QED BY <1>1, <1>2, <1>3, <2>1, <2>2, <2>3, KeptIs, RecoverInPlace
<1>4. CASE Done /\ UNCHANGED trouble
  BY <1>1, <1>4, DoneKeeps DEF history
<1> QED BY <1>3, <1>4 DEF OnLosing

LEMMA OnDisconnectedKeeps == ASSUME VpnIInv, OnDisconnected PROVE VpnIInv' /\ KeepsConnection
<1>1. /\ job.at = "idle" /\ queue # <<>> /\ Head(queue).what = "down"
      /\ UNCHANGED steady /\ UNCHANGED <<networks, preparedNetwork, history>>
  BY DEF OnDisconnected, Next1
<1>2. Calm(Rest)
  BY <1>1, TakesTask
<1>3. CASE Disconnection
  <2>1. PICK early \in BOOLEAN :
          RecoverAt(early, activeNetwork, TRUE, NoPenalty, Rest, prepared, parked, FALSE)
    BY <1>3 DEF OnDisconnected, Recover
  <2>2. NoPenalty \in [Handle -> 0..2]
    BY DEF NoPenalty
  <2>3. alive => broken
    BY <1>1, <1>3 DEF VpnIInv, SignsHaveReasons, Disconnection
  <2>4. trouble' \in BOOLEAN /\ (trouble => trouble') /\ UNCHANGED broken
    BY <1>1, Facts DEF history
  <2> QED BY <1>1, <1>2, <2>1, <2>2, <2>3, <2>4, KeptIs, RecoverInPlace
<1>4. CASE ~Disconnection
  BY <1>1, <1>4, DoneKeeps DEF OnDisconnected
<1> QED BY <1>3, <1>4

LEMMA OnPathUnavailableKeeps ==
  ASSUME VpnIInv, OnPathUnavailable PROVE VpnIInv' /\ KeepsConnection
<1>1. /\ job.at = "idle" /\ queue # <<>> /\ Head(queue).what = "path"
      /\ UNCHANGED steady /\ UNCHANGED <<networks, preparedNetwork, history>>
  BY DEF OnPathUnavailable, Next1
<1>2. Calm(Rest)
  BY <1>1, TakesTask
<1>3. CASE Unavailability
  <2> DEFINE retry == IF failedNetwork = NoNet THEN NoPenalty ELSE retryAt
  <2>1. PICK early \in BOOLEAN :
          RecoverAt(early, activeNetwork, reconnectRequired, retry, Rest, prepared, parked, FALSE)
    BY <1>3 DEF OnPathUnavailable, Recover
  <2>2. retry \in [Handle -> 0..2] /\ reconnectRequired \in BOOLEAN
    BY Facts DEF NoPenalty
  <2> HIDE DEF retry
  <2>3. alive /\ reconnectRequired => broken
    BY DEF VpnIInv, SignsHaveReasons
  <2>4. Head(queue).path \in Complaints(queue)
    BY <1>1, TailOf, Facts
  <2>5. trouble \/ broken
    BY <1>3, <2>4 DEF VpnIInv, SignsHaveReasons, Unavailability
  <2>6. trouble' \in BOOLEAN /\ (trouble => trouble') /\ UNCHANGED broken
    BY <1>1, Facts DEF history
  <2> QED BY <1>1, <1>2, <2>1, <2>2, <2>3, <2>5, <2>6, KeptIs, RecoverInPlace
<1>4. CASE ~Unavailability
  BY <1>1, <1>4, DoneKeeps DEF OnPathUnavailable
<1> QED BY <1>3, <1>4

-----------------------------------------------------------------------------
(* Starting, stopping and switching.                                       *)

\* A switch is begun with the networks as they are, or with a reserve that
\* has just answered.
LEMMA BeginKeeps ==
  ASSUME VpnIInv, UNCHANGED steady, job.at \in {"idle", "standby", "probing"}, alive,
         NEW n \in Handle, NEW why \in {"recover", "button", "prefer"},
         NEW q, q = queue \/ (queue # <<>> /\ q = Rest), Calm(q),
         phase[n] = "gone" => n \in About("lost", q),
         NEW p, NEW k, Kept(p, k), Begin(n, why, FALSE, reconnectRequired, q, p, k),
         UNCHANGED <<networks, failedNetwork, reconnectRequired, retryAt, history>>,
         preparedNetwork' = preparedNetwork \/ (preparedNetwork' = n /\ phase[n] # "gone")
  PROVE  VpnIInv' /\ KeepsConnection
<1>1. reconnectRequired \in BOOLEAN /\ retryAt \in [Handle -> 0..2] /\ preparedNetwork \in Maybe
  BY Facts
<1>2. Len(q) <= MaxQueue /\ Len(q) \in Nat
  BY Facts, TakesTask
<1>3. MovesOn(q, reconnectRequired)
  BY <1>1, <1>2, BeginIs
<1>4. NetworksFit(q)
  BY <1>1, TypedNetworks, Basics DEF Calm, NetworksFit
<1>5. /\ trouble' = trouble /\ broken' = broken /\ trouble \in BOOLEAN /\ broken \in BOOLEAN
      /\ failedNetwork' \in Maybe
  BY Facts DEF history
<1>6. /\ alive /\ transport # "awg" /\ ~IsConnected => broken
      /\ alive /\ reconnectRequired => broken
      /\ failedNetwork # NoNet => trouble \/ broken \/ phase[activeNetwork] = "gone"
  BY DEF VpnIInv, SignsHaveReasons, TroubleIsReal
<1>7. alive /\ phase[activeNetwork] = "gone" /\ failedNetwork' = NoNet =>
        activeNetwork \in About("lost", q)
  BY DEF Calm
<1> QED BY <1>1, <1>3, <1>4, <1>5, <1>6, <1>7, SessionKeeps

LEMMA MigrateKeeps == ASSUME VpnIInv, NEW k \in Kind, Migrate(k) PROVE VpnIInv' /\ KeepsConnection
<1>1. /\ job.at = "idle" /\ queue # <<>> /\ Head(queue).what = k /\ alive /\ networks[k] # NoNet
      /\ Begin(networks[k], "button", FALSE, reconnectRequired, Rest, prepared, parked)
      /\ UNCHANGED <<world, networks, alive, epoch, choice, reconnectRequired, retryAt,
                     timing, history>>
  BY DEF Migrate, Next1
<1>2. networks[k] \in Handle
  BY <1>1, Facts DEF Maybe
<1>3. Calm(Rest)
  BY <1>1, TakesTask DEF Kind
<1>4. UNCHANGED steady /\ UNCHANGED <<networks, failedNetwork, reconnectRequired, retryAt, history>>
  BY <1>1 DEF steady, choice
<1>5. preparedNetwork' = preparedNetwork
  BY <1>1 DEF choice
<1>6. phase[networks[k]] = "gone" => networks[k] \in About("lost", Rest)
  BY <1>2, <1>3 DEF Calm
<1> QED BY <1>1, <1>2, <1>3, <1>4, <1>5, <1>6, KeptIs, BeginKeeps

LEMMA PressInVainKeeps ==
  ASSUME VpnIInv, NEW k \in Kind, PressInVain(k) PROVE VpnIInv' /\ KeepsConnection
<1>1. /\ job.at = "idle" /\ queue # <<>> /\ Head(queue).what = k /\ Done
      /\ UNCHANGED steady /\ UNCHANGED <<networks, preparedNetwork, history>>
  BY DEF PressInVain, Next1
<1>2. k # "lost"
  BY DEF Kind
<1> QED BY <1>1, <1>2, DoneKeeps

\* stopInternal, alone or before a start.
LEMMA ResetKeeps ==
  ASSUME VpnIInv, queue # <<>>, Head(queue).what # "lost", queue' = Rest, StopInternal,
         UNCHANGED <<world, networks>>, job' \in Jobs, job'.at \in {"idle", "starting"},
         job'.at = "starting" <=> job'.net \in Handle, SocketsApart',
         \A n \in Handle : n = job'.net => \E k \in Kind : networks[k] = n
  PROVE  VpnIInv' /\ KeepsConnection
<1>1. /\ epoch' = epoch + 1 /\ alive' = FALSE /\ reconnectRequired' = FALSE
      /\ activeNetwork' = NoNet /\ failedNetwork' = NoNet /\ preparedNetwork' = NoNet
      /\ retryAt' = NoPenalty /\ awgPingSeen' = FALSE
      /\ echo' = "recent" /\ reply' = "recent"
      /\ conn' = NoConn /\ trouble' = FALSE /\ broken' = FALSE
  BY DEF StopInternal
<1>2. UNCHANGED <<transport, phase, user, faults, networks>>
  BY DEF world
<1>3. /\ Rest \in Seq(Tasks) /\ Len(Rest) <= MaxQueue /\ Calm(Rest)
      /\ About("lost", Rest) \subseteq About("lost", queue)
      /\ Complaints(Rest) \subseteq Complaints(queue) /\ Ordered(Rest)
  <2>1. Ordered(queue) /\ queue \in Seq(Tasks)
    BY Facts DEF VpnIInv, LossesAreOrdered
  <2>2. /\ About("lost", Rest) \subseteq About("lost", queue)
        /\ Complaints(Rest) \subseteq Complaints(queue) /\ Ordered(Rest)
    BY <2>1, TailOf DEF Rest
  <2> QED BY <2>2, TakesTask
<1>4. VpnTypeOK'
  <2>1. {alive, reconnectRequired, awgPingSeen}' \subseteq BOOLEAN
    BY <1>1
  <2>2. retryAt' \in [Handle -> 0..2]
    BY <1>1 DEF NoPenalty
  <2>3. conn' \in Conns /\ {activeNetwork, failedNetwork, preparedNetwork}' \subseteq Maybe
    BY <1>1, Basics
  <2>4. Len(queue') <= MaxQueue
    BY <1>3
  <2>5. {prepared, parked}' \subseteq Sockets
    BY DEF SocketsApart
  <2> QED BY <1>1, <1>2, <2>1, <2>2, <2>3, <2>4, <2>5 DEF VpnIInv, VpnTypeOK, Conns, Sockets
<1>5. VpnShapes'
  <2>1. epoch' \in Nat
    BY <1>1, Facts
  <2>2. queue' \in Seq(Tasks) /\ trouble' \in BOOLEAN /\ broken' \in BOOLEAN
    BY <1>1, <1>3
  <2> QED BY <2>1, <2>2 DEF VpnShapes
<1>6. JobsAreSound'
  BY <1>1 DEF JobsAreSound
<1>7. LossesAreOrdered'
  BY <1>1, <1>2, <1>3, Basics DEF VpnIInv, LossesAreOrdered, Calm
<1>8. SignsHaveReasons'
  BY <1>1, <1>2, <1>3, Basics DEF VpnIInv, SignsHaveReasons, TroubleIsReal
<1>9. KeepsConnection
  BY <1>1 DEF KeepsConnection
<1> QED BY <1>4, <1>5, <1>6, <1>7, <1>8, <1>9 DEF VpnIInv

LEMMA StopKeeps == ASSUME VpnIInv, Stop PROVE VpnIInv' /\ KeepsConnection
<1>1. /\ job.at = "idle" /\ queue # <<>> /\ Head(queue).what = "stop" /\ StopInternal
      /\ queue' = Rest /\ UNCHANGED <<world, networks, job>>
      /\ prepared' = NoSocket /\ parked' = NoSocket /\ conn' = NoConn
  BY DEF Stop, Next1, StopInternal
<1>2. /\ job' \in Jobs /\ job'.at \in {"idle", "starting"}
      /\ job'.at = "starting" <=> job'.net \in Handle
      /\ job'.net \notin Handle
  BY <1>1, Facts
<1>3. SocketsApart'
  BY <1>1, Basics DEF SocketsApart, Apart
<1> QED BY <1>1, <1>2, <1>3, ResetKeeps

LEMMA StartKeeps == ASSUME VpnIInv, NEW k \in Kind, Start(k) PROVE VpnIInv' /\ KeepsConnection
<1>1. /\ queue # <<>> /\ Head(queue).what = k /\ StopInternal /\ networks[k] # NoNet
      /\ queue' = Rest /\ UNCHANGED <<world, networks>>
      /\ job' = [Idle EXCEPT !.at = "starting", !.net = networks[k]]
      /\ prepared' = Opened(networks[k], {}, Rest) /\ parked' = NoSocket /\ conn' = NoConn
  BY DEF Start, Next1, StopInternal
<1>2. networks[k] \in Handle /\ k # "lost"
  BY <1>1, Facts DEF Maybe, Kind
<1>3. job' \in Jobs /\ job'.at = "starting" /\ job'.net = networks[k]
  BY <1>1, <1>2, StartingIs
<1>4. SocketsApart'
  <2>1. {} \in SUBSET {NoPath, NoPath} /\ Len(Rest) \in Nat /\ Len(Rest) <= MaxQueue
    BY <1>1, TakesTask
  <2>2. prepared' \in Sockets
    BY <1>1, <1>2, <2>1, OpenedIs
  <2> QED BY <1>1, <2>2, Basics DEF SocketsApart, Apart
<1> QED BY <1>1, <1>2, <1>3, <1>4, ResetKeeps

\* A connection takes over the socket that was opened for it.
LEMMA ConnectedIs ==
  ASSUME VpnIInv, NEW n \in Handle
  PROVE  /\ Connected(n) \in Conns /\ Connected(n).st = "ok" /\ Connected(n).path = prepared.path
         /\ prepared.path \in Paths
<1>1. prepared.path \in Paths
  BY DEF VpnIInv, SocketsApart, Sockets
<1> QED BY <1>1, Basics DEF Connected, Conns

LEMMA SocketTaken ==
  ASSUME VpnIInv, conn'.path \in {conn.path, prepared.path}, prepared' = NoSocket, parked' = parked
  PROVE  SocketsApart'
  BY Basics DEF VpnIInv, SocketsApart, Apart

LEMMA StartEndsKeeps == ASSUME VpnIInv, StartEnds PROVE VpnIInv' /\ KeepsConnection
<1>1. /\ job.at = "starting" /\ job' = Idle
      /\ UNCHANGED <<world, networks, queue, epoch, failedNetwork, preparedNetwork,
                     reconnectRequired, retryAt, awgPingSeen, broken>>
      /\ prepared' = NoSocket /\ parked' = parked
  BY DEF StartEnds
<1>2. UNCHANGED <<transport, phase, user, faults>>
  BY <1>1 DEF world
<1>3. job.net \in Handle /\ ~alive /\ ~reconnectRequired /\ failedNetwork = NoNet
  BY <1>1, Facts DEF VpnIInv, JobsAreSound
<1>4. /\ conn' \in Conns
      /\ \/ conn'.st = "ok" /\ conn'.path = prepared.path /\ trouble' = Reported(prepared)
         \/ conn' = conn /\ trouble' = trouble
      /\ \/ /\ alive' = TRUE /\ activeNetwork' = job.net /\ phase[job.net] # "gone"
            /\ echo' = "recent" /\ reply' = "recent" /\ conn'.st = "ok"
         \/ alive' = FALSE /\ UNCHANGED <<activeNetwork, echo, reply>>
  <2>1. CASE ~CanStart
    BY <2>1, <1>3, Facts DEF StartEnds
  <2>2. CASE CanStart
    <3>1. conn' = Connected(job.net) /\ trouble' = Reported(prepared)
      BY <2>2 DEF StartEnds
    <3>2. phase[job.net] # "gone"
      BY <2>2 DEF CanStart
    <3>3. conn' \in Conns /\ conn'.st = "ok" /\ conn'.path = prepared.path
      BY <1>3, <3>1, ConnectedIs
    <3>4. \/ alive' = TRUE /\ activeNetwork' = job.net /\ echo' = "recent" /\ reply' = "recent"
          \/ UNCHANGED <<alive, activeNetwork, echo, reply>>
      BY <2>2 DEF StartEnds
    <3>5. alive = FALSE
      BY <1>3, Facts
    <3> QED BY <3>1, <3>2, <3>3, <3>4, <3>5
  <2> QED BY <2>1, <2>2
<1>5. /\ job'.at = "idle" /\ job'.net = NoNet /\ job' \in Jobs /\ NoNet \notin Handle
      /\ Handle \subseteq Maybe
  BY <1>1, Basics
<1>6. SocketsApart'
  BY <1>1, <1>4, SocketTaken
<1>7. VpnTypeOK'
  <2>1. {alive, reconnectRequired, awgPingSeen}' \subseteq BOOLEAN
    BY <1>1, <1>4, Facts
  <2>2. alive' <=> activeNetwork' # NoNet
    BY <1>3, <1>4, <1>5, Facts
  <2>3. {activeNetwork, failedNetwork, preparedNetwork}' \subseteq Maybe
    BY <1>1, <1>3, <1>4, <1>5, Facts
  <2>4. echo' \in {"recent", "stalled"} /\ reply' \in {"recent", "old", "overdue"}
    BY <1>4 DEF VpnIInv, VpnTypeOK
  <2>5. {prepared, parked}' \subseteq Sockets
    BY <1>6 DEF SocketsApart
  <2> QED BY <1>1, <1>2, <1>3, <1>4, <1>5, <2>1, <2>2, <2>3, <2>4, <2>5
          DEF VpnIInv, VpnTypeOK, Conns, Sockets
<1>8. VpnShapes'
  <2>1. trouble' \in BOOLEAN
    BY <1>4, ReportedIs, Facts
  <2> QED BY <1>1, <1>2, <1>5, <2>1, Facts DEF VpnShapes
<1>9. JobsAreSound'
  BY <1>5 DEF JobsAreSound
<1>10. LossesAreOrdered'
  BY <1>1, <1>2, <1>4, <1>5 DEF VpnIInv, LossesAreOrdered
<1>11. SignsHaveReasons'
  <2>2. conn'.st # "none" /\ conn'.path \in Complaints(queue') => trouble' \/ broken'
    BY <1>1, <1>2, <1>4, ReportedIs DEF VpnIInv, SignsHaveReasons
  <2>3. (alive' /\ echo' = "stalled" => trouble') /\ (reply' = "overdue" => broken')
    BY <1>1, <1>2, <1>4 DEF VpnIInv, SignsHaveReasons
  <2>4. ~reconnectRequired' /\ failedNetwork' = NoNet
    BY <1>1, <1>3
  <2>5. alive' => IsConnected'
    BY <1>4 DEF IsConnected
  <2> QED BY <2>2, <2>3, <2>4, <2>5 DEF SignsHaveReasons, TroubleIsReal
<1>12. KeepsConnection
  BY <1>3 DEF KeepsConnection
<1> QED BY <1>7, <1>8, <1>9, <1>10, <1>11, <1>12, <1>6 DEF VpnIInv

LEMMA PenalizedIs ==
  ASSUME NEW n \in Maybe, NEW r \in [Handle -> 0..2] PROVE Penalized(n, r) \in [Handle -> 0..2]
  BY DEF Penalized, Maybe

\* The switch has succeeded: the session starts afresh on the new path.
LEMMA SwitchedKeeps == ASSUME VpnIInv, Switched PROVE VpnIInv' /\ KeepsConnection
<1>1. /\ job.at = "switching" /\ (CanSwitch \/ WarmSwitch)
      /\ reconnectRequired' = FALSE /\ echo' = "recent"
      /\ reply' = (IF reconnectRequired THEN "recent" ELSE reply)
      /\ activeNetwork' = job.net /\ failedNetwork' = NoNet /\ preparedNetwork' = NoNet
      /\ job' = Idle
      /\ prepared' = NoSocket /\ parked' = parked
      /\ trouble' = Reported(prepared) /\ broken' = ((broken /\ ~job.fresh) \/ reply' = "overdue")
      /\ UNCHANGED <<world, networks, queue, alive, epoch, awgPingSeen>>
  BY DEF Switched
<1>2. UNCHANGED <<transport, phase, user, faults>>
  BY <1>1 DEF world
<1>3. job.net \in Handle /\ alive /\ job.net \in Maybe /\ job.net # NoNet
  BY <1>1, Facts, Basics DEF VpnIInv, JobsAreSound
<1>4. /\ conn' \in Conns /\ conn'.path = prepared.path
      /\ transport # "awg" => conn'.st \in {"ok", "zombie"}
      /\ IsConnected => conn'.st # "none"
  <2>1. CASE job.fresh
    <3>1. conn' = Connected(job.net)
      BY <2>1 DEF Switched
    <3> QED BY <1>3, <3>1, ConnectedIs
  <2>2. CASE ~job.fresh
    <3>1. conn' = [conn EXCEPT !.net = job.net, !.path = prepared.path]
      BY <2>2 DEF Switched
    <3>2. conn \in Conns /\ prepared.path \in Paths
      BY <1>3, Facts, ConnectedIs
    <3>3. conn' \in Conns /\ conn'.st = conn.st /\ conn'.path = prepared.path
      <4> DEFINE c == conn
                 n == job.net
                 p == prepared.path
                 d == conn'
      <4>1. c \in Conns /\ n \in Maybe /\ p \in Paths
        BY <1>3, <3>2
      <4>2. d = [c EXCEPT !.net = n, !.path = p]
        BY <3>1
      <4> HIDE DEF c, n, p, d
      <4>3. d \in Conns /\ d.st = c.st /\ d.path = p
        BY <4>1, <4>2 DEF Conns
      <4> QED BY <4>3 DEF c, p, d
    <3>4. transport # "awg" => conn.st \in {"ok", "zombie"}
      BY <1>1, <2>2 DEF CanSwitch, WarmSwitch, IsConnected
    <3> QED BY <3>2, <3>3, <3>4 DEF IsConnected
  <2> QED BY <2>1, <2>2
<1>5. phase[job.net] = "gone" => job.net \in About("lost", queue)
  BY <1>3 DEF VpnIInv, LossesAreOrdered
<1>6. retryAt' \in [Handle -> 0..2]
  <2>1. retryAt' = Penalized(activeNetwork, retryAt) \/ retryAt' = retryAt
    BY DEF Switched
  <2> QED BY <2>1, PenalizedIs, Facts
<1>7. job'.at = "idle" /\ job'.net = NoNet /\ job' \in Jobs /\ NoNet \notin Handle /\ NoNet \in Maybe
  BY <1>1, Basics
<1>8. reply' \in {"recent", "old", "overdue"} /\ broken' \in BOOLEAN /\ trouble' \in BOOLEAN
  <2>1. trouble' \in BOOLEAN
    BY <1>1, ReportedIs
  <2> QED BY <1>1, <2>1, Facts DEF VpnIInv, VpnTypeOK
<1>9. SocketsApart'
  BY <1>1, <1>4, SocketTaken
<1>10. VpnTypeOK'
  <2>1. {alive, reconnectRequired, awgPingSeen}' \subseteq BOOLEAN
    BY <1>1, Facts
  <2>2. {activeNetwork, failedNetwork, preparedNetwork}' \subseteq Maybe
    BY <1>1, <1>3, <1>7
  <2>3. (alive' <=> activeNetwork' # NoNet) /\ (failedNetwork' # NoNet => alive')
    BY <1>1, <1>3
  <2>4. /\ networks' = networks /\ queue' = queue /\ echo' = "recent"
    BY <1>1
  <2>5. {prepared, parked}' \subseteq Sockets
    BY <1>9 DEF SocketsApart
  <2> QED BY <1>2, <1>4, <1>6, <1>7, <1>8, <2>1, <2>2, <2>3, <2>4, <2>5
          DEF VpnIInv, VpnTypeOK, Conns, Sockets
<1>11. VpnShapes'
  BY <1>1, <1>7, <1>8, Facts DEF VpnShapes
<1>12. JobsAreSound'
  BY <1>7 DEF JobsAreSound
<1>13. LossesAreOrdered'
  <2>1. UNCHANGED <<networks, queue, phase>> /\ \A n \in Handle : n # preparedNetwork' /\ n # job'.net
    BY <1>1, <1>2, <1>7
  <2> QED BY <1>1, <1>5, <2>1 DEF VpnIInv, LossesAreOrdered
<1>14. SignsHaveReasons'
  <2>2. conn'.path \in Complaints(queue') => trouble'
    BY <1>1, <1>4, ReportedIs
  <2>3. echo' # "stalled" /\ (reply' = "overdue" => broken')
    BY <1>1
  <2>4. ~reconnectRequired' /\ failedNetwork' = NoNet
    BY <1>1
  <2>5. transport' # "awg" => IsConnected'
    BY <1>2, <1>4 DEF IsConnected
  <2> QED BY <2>2, <2>3, <2>4, <2>5 DEF SignsHaveReasons, TroubleIsReal
<1>15. KeepsConnection
  BY <1>4 DEF KeepsConnection
<1> QED BY <1>10, <1>11, <1>12, <1>13, <1>14, <1>15, <1>9 DEF VpnIInv

LEMMA SwitchFailsKeeps == ASSUME VpnIInv, SwitchFails PROVE VpnIInv' /\ KeepsConnection
<1>1. /\ job.at = "switching" /\ job' = After(job.tail)
      /\ trouble' = TRUE /\ broken' = (broken \/ ~IsConnected)
      /\ UNCHANGED <<world, networks, queue, alive, epoch, activeNetwork, reconnectRequired, timing>>
      /\ parked' = parked
  BY DEF SwitchFails
<1>2. job.net \in Handle /\ alive /\ job.tail \in BOOLEAN /\ job.net \in Maybe
  BY <1>1, Facts, Basics DEF VpnIInv, JobsAreSound, Jobs
<1>3. conn' \in Conns /\ conn'.st = conn.st /\ conn'.path = conn.path
  <2>1. conn' = [conn EXCEPT !.net = NoNet] \/ conn' = conn
    BY DEF SwitchFails
  <2>2. conn \in Conns
    BY Facts
  <2> QED BY <2>1, <2>2, ConnLeaves
<1>4. MovesOn(queue, FALSE)
  <2>1. /\ job' \in Jobs /\ job'.at \in {"idle", "standby"} /\ job'.net = NoNet
    BY <1>1, <1>2, AfterIs
  <2>2. queue' = queue /\ Len(queue) <= MaxQueue /\ NoNet \notin Handle
    BY <1>1, Facts, Basics
  <2>3. SocketsApart'
    <3>1. prepared' \in {NoSocket, Unchecked(prepared), prepared}
      BY DEF SwitchFails
    <3>2. prepared \in Sockets /\ parked \in Sockets
      BY DEF VpnIInv, SocketsApart
    <3>3. Kept(prepared', parked')
      BY <1>1, <3>1, <3>2, SocketIs, Basics DEF Kept
    <3> QED BY <1>3, <3>3, KeptApart
  <2> QED BY <1>2, <1>3, <2>1, <2>2, <2>3 DEF MovesOn
<1>5. failedNetwork' \in {activeNetwork, failedNetwork} /\ failedNetwork' \in Maybe
  BY Facts DEF SwitchFails
<1>6. preparedNetwork' \in {preparedNetwork, NoNet}
  BY DEF SwitchFails
<1>7. retryAt' \in [Handle -> 0..2]
  <2>1. retryAt' = Penalized(job.net, retryAt) \/ retryAt' = retryAt
    BY DEF SwitchFails
  <2> QED BY <1>2, <2>1, PenalizedIs, Facts
<1>8. NetworksFit(queue)
  <2>1. networks' = networks /\ preparedNetwork' \in Maybe
    BY <1>1, <1>6, Facts, Basics
  <2>2. \A n \in Handle : n # NoNet
    BY Basics
  <2> QED BY <1>6, <2>1, <2>2, TypedNetworks, IsCalm DEF Calm, NetworksFit
<1>9. UNCHANGED steady
  BY <1>1 DEF steady
<1>10. alive /\ phase[activeNetwork] = "gone" /\ failedNetwork' = NoNet =>
         activeNetwork \in About("lost", queue)
  BY <1>5, IsCalm, Facts DEF Calm
<1>11. /\ trouble' \in BOOLEAN /\ broken' \in BOOLEAN /\ (trouble => trouble') /\ (broken => broken')
       /\ (~IsConnected => broken')
  BY <1>1, Facts
<1>12. /\ reconnectRequired' \in BOOLEAN
       /\ alive /\ reconnectRequired' => broken'
  BY <1>1, <1>11, Facts DEF VpnIInv, SignsHaveReasons
<1> QED BY <1>1, <1>2, <1>4, <1>5, <1>7, <1>8, <1>9, <1>10, <1>11, <1>12, SessionKeeps

-----------------------------------------------------------------------------
(* The worker's tick and the probe of the reserve.                         *)

LEMMA TickKeeps == ASSUME VpnIInv, NEW early \in BOOLEAN, Tick(early) PROVE VpnIInv' /\ KeepsConnection
<1>1. /\ job.at = "idle" /\ alive
      /\ UNCHANGED steady /\ UNCHANGED <<networks, preparedNetwork, history>>
  BY DEF Tick
<1>2. /\ Calm(queue) /\ retryAt \in [Handle -> 0..2] /\ reconnectRequired \in BOOLEAN
      /\ trouble' \in BOOLEAN /\ (trouble => trouble') /\ UNCHANGED broken
  BY <1>1, IsCalm, Facts DEF history
<1>3. alive /\ reconnectRequired => broken
  BY DEF VpnIInv, SignsHaveReasons
<1>4. CASE Down
  <2>1. RecoverAt(early, activeNetwork, TRUE, retryAt, queue, prepared, parked, FALSE)
    BY <1>4 DEF Tick
  <2>2. broken
    BY <1>1, <1>4 DEF VpnIInv, SignsHaveReasons, Down
  <2> QED BY <1>1, <1>2, <2>1, <2>2, KeptIs, RecoverInPlace
<1>5. CASE ~Down
  <2>1. PICK failed \in {failedNetwork} \cup (IF Answered THEN {NoNet} ELSE {}) :
          IF Stalled \/ failed # NoNet
          THEN RecoverAt(early, failed, reconnectRequired, retryAt, queue, prepared, parked, TRUE)
          ELSE /\ failedNetwork' = failed /\ job' = After(TRUE)
               /\ UNCHANGED <<queue, reconnectRequired, retryAt, conn, sockets>>
    BY <1>5 DEF Tick
  <2>2. failed = failedNetwork \/ (failed = NoNet /\ Answered)
    BY <2>1
  <2>3. CASE Stalled \/ failed # NoNet
    <3>1. RecoverAt(early, failed, reconnectRequired, retryAt, queue, prepared, parked, TRUE)
      BY <2>1, <2>3
    <3>2. failed = failedNetwork
      BY <2>2, <2>3 DEF Stalled, Answered
    <3>3. ~alive \/ trouble' \/ broken \/ phase[activeNetwork] = "gone"
      BY <1>1, <1>2, <2>3, <3>2 DEF VpnIInv, SignsHaveReasons, TroubleIsReal, Stalled
    <3>4. RecoverAt(early, failedNetwork, reconnectRequired, retryAt, queue, prepared, parked, TRUE)
      BY <3>1, <3>2
    <3> QED BY <1>1, <1>2, <1>3, <3>3, <3>4, KeptIs, RecoverInPlace
  <2>4. CASE ~(Stalled \/ failed # NoNet)
    <3>1. /\ failedNetwork' = NoNet /\ job' = After(TRUE)
          /\ UNCHANGED <<queue, reconnectRequired, retryAt, conn>>
          /\ prepared' = prepared /\ parked' = parked
      BY <2>1, <2>4 DEF sockets
    <3>2. MovesOn(queue, FALSE)
      BY <1>1, <3>1, KeptIs, RestsIs, Facts
    <3>3. NetworksFit(queue)
      <4>1. networks' = networks /\ preparedNetwork' = preparedNetwork /\ preparedNetwork \in Maybe
        BY <1>1, Facts
      <4> QED BY <4>1, <1>2, TypedNetworks DEF Calm, NetworksFit
    <3>4. phase[activeNetwork] = "gone" => activeNetwork \in About("lost", queue)
      <4>1. activeNetwork \in Handle
        BY <1>1, Facts DEF Maybe
      <4>2. CASE failedNetwork = NoNet
        BY <1>1, <1>2, <4>2 DEF Calm
      <4>3. CASE failedNetwork # NoNet
        <5>1. \E k \in Kind : networks[k] = activeNetwork
          BY <2>2, <2>4, <4>3 DEF Answered
        <5> QED BY <1>2, <4>1, <5>1 DEF Calm
      <4> QED BY <4>2, <4>3
    <3>5. retryAt' \in [Handle -> 0..2] /\ UNCHANGED <<reconnectRequired, history>>
      BY <1>1, <1>2, <3>1
    <3> QED BY <1>1, <3>1, <3>2, <3>3, <3>4, <3>5, QuietKeeps
  <2> QED BY <2>3, <2>4
<1> QED BY <1>4, <1>5

\* The probe ends without a switch.
LEMMA StandbyEndsKeeps ==
  ASSUME VpnIInv, job.at \in {"standby", "probing"}, job' = Idle, UNCHANGED steady,
         UNCHANGED <<networks, queue, conn, failedNetwork, reconnectRequired, history>>,
         Kept(prepared', parked'),
         retryAt' \in [Handle -> 0..2], preparedNetwork' \in Maybe,
         \/ preparedNetwork' \in {preparedNetwork, NoNet}
         \/ phase[preparedNetwork'] # "gone"
  PROVE  VpnIInv' /\ KeepsConnection
<1>1. MovesOn(queue, FALSE)
  <2>1. job' = After(FALSE) /\ queue' = queue /\ conn' = conn /\ Len(queue) <= MaxQueue
    BY IdleIs, Facts
  <2> QED BY <2>1, RestsIs
<1>2. NetworksFit(queue)
  BY TypedNetworks, IsCalm, Basics DEF Calm, NetworksFit
<1>3. alive /\ phase[activeNetwork] = "gone" /\ failedNetwork' = NoNet =>
        activeNetwork \in About("lost", queue)
  BY IsCalm DEF Calm
<1> QED BY <1>1, <1>2, <1>3, QuietKeeps

LEMMA StandbySkippedKeeps == ASSUME VpnIInv, StandbySkipped PROVE VpnIInv' /\ KeepsConnection
<1>1. /\ job.at = "standby" /\ job' = Idle
      /\ UNCHANGED <<world, networks, queue, alive, epoch, choice, reconnectRequired, retryAt,
                     timing, conn, history>>
      /\ prepared' = prepared /\ parked' = parked
  BY DEF StandbySkipped, sockets
<1>2. UNCHANGED steady /\ failedNetwork' = failedNetwork /\ preparedNetwork' = preparedNetwork
  BY <1>1 DEF steady, choice
<1>3. retryAt' \in [Handle -> 0..2] /\ preparedNetwork' \in Maybe
  BY <1>1, <1>2, Facts
<1> QED BY <1>1, <1>2, <1>3, KeptIs, StandbyEndsKeeps

LEMMA ReserveIs ==
  ASSUME VpnIInv, NEW n \in Reserve
  PROVE  n \in Handle /\ n \in Maybe /\ retryAt[n] = 0
         /\ n \in {networks[k] : k \in Kind} \ {NoNet, activeNetwork}
  BY Facts DEF Reserve, Maybe

LEMMA StandbyBeginsKeeps ==
  ASSUME VpnIInv, NEW n \in Reserve, StandbyBegins(n) PROVE VpnIInv' /\ KeepsConnection
<1>1. /\ job.at = "standby" /\ job' = [Idle EXCEPT !.at = "probing", !.net = n]
      /\ Prepare(n, prepared, parked, queue)
      /\ UNCHANGED <<world, networks, queue, alive, epoch, choice, reconnectRequired, retryAt,
                     timing, conn, history>>
  BY DEF StandbyBegins
<1>2. UNCHANGED steady /\ failedNetwork' = failedNetwork /\ preparedNetwork' = preparedNetwork
      /\ activeNetwork' = activeNetwork
  BY <1>1 DEF steady, choice
<1>3. n \in Handle /\ \E k \in Kind : networks[k] = n
  BY ReserveIs
<1>4. MovesOn(queue, FALSE)
  <2>1. job' \in Jobs /\ job'.at = "probing" /\ job'.net = n
    BY <1>1, <1>3, ProbingIs
  <2>2. Len(queue) <= MaxQueue /\ Len(queue) \in Nat /\ conn \in Conns /\ alive
    BY <1>1, Facts DEF VpnIInv, JobsAreSound
  <2>3. n \in Reserve'
    BY <1>1, <1>2 DEF Reserve
  <2>4. SocketsApart'
    BY <1>1, <1>3, <2>2, KeptIs, PrepareIs
  <2>5. phase[n] = "gone" => n \in About("lost", queue)
    BY <1>3, IsCalm DEF Calm
  <2> QED BY <1>1, <1>3, <2>1, <2>2, <2>3, <2>4, <2>5 DEF MovesOn
<1>5. NetworksFit(queue)
  <2>1. preparedNetwork \in Maybe
    BY Facts
  <2> QED BY <1>1, <1>2, <2>1, TypedNetworks, IsCalm DEF Calm, NetworksFit
<1>6. alive /\ phase[activeNetwork] = "gone" /\ failedNetwork' = NoNet =>
        activeNetwork \in About("lost", queue)
  BY <1>2, IsCalm DEF Calm
<1>7. retryAt' \in [Handle -> 0..2]
  BY <1>1, Facts
<1> QED BY <1>1, <1>2, <1>4, <1>5, <1>6, <1>7, QuietKeeps

LEMMA StandbyFailsKeeps == ASSUME VpnIInv, StandbyFails PROVE VpnIInv' /\ KeepsConnection
<1>1. /\ job.at = "probing" /\ job' = Idle
      /\ preparedNetwork' = NoNet /\ retryAt' = Penalized(job.net, retryAt)
      /\ UNCHANGED <<world, networks, queue, alive, epoch, activeNetwork, failedNetwork,
                     reconnectRequired, timing, conn, history>>
      /\ prepared' \in {prepared, Unchecked(prepared)} /\ parked' = parked
  BY DEF StandbyFails
<1>2. UNCHANGED steady
  BY <1>1 DEF steady
<1>3. retryAt' \in [Handle -> 0..2] /\ preparedNetwork' \in Maybe
  BY <1>1, Facts, Basics, PenalizedIs
<1>4. Kept(prepared', parked')
  <2>1. prepared \in Sockets /\ parked \in Sockets
    BY DEF VpnIInv, SocketsApart
  <2> QED BY <1>1, <2>1, SocketIs DEF Kept
<1> QED BY <1>1, <1>2, <1>3, <1>4, StandbyEndsKeeps

LEMMA StandbyReadyKeeps == ASSUME VpnIInv, StandbyReady PROVE VpnIInv' /\ KeepsConnection
<1> DEFINE n == job.net
           p == IF prepared.net = n THEN [prepared EXCEPT !.checked = TRUE] ELSE prepared
<1>1. /\ job.at = "probing" /\ preparedNetwork' = n /\ phase[n] = "up"
      /\ UNCHANGED steady /\ UNCHANGED <<networks, history>>
  BY DEF StandbyReady, CanPrepare
<1>2. /\ n \in Handle /\ n \in Maybe /\ retryAt[n] = 0
      /\ n \in {networks[k] : k \in Kind} \ {NoNet, activeNetwork}
  <2>1. n \in Reserve
    BY <1>1 DEF VpnIInv, JobsAreSound
  <2> HIDE DEF n
  <2> QED BY <2>1, ReserveIs
<1>3. /\ Calm(queue) /\ retryAt \in [Handle -> 0..2] /\ reconnectRequired \in BOOLEAN /\ alive
      /\ trouble' \in BOOLEAN /\ (trouble => trouble') /\ broken' = broken
      /\ failedNetwork \in Maybe /\ networks \in [Kind -> Maybe]
  BY <1>1, IsCalm, Facts DEF history, VpnIInv, JobsAreSound
<1>4. Kept(p, parked)
  <2>1. prepared \in Sockets /\ parked \in Sockets
    BY DEF VpnIInv, SocketsApart
  <2>2. p \in Sockets /\ p.path = prepared.path
    BY <2>1, SocketIs
  <2> QED BY <2>1, <2>2 DEF Kept
<1>5. \/ /\ job' = Idle /\ prepared' = p
         /\ UNCHANGED <<queue, conn, parked, failedNetwork, reconnectRequired, retryAt>>
      \/ /\ Begin(n, "prefer", FALSE, reconnectRequired, queue, p, parked)
         /\ UNCHANGED <<failedNetwork, reconnectRequired, retryAt>>
      \/ Recover(failedNetwork, reconnectRequired, retryAt, queue, p, parked, FALSE)
  BY DEF StandbyReady
<1> HIDE DEF n, p
<1>6. CASE /\ job' = Idle /\ prepared' = p
           /\ UNCHANGED <<queue, conn, parked, failedNetwork, reconnectRequired, retryAt>>
  BY <1>1, <1>2, <1>3, <1>4, <1>6, StandbyEndsKeeps
<1>7. CASE /\ Begin(n, "prefer", FALSE, reconnectRequired, queue, p, parked)
           /\ UNCHANGED <<failedNetwork, reconnectRequired, retryAt>>
  BY <1>1, <1>2, <1>3, <1>4, <1>7, BeginKeeps
<1>8. CASE Recover(failedNetwork, reconnectRequired, retryAt, queue, p, parked, FALSE)
  <2>1. PICK early \in BOOLEAN :
          RecoverAt(early, failedNetwork, reconnectRequired, retryAt, queue, p, parked, FALSE)
    BY <1>8 DEF Recover
  <2>2. Candidates(networks', failedNetwork, reconnectRequired, retryAt) # {}
    <3>1. Candidates(networks, failedNetwork, reconnectRequired, retryAt) # {}
      BY <1>2, <1>3, CandidatesExist
    <3> QED BY <3>1, <1>1 DEF Candidates
  <2>3. NetworksFit(queue)
    BY <1>1, <1>2, <1>3, TypedNetworks DEF Calm, NetworksFit
  <2>4. /\ alive /\ reconnectRequired => broken
        /\ failedNetwork # NoNet => trouble' \/ broken \/ phase[activeNetwork] = "gone"
        /\ alive /\ phase[activeNetwork] = "gone" /\ failedNetwork = NoNet =>
             activeNetwork \in About("lost", queue)
    BY <1>3 DEF VpnIInv, SignsHaveReasons, TroubleIsReal, Calm
  <2>5. job.at \in {"idle", "standby", "probing"} /\ (failedNetwork # NoNet => alive)
    BY <1>1, <1>3
  <2> QED BY <1>1, <1>3, <1>4, <2>1, <2>2, <2>3, <2>4, <2>5, RecoverKeeps
<1> QED BY <1>5, <1>6, <1>7, <1>8

LEMMA PreferWifiKeeps ==
  ASSUME VpnIInv, NEW n \in Reserve, PreferWifi(n) PROVE VpnIInv' /\ KeepsConnection
<1>1. /\ job.at = "standby" /\ Begin(n, "prefer", FALSE, reconnectRequired, queue, prepared, parked)
      /\ UNCHANGED steady
      /\ UNCHANGED <<networks, preparedNetwork, history, failedNetwork, reconnectRequired, retryAt>>
  BY DEF PreferWifi
<1>2. Calm(queue) /\ alive
  BY <1>1, IsCalm DEF VpnIInv, JobsAreSound
<1>3. n \in Handle /\ (phase[n] = "gone" => n \in About("lost", queue))
  BY <1>2, ReserveIs DEF Calm
<1> QED BY <1>1, <1>2, <1>3, KeptIs, BeginKeeps

-----------------------------------------------------------------------------
(* The transport, Android, the user and time.                              *)

LEMMA WorldFacts ==
  ASSUME VpnIInv
  PROVE  /\ user \in 0..MaxUser /\ faults \in 0..MaxFaults
         /\ MaxUser \in Nat /\ MaxFaults \in Nat
         /\ echo \in {"recent", "stalled"} /\ reply \in {"recent", "old", "overdue"}
         /\ alive /\ echo = "stalled" => trouble
         /\ reply = "overdue" => broken
         /\ conn.st # "none" /\ conn.path \in Complaints(queue) => trouble \/ broken
         /\ Ordered(queue)
         /\ About("lost", queue) \subseteq {n \in Handle : phase[n] = "gone"}
  BY VpnBounds DEF VpnIInv, VpnTypeOK, SignsHaveReasons, LossesAreOrdered

\* What happens to the networks, the clocks and the transport; gone are the
\* networks that Android now reports as lost.
WorldTurns(gone) ==
  /\ UNCHANGED <<transport, networks, job, alive, epoch, choice, reconnectRequired, sockets>>
  /\ phase' \in [Handle -> {"unused", "up", "bad", "gone"}]
  /\ \A n \in Handle : phase'[n] = "gone" <=> phase[n] = "gone" \/ n \in gone
  /\ user' \in 0..MaxUser /\ faults' \in 0..MaxFaults /\ retryAt' \in [Handle -> 0..2]
  /\ \A n \in Handle : retryAt[n] = 0 => retryAt'[n] = 0
  /\ echo' \in {"recent", "stalled"} /\ reply' \in {"recent", "old", "overdue"}
  /\ awgPingSeen' \in BOOLEAN
  /\ conn' \in Conns /\ conn'.path = conn.path /\ (conn'.st = "none" <=> conn.st = "none")
  /\ trouble' \in BOOLEAN /\ broken' \in BOOLEAN /\ (trouble => trouble') /\ (broken => broken')
  /\ IsConnected => IsConnected' \/ broken'
  /\ alive /\ echo' = "stalled" => trouble'
  /\ reply' = "overdue" => broken'

\* Nobody tells the session.
LEMMA UnheardKeeps ==
  ASSUME VpnIInv, WorldTurns({}), queue' = queue
  PROVE  VpnIInv' /\ KeepsConnection
<1>1. queue' \in Seq(Tasks) /\ Len(queue') <= MaxQueue
  BY Facts
<1>2. /\ Ordered(queue') /\ About("lost", queue) \subseteq About("lost", queue')
      /\ \A n \in About("lost", queue') : phase'[n] = "gone"
      /\ \A n \in About("available", queue') : n \in About("available", queue)
      /\ conn.st # "none" /\ conn.path \in Complaints(queue') => trouble' \/ broken'
  BY WorldFacts DEF WorldTurns
<1> QED BY <1>1, <1>2, OutsideKeeps DEF WorldTurns

\* The session is told, in the order in which things happen.
LEMMA ToldKeeps ==
  ASSUME VpnIInv, NEW t \in Tasks, Tell(t),
         WorldTurns(IF t.what = "lost" THEN {t.net} ELSE {}),
         t.what = "available" => phase'[t.net] # "gone",
         (t.what = "path" /\ t.path = conn.path) => trouble'
  PROVE  VpnIInv' /\ KeepsConnection
<1>1. /\ queue \in Seq(Tasks) /\ Len(queue) \in Nat /\ MaxQueue \in Nat
      /\ queue' = Append(queue, t) /\ Len(queue) < MaxQueue
      /\ t.what \in {"available", "lost"} => t.net \in Handle
  BY Facts, Basics DEF Tell, Tasks
<1>2. /\ queue' \in Seq(Tasks) /\ Len(queue') = Len(queue) + 1
      /\ \A w : /\ About(w, queue) \subseteq About(w, queue')
                /\ t.what # w => About(w, queue') = About(w, queue)
                /\ t.what = w /\ t.net \in Handle => About(w, queue') = About(w, queue) \cup {t.net}
      /\ t.what # "path" => Complaints(queue') = Complaints(queue)
      /\ t.what = "path" => Complaints(queue') = Complaints(queue) \cup {t.path}
      /\ Ordered(queue) /\ (t.what = "available" => t.net \notin About("lost", queue)) =>
           Ordered(queue')
  BY <1>1, AppendOf
<1>3. Len(queue') <= MaxQueue
  BY <1>1, <1>2
<1>4. \A n \in Handle : phase'[n] = "gone" <=> phase[n] = "gone" \/ (t.what = "lost" /\ n = t.net)
  BY DEF WorldTurns
<1>5. Ordered(queue')
  BY <1>1, <1>2, <1>4, WorldFacts
<1>6. /\ \A n \in About("lost", queue') : phase'[n] = "gone"
      /\ \A n \in Handle : phase'[n] = "gone" /\ n \notin About("lost", queue') => phase[n] = "gone"
      /\ \A n \in About("available", queue') : n \in About("available", queue) \/ phase'[n] # "gone"
  BY <1>1, <1>2, <1>4, WorldFacts
<1>7. conn.st # "none" /\ conn.path \in Complaints(queue') => trouble' \/ broken'
  BY <1>2, WorldFacts DEF WorldTurns
<1>8. \A n \in Handle : phase[n] = "gone" => phase'[n] = "gone"
  BY <1>4
<1> QED BY <1>2, <1>3, <1>5, <1>6, <1>7, <1>8, OutsideKeeps DEF WorldTurns

\* Nothing but what the step names changes.
LEMMA SameWorld ==
  ASSUME VpnIInv
  PROVE  /\ phase \in [Handle -> {"unused", "up", "bad", "gone"}]
         /\ user \in 0..MaxUser /\ faults \in 0..MaxFaults /\ retryAt \in [Handle -> 0..2]
         /\ echo \in {"recent", "stalled"} /\ reply \in {"recent", "old", "overdue"}
         /\ awgPingSeen \in BOOLEAN /\ conn \in Conns
         /\ trouble \in BOOLEAN /\ broken \in BOOLEAN
         /\ alive /\ echo = "stalled" => trouble
         /\ reply = "overdue" => broken
  BY Facts, WorldFacts

LEMMA StutterKeeps == ASSUME VpnIInv, UNCHANGED vars PROVE VpnIInv' /\ KeepsConnection
<1>1. /\ UNCHANGED <<transport, networks, job, alive, epoch, choice, reconnectRequired, sockets>>
      /\ UNCHANGED <<phase, user, faults, retryAt, echo, reply, awgPingSeen, conn, trouble, broken>>
      /\ queue' = queue
  BY DEF vars, world, timing, history
<1>2. WorldTurns({})
  BY <1>1, SameWorld DEF WorldTurns, IsConnected
<1> QED BY <1>1, <1>2, UnheardKeeps

LEMMA EchoKeeps == ASSUME VpnIInv, Echo PROVE VpnIInv' /\ KeepsConnection
<1>1. /\ UNCHANGED <<transport, networks, job, alive, epoch, choice, reconnectRequired, sockets>>
      /\ UNCHANGED <<phase, user, faults, retryAt, trouble, broken>>
      /\ queue' = queue /\ echo' = "recent" /\ reply' = "recent"
      /\ awgPingSeen' = (transport = "awg")
      /\ conn' = conn
  BY DEF Echo, rest, history
<1>2. awgPingSeen' \in BOOLEAN
  BY <1>1
<1>3. WorldTurns({})
  BY <1>1, <1>2, SameWorld DEF WorldTurns, IsConnected
<1> QED BY <1>1, <1>3, UnheardKeeps

LEMMA SilenceKeeps == ASSUME VpnIInv, Silence PROVE VpnIInv' /\ KeepsConnection
<1>1. /\ UNCHANGED <<transport, networks, job, alive, epoch, choice, reconnectRequired, sockets>>
      /\ UNCHANGED <<phase, user, faults, retryAt, awgPingSeen, conn, broken>>
      /\ queue' = queue /\ echo' = "stalled" /\ trouble' = TRUE
      /\ reply' = (IF reply = "recent" THEN "old" ELSE reply)
  BY DEF Silence, rest
<1>2. reply' \in {"recent", "old", "overdue"} /\ (reply' = "overdue" => reply = "overdue")
  BY <1>1, SameWorld
<1>3. WorldTurns({})
  BY <1>1, <1>2, SameWorld DEF WorldTurns, IsConnected
<1> QED BY <1>1, <1>3, UnheardKeeps

LEMMA OverdueKeeps == ASSUME VpnIInv, Overdue PROVE VpnIInv' /\ KeepsConnection
<1>1. /\ UNCHANGED <<transport, networks, job, alive, epoch, choice, reconnectRequired, sockets>>
      /\ UNCHANGED <<phase, user, faults, retryAt, echo, awgPingSeen, conn, trouble>>
      /\ queue' = queue /\ reply' = "overdue" /\ broken' = TRUE
  BY DEF Overdue, rest
<1>2. WorldTurns({})
  BY <1>1, SameWorld DEF WorldTurns, IsConnected
<1> QED BY <1>1, <1>2, UnheardKeeps

LEMMA ExpireKeeps ==
  ASSUME VpnIInv, NEW n \in Handle, Expire(n) PROVE VpnIInv' /\ KeepsConnection
<1>1. /\ UNCHANGED <<transport, networks, job, alive, epoch, choice, reconnectRequired, sockets>>
      /\ UNCHANGED <<phase, user, faults, echo, reply, awgPingSeen, conn, trouble, broken>>
      /\ queue' = queue /\ retryAt' = [retryAt EXCEPT ![n] = 0]
  BY DEF Expire, world, timing, history
<1>2. retryAt' \in [Handle -> 0..2] /\ \A m \in Handle : retryAt[m] = 0 => retryAt'[m] = 0
  BY <1>1, SameWorld
<1>3. WorldTurns({})
  BY <1>1, <1>2, SameWorld DEF WorldTurns, IsConnected
<1> QED BY <1>1, <1>3, UnheardKeeps

LEMMA ServerForgetsKeeps == ASSUME VpnIInv, ServerForgets PROVE VpnIInv' /\ KeepsConnection
<1>1. /\ UNCHANGED <<transport, networks, job, alive, epoch, choice, reconnectRequired, sockets>>
      /\ UNCHANGED <<phase, user, retryAt, echo, reply, awgPingSeen, trouble, broken>>
      /\ queue' = queue /\ conn.st = "ok" /\ conn' = [conn EXCEPT !.st = "zombie"]
      /\ faults < MaxFaults /\ faults' = faults + 1
  BY DEF ServerForgets, inside, timing, history
<1>2. conn' \in Conns /\ conn'.st = "zombie" /\ conn'.path = conn.path
  BY <1>1, ConnTurns, SameWorld
<1>3. faults' \in 0..MaxFaults
  BY <1>1, WorldFacts
<1>4. WorldTurns({})
  BY <1>1, <1>2, <1>3, SameWorld DEF WorldTurns, IsConnected
<1> QED BY <1>1, <1>4, UnheardKeeps

LEMMA QualityKeeps ==
  ASSUME VpnIInv, NEW n \in Handle, Degrade(n) \/ Repair(n) PROVE VpnIInv' /\ KeepsConnection
<1>1. /\ UNCHANGED <<transport, networks, job, alive, epoch, choice, reconnectRequired, sockets>>
      /\ UNCHANGED <<user, retryAt, echo, reply, awgPingSeen, conn, trouble, broken>>
      /\ queue' = queue /\ phase[n] \in {"up", "bad"}
      /\ phase' = [phase EXCEPT ![n] = "bad"] \/ phase' = [phase EXCEPT ![n] = "up"]
      /\ faults < MaxFaults /\ faults' = faults + 1
  BY DEF Degrade, Repair, inside, timing, history
<1>2. /\ phase' \in [Handle -> {"unused", "up", "bad", "gone"}]
      /\ \A m \in Handle : phase'[m] = "gone" <=> phase[m] = "gone"
  BY <1>1, SameWorld
<1>3. faults' \in 0..MaxFaults
  BY <1>1, WorldFacts
<1>4. WorldTurns({})
  BY <1>1, <1>2, <1>3, SameWorld DEF WorldTurns, IsConnected
<1> QED BY <1>1, <1>4, UnheardKeeps

\* A socket complains with its own address.
LEMMA ComplaintKeeps ==
  ASSUME VpnIInv, NEW s, s.path \in Paths,
         Complain(s), s.path = conn.path => trouble', trouble' \in BOOLEAN, trouble => trouble',
         UNCHANGED <<rest, faults, timing, conn, sockets, broken>>
  PROVE  VpnIInv' /\ KeepsConnection
<1>1. /\ UNCHANGED <<transport, networks, job, alive, epoch, choice, reconnectRequired, sockets>>
      /\ UNCHANGED <<phase, user, faults, retryAt, echo, reply, awgPingSeen, conn, broken>>
      /\ Tell(Task("path", NoNet, epoch, s.path))
  BY DEF rest, timing, Complain
<1> DEFINE t == Task("path", NoNet, epoch, s.path)
<1>2. t \in Tasks /\ t.what = "path" /\ t.path = s.path
  BY Facts, Basics, TaskIs
<1>3. Tell(t)
  BY <1>1
<1> HIDE DEF t
<1>4. WorldTurns({})
  BY <1>1, SameWorld DEF WorldTurns, IsConnected
<1>5. WorldTurns(IF t.what = "lost" THEN {t.net} ELSE {})
  BY <1>2, <1>4
<1>6. t.what # "available" /\ (t.path = conn.path => trouble')
  BY <1>1, <1>2
<1> QED BY <1>2, <1>3, <1>5, <1>6, ToldKeeps

LEMMA ReportKeeps == ASSUME VpnIInv, Report PROVE VpnIInv' /\ KeepsConnection
<1>1. /\ Complain(conn) /\ trouble' = TRUE
      /\ UNCHANGED <<rest, faults, timing, conn, sockets, broken>>
  BY DEF Report
<1>2. conn.path \in Paths
  BY Facts DEF Conns
<1> QED BY <1>1, <1>2, ComplaintKeeps

\* A report of a candidate, or of the socket of a dial, is not about the
\* transport in use.
LEMMA ReportOfCandidateKeeps ==
  ASSUME VpnIInv, ReportOfCandidate PROVE VpnIInv' /\ KeepsConnection
<1>1. UNCHANGED <<rest, faults, timing, conn, sockets, broken>> /\ trouble' = trouble
  BY DEF ReportOfCandidate, history
<1>2. trouble' \in BOOLEAN /\ (trouble => trouble')
  BY <1>1, Facts
<1>3. CASE Complain(prepared)
  <2>1. prepared.path \in Paths
    BY DEF VpnIInv, SocketsApart, Sockets
  <2>2. prepared.path # conn.path
    BY <1>3 DEF Complain, VpnIInv, SocketsApart, Apart
  <2> QED BY <1>1, <1>2, <1>3, <2>1, <2>2, ComplaintKeeps
<1>4. CASE Complain(parked)
  <2>1. parked.path \in Paths
    BY DEF VpnIInv, SocketsApart, Sockets
  <2>2. parked.path # conn.path
    BY <1>4 DEF Complain, VpnIInv, SocketsApart, Apart
  <2> QED BY <1>1, <1>2, <1>4, <2>1, <2>2, ComplaintKeeps
<1> QED BY <1>3, <1>4 DEF ReportOfCandidate

LEMMA DieKeeps == ASSUME VpnIInv, Die PROVE VpnIInv' /\ KeepsConnection
<1>1. /\ UNCHANGED <<transport, networks, job, alive, epoch, choice, reconnectRequired, sockets>>
      /\ UNCHANGED <<phase, user, retryAt, echo, reply, awgPingSeen, trouble>>
      /\ IsConnected /\ broken' = TRUE
      /\ faults' = (IF Served THEN faults + 1 ELSE faults) /\ faults' <= MaxFaults
      /\ Tell(Task("down", NoNet, epoch, NoPath))
      /\ conn' = [conn EXCEPT !.st = "dead"]
  BY DEF Die, rest
<1>2. conn' \in Conns /\ conn'.st = "dead" /\ conn'.path = conn.path /\ conn.st # "none"
  BY <1>1, ConnTurns, SameWorld DEF IsConnected
<1>3. faults' \in 0..MaxFaults
  BY <1>1, WorldFacts
<1> DEFINE t == Task("down", NoNet, epoch, NoPath)
<1>4. t \in Tasks /\ t.what = "down"
  BY Facts, Basics, TaskIs
<1>5. Tell(t)
  BY <1>1
<1> HIDE DEF t
<1>6. WorldTurns({})
  BY <1>1, <1>2, <1>3, SameWorld DEF WorldTurns, IsConnected
<1>7. WorldTurns(IF t.what = "lost" THEN {t.net} ELSE {})
  BY <1>4, <1>6
<1> QED BY <1>4, <1>5, <1>7, ToldKeeps

LEMMA UserKeeps == ASSUME VpnIInv, User PROVE VpnIInv' /\ KeepsConnection
<1>1. /\ UNCHANGED <<transport, networks, job, alive, epoch, choice, reconnectRequired, sockets>>
      /\ UNCHANGED <<phase, faults, retryAt, echo, reply, awgPingSeen, conn, trouble, broken>>
      /\ user < MaxUser /\ user' = user + 1
  BY DEF User, inside, timing, history
<1>2. PICK what \in {"wifi", "cellular", "stop"} : Tell(Task(what, NoNet, 0, NoPath))
  BY DEF User, Kind
<1>3. user' \in 0..MaxUser
  BY <1>1, WorldFacts
<1> DEFINE t == Task(what, NoNet, 0, NoPath)
<1>4. t \in Tasks /\ t.what \in {"wifi", "cellular", "stop"}
  BY Basics, TaskIs
<1>5. Tell(t)
  BY <1>2
<1> HIDE DEF t
<1>6. WorldTurns({})
  BY <1>1, <1>3, SameWorld DEF WorldTurns, IsConnected
<1>7. WorldTurns(IF t.what = "lost" THEN {t.net} ELSE {})
  BY <1>4, <1>6
<1> QED BY <1>4, <1>5, <1>7, ToldKeeps

LEMMA AppearKeeps ==
  ASSUME VpnIInv, NEW n \in Handle, Appear(n) PROVE VpnIInv' /\ KeepsConnection
<1>1. /\ UNCHANGED <<transport, networks, job, alive, epoch, choice, reconnectRequired, sockets>>
      /\ UNCHANGED <<user, faults, retryAt, echo, reply, awgPingSeen, conn, trouble, broken>>
      /\ phase[n] = "unused" /\ Tell(Task("available", n, 0, NoPath))
  BY DEF Appear, inside, timing, history
<1>2. PICK p \in {"up", "bad"} : phase' = [phase EXCEPT ![n] = p]
  BY DEF Appear
<1>3. /\ phase' \in [Handle -> {"unused", "up", "bad", "gone"}] /\ phase'[n] # "gone"
      /\ \A m \in Handle : phase'[m] = "gone" <=> phase[m] = "gone"
  BY <1>1, <1>2, SameWorld
<1> DEFINE t == Task("available", n, 0, NoPath)
<1>4. t \in Tasks /\ t.what = "available" /\ t.net = n
  BY Basics, TaskIs
<1>5. Tell(t)
  BY <1>1
<1> HIDE DEF t
<1>6. WorldTurns({})
  BY <1>1, <1>3, SameWorld DEF WorldTurns, IsConnected
<1>7. WorldTurns(IF t.what = "lost" THEN {t.net} ELSE {})
  BY <1>4, <1>6
<1>8. phase'[t.net] # "gone" /\ t.what # "path"
  BY <1>3, <1>4
<1> QED BY <1>4, <1>5, <1>7, <1>8, ToldKeeps

LEMMA LoseKeeps ==
  ASSUME VpnIInv, NEW n \in Handle, Lose(n) PROVE VpnIInv' /\ KeepsConnection
<1>1. /\ UNCHANGED <<transport, networks, job, alive, epoch, choice, reconnectRequired, sockets>>
      /\ UNCHANGED <<user, faults, retryAt, echo, reply, awgPingSeen, conn, trouble, broken>>
      /\ phase' = [phase EXCEPT ![n] = "gone"] /\ Tell(Task("lost", n, 0, NoPath))
  BY DEF Lose, inside, timing, history
<1>2. /\ phase' \in [Handle -> {"unused", "up", "bad", "gone"}]
      /\ \A m \in Handle : phase'[m] = "gone" <=> phase[m] = "gone" \/ m \in {n}
  BY <1>1, SameWorld
<1> DEFINE t == Task("lost", n, 0, NoPath)
<1>3. t \in Tasks /\ t.what = "lost" /\ t.net = n
  BY Basics, TaskIs
<1>4. Tell(t)
  BY <1>1
<1> HIDE DEF t
<1>5. WorldTurns({n})
  BY <1>1, <1>2, SameWorld DEF WorldTurns, IsConnected
<1>6. WorldTurns(IF t.what = "lost" THEN {t.net} ELSE {})
  BY <1>3, <1>5
<1> QED BY <1>3, <1>4, <1>6, ToldKeeps

LEMMA LosingKeeps ==
  ASSUME VpnIInv, NEW n \in Handle, Losing(n) PROVE VpnIInv' /\ KeepsConnection
<1>1. /\ UNCHANGED <<transport, networks, job, alive, epoch, choice, reconnectRequired, sockets>>
      /\ UNCHANGED <<phase, user, retryAt, echo, reply, awgPingSeen, conn, trouble, broken>>
      /\ faults < MaxFaults /\ faults' = faults + 1 /\ Tell(Task("losing", n, 0, NoPath))
  BY DEF Losing, inside, timing, history
<1>2. faults' \in 0..MaxFaults
  BY <1>1, WorldFacts
<1> DEFINE t == Task("losing", n, 0, NoPath)
<1>3. t \in Tasks /\ t.what = "losing"
  BY Basics, TaskIs
<1>4. Tell(t)
  BY <1>1
<1> HIDE DEF t
<1>5. WorldTurns({})
  BY <1>1, <1>2, SameWorld DEF WorldTurns, IsConnected
<1>6. WorldTurns(IF t.what = "lost" THEN {t.net} ELSE {})
  BY <1>3, <1>5
<1> QED BY <1>3, <1>4, <1>6, ToldKeeps

-----------------------------------------------------------------------------
(* The theorems.                                                           *)

LEMMA VpnStarts == ASSUME Init PROVE VpnIInv
<1>1. /\ queue = <<>> /\ job = Idle /\ conn = NoConn /\ alive = FALSE /\ epoch = 0
      /\ prepared = NoSocket /\ parked = NoSocket
      /\ activeNetwork = NoNet /\ failedNetwork = NoNet /\ preparedNetwork = NoNet
      /\ reconnectRequired = FALSE /\ awgPingSeen = FALSE
      /\ trouble = FALSE /\ broken = FALSE /\ echo = "recent" /\ reply = "recent"
      /\ networks = [k \in Kind |-> NoNet]
      /\ phase = [n \in Handle |-> "unused"] /\ retryAt = [n \in Handle |-> 0]
      /\ user = 0 /\ faults = 0 /\ transport \in {"quic", "https", "awg"}
  BY DEF Init
<1>2. /\ queue \in Seq(Tasks) /\ Complaints(queue) = {} /\ Ordered(queue)
      /\ \A w : About(w, queue) = {}
  BY <1>1, EmptyQueueIs
<1>3. /\ job \in Jobs /\ job.at = "idle" /\ job.net = NoNet /\ conn \in Conns
      /\ NoNet \notin Handle /\ NoNet \in Maybe
  BY <1>1, Basics
<1>4. VpnTypeOK
  <2>1. 0 \in 0..MaxUser /\ 0 \in 0..MaxFaults /\ Len(queue) <= MaxQueue
    BY <1>1, VpnBounds
  <2>2. {alive, reconnectRequired, awgPingSeen} \subseteq BOOLEAN
    BY <1>1
  <2>3. {activeNetwork, failedNetwork, preparedNetwork} \subseteq Maybe
    BY <1>1, <1>3
  <2>4. networks \in [Kind -> Maybe] /\ \A k \in Kind : networks[k] = NoNet
    BY <1>1, <1>3
  <2>5. /\ phase \in [Handle -> {"unused", "up", "bad", "gone"}]
        /\ retryAt \in [Handle -> 0..2]
    BY <1>1
  <2>6. {prepared, parked} \subseteq Sockets
    BY <1>1, Basics
  <2> QED BY <1>1, <1>3, <2>1, <2>2, <2>3, <2>4, <2>5, <2>6 DEF VpnTypeOK, Conns, Sockets
<1>5. VpnShapes
  BY <1>1, <1>2, <1>3 DEF VpnShapes
<1>6. JobsAreSound
  BY <1>3 DEF JobsAreSound
<1>7. LossesAreOrdered
  BY <1>1, <1>2 DEF LossesAreOrdered
<1>8. SignsHaveReasons
  BY <1>1, <1>2 DEF SignsHaveReasons, TroubleIsReal
<1>9. SocketsApart
  BY <1>1, Basics DEF SocketsApart, Apart
<1> QED BY <1>4, <1>5, <1>6, <1>7, <1>8, <1>9 DEF VpnIInv

LEMMA VpnSteps == ASSUME VpnIInv, [Next]_vars PROVE VpnIInv' /\ KeepsConnection
<1>1. CASE Worker
  <2>1. CASE \E k \in Kind : Start(k) \/ Migrate(k) \/ PressInVain(k)
    BY <2>1, StartKeeps, MigrateKeeps, PressInVainKeeps
  <2> QED BY <1>1, <2>1, OnAvailableKeeps, OnLostKeeps, OnLosingKeeps, OnDisconnectedKeeps,
             OnPathUnavailableKeeps, StopKeeps DEF Worker
<1>2. CASE Blocked
  BY <1>2, StartEndsKeeps, SwitchedKeeps, SwitchFailsKeeps DEF Blocked
<1>3. CASE Standby
  BY <1>3, StandbySkippedKeeps, StandbyReadyKeeps, StandbyFailsKeeps, StandbyBeginsKeeps,
     PreferWifiKeeps DEF Standby
<1>4. CASE \E early \in BOOLEAN : Tick(early)
  BY <1>4, TickKeeps
<1>5. CASE Echo \/ Silence \/ Overdue \/ (\E n \in Handle : Expire(n))
  BY <1>5, EchoKeeps, SilenceKeeps, OverdueKeeps, ExpireKeeps
<1>6. CASE Environment
  <2>1. CASE \E n \in Handle : Appear(n) \/ Lose(n) \/ Losing(n) \/ Degrade(n) \/ Repair(n)
    BY <2>1, AppearKeeps, LoseKeeps, LosingKeeps, QualityKeeps
  <2> QED BY <1>6, <2>1, ReportKeeps, ReportOfCandidateKeeps, DieKeeps,
             ServerForgetsKeeps, UserKeeps DEF Environment
<1>7. CASE UNCHANGED vars
  BY <1>7, StutterKeeps
<1> QED BY <1>1, <1>2, <1>3, <1>4, <1>5, <1>6, <1>7 DEF Next

\* The inductive invariant holds in every behaviour of a session, for any
\* networks, any bounds and each of the three transports: whatever order the
\* callbacks of Android, the events of the transport and the results of the
\* blocking calls reach the worker of VpnSession.kt in.
THEOREM VpnAlwaysIInv == Spec => []VpnIInv
<1>1. Init => VpnIInv
  BY VpnStarts
<1>2. VpnIInv /\ [Next]_vars => VpnIInv'
  BY VpnSteps
<1> QED BY <1>1, <1>2, PTL DEF Spec

\* A network is held for failed only with a reason: it is lost, the path in use
\* on it was silent or could not be left, the connection is broken, or the very
\* socket in use has reported itself unavailable, since it is in use or before as
\* a candidate.  A queued event about any other socket never condemns the path
\* (onGatewayEvent and recover of VpnSession.kt, pathSocket of mobile).
THEOREM VpnTroubleIsReal == Spec => []TroubleIsReal
<1>1. VpnIInv => TroubleIsReal
  BY DEF VpnIInv, SignsHaveReasons
<1> QED BY <1>1, VpnAlwaysIInv, PTL

\* The session's view of its networks is sound, and Android's loss of the
\* network in use, once its task is handled (onLost), stays remembered as a
\* failure until the session has left that network, although replies over the
\* old socket may still come.
THEOREM VpnAlwaysRecoveryInv == Spec => []RecoveryInv
<1>1. VpnIInv => RecoveryInv
  <2> SUFFICES ASSUME VpnIInv PROVE RecoveryInv
    OBVIOUS
  <2>1. queue \in Seq(Tasks) /\ DOMAIN queue = 1 .. Len(queue)
    BY Facts
  <2>2. (\A i \in 1 .. Len(queue) : queue[i].what # "lost") => About("lost", queue) = {}
    BY <2>1 DEF About
  <2>3. LossIsRemembered
    BY <2>2 DEF VpnIInv, LossesAreOrdered, LossIsRemembered
  <2> QED BY <2>3 DEF VpnIInv, RecoveryInv
<1> QED BY <1>1, VpnAlwaysIInv, PTL

\* As long as the session lives, a QUIC connection that was neither lost nor
\* silent for 15 s is never given up: migrate, recover and the preference for
\* Wi-Fi move it to another path (MigrateTo of mobile/gateway.go) and the flows
\* inside it survive.
THEOREM VpnReplacesOnlyIfBroken == Spec => ReplacedOnlyIfBroken
<1>1. VpnIInv /\ [Next]_vars =>
        [transport = "quic" /\ alive /\ alive' /\ IsConnected /\ conn'.st = "none" => broken]_vars
  BY VpnSteps DEF KeepsConnection
<1> QED BY <1>1, VpnAlwaysIInv, PTL DEF Spec, ReplacedOnlyIfBroken

==============================================================================
