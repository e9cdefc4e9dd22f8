---------------------------- MODULE KernelProofs ----------------------------
(***************************************************************************)
(* Theorems about Kernel for every number of user programs, every set of   *)
(* threads and readers and every size of a read.                           *)
(***************************************************************************)
EXTENDS Kernel, SequenceTheorems, WellFoundedInduction, TLAPS

-----------------------------------------------------------------------------
(* Numbers and sequences. *)

(* A set of naturals that is not empty has a least element, and Min is it. *)
LEMMA MinOfNat ==
  ASSUME NEW S, S \subseteq Nat, S # {}
  PROVE  Min(S) \in S /\ \A y \in S : Min(S) <= y
<1>1. PICK x \in S : \A y \in S : ~ (<<y, x>> \in OpToRel(<, Nat))
  BY WFMin, NatLessThanWellFounded
<1>2. \A y \in S : x <= y
  <2> SUFFICES ASSUME NEW y \in S PROVE x <= y
    OBVIOUS
  <2>1. <<y, x>> \notin OpToRel(<, Nat)
    BY <1>1
  <2>2. ~ (y < x)
    BY <2>1 DEF OpToRel
  <2> QED BY <2>2
<1> QED BY <1>2 DEF Min

(* The smaller of two. *)
LEMMA MinOfTwo ==
  ASSUME NEW a \in Nat, NEW b \in Nat
  PROVE  Min({a, b}) = IF a <= b THEN a ELSE b
<1>1. Min({a, b}) \in {a, b} /\ \A y \in {a, b} : Min({a, b}) <= y
  BY MinOfNat
<1> QED BY <1>1

(* linked_list::remove and array_list::remove: the elements after position *)
(* i move up by one.                                                       *)
LEMMA RemoveAtProperties ==
  ASSUME NEW S, NEW s \in Seq(S), NEW i \in 1 .. Len(s)
  PROVE  /\ RemoveAt(s, i) \in Seq(S)
         /\ Len(RemoveAt(s, i)) = Len(s) - 1
         /\ \A j \in 1 .. Len(s) - 1 :
              RemoveAt(s, i)[j] = IF j < i THEN s[j] ELSE s[j + 1]
<1> DEFINE a == SubSeq(s, 1, i - 1)
           b == SubSeq(s, i + 1, Len(s))
<1>1. Len(s) \in Nat
  OBVIOUS
<1>2. /\ a \in Seq(S)
      /\ Len(a) = i - 1
      /\ \A j \in 1 .. i - 1 : a[j] = s[j]
  <2>1. \A j \in 1 .. i - 1 : s[j] \in S
    BY <1>1
  <2> QED BY <1>1, <2>1, SubSeqProperties
<1>3. /\ b \in Seq(S)
      /\ Len(b) = Len(s) - i
      /\ \A j \in 1 .. Len(s) - i : b[j] = s[j + i]
  <2>1. \A j \in i + 1 .. Len(s) : s[j] \in S
    BY <1>1
  <2> QED BY <1>1, <2>1, SubSeqProperties
<1> HIDE DEF a, b
<1>4. /\ a \o b \in Seq(S)
      /\ Len(a \o b) = Len(s) - 1
      /\ \A j \in 1 .. Len(s) - 1 :
           (a \o b)[j] = IF j < i THEN s[j] ELSE s[j + 1]
  <2>1. /\ a \o b \in Seq(S)
        /\ Len(a \o b) = Len(a) + Len(b)
        /\ \A j \in 1 .. Len(a) + Len(b) :
             (a \o b)[j] = IF j <= Len(a) THEN a[j] ELSE b[j - Len(a)]
    BY <1>2, <1>3, ConcatProperties
  <2>2. Len(a) + Len(b) = Len(s) - 1
    BY <1>1, <1>2, <1>3
  <2>3. ASSUME NEW j \in 1 .. Len(s) - 1
        PROVE  (a \o b)[j] = IF j < i THEN s[j] ELSE s[j + 1]
    <3>1. CASE j < i
      <4>1. j \in 1 .. i - 1
        BY <1>1, <3>1
      <4> QED BY <1>2, <2>1, <2>2, <3>1, <4>1
    <3>2. CASE ~ (j < i)
      <4>1. j - (i - 1) \in 1 .. Len(s) - i /\ ~ (j <= i - 1)
        BY <1>1, <3>2
      <4>2. b[j - (i - 1)] = s[j - (i - 1) + i]
        BY <1>3, <4>1
      <4>3. j - (i - 1) + i = j + 1
        BY <1>1
      <4> QED BY <1>2, <2>1, <2>2, <3>2, <4>1, <4>2, <4>3
    <3> QED BY <3>1, <3>2
  <2> QED BY <2>1, <2>2, <2>3
<1> QED BY <1>4 DEF a, b, RemoveAt

-----------------------------------------------------------------------------
(* The inductive invariant. *)

(* The list holds the live processes, each once, and ends with the idle    *)
(* process, which never waits.                                             *)
ListOK ==
  /\ m_processes # << >>
  /\ m_processes[Len(m_processes)] = Idle
  /\ \A i, j \in 1 .. Len(m_processes) :
       m_processes[i] = m_processes[j] => i = j
  /\ \A p \in Process :
       Live(p) <=> \E i \in 1 .. Len(m_processes) : m_processes[i] = p
  /\ state[Idle] = "running"

(* Before the first tick both indices are 0 and no user thread executes. *)
BeforeUserland ==
  ~m_userland => /\ cpu = KMain
                 /\ m_process_index = 0
                 /\ m_thread_index = 0

(* TypeOK in parts, by who writes the variables. *)
TableType ==
  /\ m_processes \in Seq(Process)
  /\ threads \in [Process -> Seq(Thread)]

ReadingType ==
  /\ state \in [Process -> {"running", "blocked", "deleted"}]
  /\ m_sys_read_count \in [Process -> Nat]
  /\ m_sys_read_buffer \in [Process -> Thread \cup {NoBuffer}]
  /\ m_input_buffer \in [Process -> Nat]
  /\ unfilled \in [Process -> SUBSET Thread]

ConsoleType ==
  /\ line \in [Process -> 0 .. MaxLine]
  /\ m_active \in [Process -> BOOLEAN]
  /\ m_active_terminal \in Process
  /\ active_terminal_process_index \in Nat

DispatchType ==
  /\ m_process_index \in Nat
  /\ m_thread_index \in Nat
  /\ m_userland \in BOOLEAN
  /\ cpu \in (Process \X Thread) \cup {KMain}
  /\ mode \in {"run", "panic", "hang", "wild"}
  /\ cr3 \in Process \cup {Identity}

(* The parts of TypeOK that most steps need. *)
LEMMA TypeParts ==
  TypeOK <=> TableType /\ ReadingType /\ ConsoleType /\ DispatchType
BY DEF TypeOK, TableType, ReadingType, ConsoleType, DispatchType

IInv ==
  /\ TypeOK
  /\ ListOK
  /\ MainThreadFirst
  /\ CurrentThreadRuns
  /\ BeforeUserland
  /\ KernelKeepsRunning
  /\ ReadRequestConsistent
  /\ MainNeverRunsBlocked

-----------------------------------------------------------------------------
(* The scheduler. *)

(* Every turn of the loop looks at a position of the list, and some turn   *)
(* looks at its last position.                                             *)
LEMMA TurnInRange ==
  ASSUME NEW n \in Nat \ {0}, NEW i \in 0 .. n - 1
  PROVE  /\ \A k \in 0 .. n - 1 : Turn(i, k, n) \in 0 .. n - 1
         /\ \E k \in 0 .. n - 1 : Turn(i, k, n) = n - 1
<1>1. Advance(i, n) \in 0 .. n - 1
  BY DEF Advance
<1>2. \A k \in 0 .. n - 1 : Turn(i, k, n) \in 0 .. n - 1
  BY <1>1 DEF Turn
<1>3. Turn(i, n - 1 - Advance(i, n), n) = n - 1
  BY <1>1 DEF Turn
<1>4. n - 1 - Advance(i, n) \in 0 .. n - 1
  BY <1>1
<1> QED BY <1>2, <1>3, <1>4

(* With the idle process at the end of the list and a main thread in every *)
(* process, task_switch enters a thread of a listed process, and a main    *)
(* thread only if its process is not blocked.                              *)
LEMMA TaskSwitchEnters ==
  ASSUME NEW list \in Seq(Process), list # << >>, list[Len(list)] = Idle,
         NEW thr \in [Process -> Seq(Thread)],
         \A i \in 1 .. Len(list) : thr[list[i]] # << >>,
         NEW st, st[Idle] # "blocked",
         NEW pi \in Nat, pi < Len(list), NEW ti \in Nat,
         task_switch(list, thr, st, pi, ti)
  PROVE  \E npi \in 0 .. Len(list) - 1 :
         \E nti \in 0 .. Len(thr[list[npi + 1]]) - 1 :
           /\ enter_usermode(list, thr, npi, nti)
           /\ nti = 0 => st[list[npi + 1]] # "blocked"
<1> DEFINE n == Len(list)
           ready == Ready(list, st, pi)
<1>1. n \in Nat \ {0} /\ pi \in 0 .. n - 1
  OBVIOUS
<1>2. CASE ti + 1 < Len(thr[list[pi + 1]])
  <2>1. enter_usermode(list, thr, pi, ti + 1)
    BY <1>1, <1>2 DEF task_switch
  <2>2. ti + 1 \in 0 .. Len(thr[list[pi + 1]]) - 1
    <3>1. list[pi + 1] \in Process
      BY <1>1
    <3>2. Len(thr[list[pi + 1]]) \in Nat
      BY <3>1
    <3> QED BY <1>2, <3>2
  <2> QED BY <1>1, <2>1, <2>2
<1>3. CASE ~ (ti + 1 < Len(thr[list[pi + 1]]))
  <2> DEFINE k == Min(ready)
  <2>1. PICK m \in 0 .. n - 1 : Turn(pi, m, n) = n - 1
    BY <1>1, TurnInRange
  <2>2. m \in ready
    BY <1>1, <2>1 DEF Ready
  <2>3. ready \subseteq Nat
    BY <1>1 DEF Ready
  <2>4. k \in ready
    BY <2>2, <2>3, MinOfNat
  <2>5. /\ k \in 0 .. n - 1
        /\ st[list[Turn(pi, k, n) + 1]] # "blocked"
    BY <2>4 DEF Ready
  <2>6. Turn(pi, k, n) \in 0 .. n - 1
    BY <1>1, <2>5, TurnInRange
  <2>7. enter_usermode(list, thr, Turn(pi, k, n), 0)
    BY <1>1, <1>3, <2>2 DEF task_switch
  <2>8. 0 \in 0 .. Len(thr[list[Turn(pi, k, n) + 1]]) - 1
    <3> HIDE DEF k
    <3>1. Turn(pi, k, n) + 1 \in 1 .. n
      BY <1>1, <2>6
    <3>2. thr[list[Turn(pi, k, n) + 1]] \in Seq(Thread) \ {<< >>}
      BY <3>1
    <3> QED BY <3>2, EmptySeq
  <2> QED BY <2>5, <2>6, <2>7, <2>8
<1> QED BY <1>2, <1>3

(* So a handler that leaves the lists in order and then calls task_switch  *)
(* establishes everything the invariant says of the dispatcher.            *)
LEMMA DispatchAfterSwitch ==
  ASSUME m_processes' \in Seq(Process),
         threads' \in [Process -> Seq(Thread)],
         ListOK', MainThreadFirst',
         m_process_index \in Nat, m_process_index < Len(m_processes'),
         m_thread_index \in Nat,
         task_switch(m_processes', threads', state',
                     m_process_index, m_thread_index)
  PROVE  /\ mode' = "run"
         /\ m_process_index' \in Nat
         /\ m_thread_index' \in Nat
         /\ m_userland' = TRUE
         /\ cpu' \in Process \X Thread
         /\ cr3' \in Process
         /\ CurrentThreadRuns'
         /\ BeforeUserland'
         /\ KernelKeepsRunning'
         /\ MainNeverRunsBlocked'
<1> DEFINE list == m_processes'
           thr == threads'
<1>1. /\ list # << >>
      /\ list[Len(list)] = Idle
      /\ state'[Idle] # "blocked"
  BY DEF ListOK
<1>2. \A i \in 1 .. Len(list) : list[i] \in Process /\ state'[list[i]] # "deleted"
  BY DEF ListOK, Live
<1>3. \A i \in 1 .. Len(list) : thr[list[i]] # << >>
  BY <1>2 DEF MainThreadFirst, Live
<1>14. PICK npi \in 0 .. Len(list) - 1 :
         \E nti \in 0 .. Len(thr[list[npi + 1]]) - 1 :
           /\ enter_usermode(list, thr, npi, nti)
           /\ nti = 0 => state'[list[npi + 1]] # "blocked"
  BY <1>1, <1>3, TaskSwitchEnters
<1>4. PICK nti \in 0 .. Len(thr[list[npi + 1]]) - 1 :
        /\ enter_usermode(list, thr, npi, nti)
        /\ nti = 0 => state'[list[npi + 1]] # "blocked"
  BY <1>14
<1>5. /\ m_process_index' = npi
      /\ m_thread_index' = nti
      /\ mode' = "run"
      /\ m_userland' = TRUE
      /\ cpu' = <<list[npi + 1], thr[list[npi + 1]][nti + 1]>>
      /\ cr3' = list[npi + 1]
  BY <1>4 DEF enter_usermode
<1>6. npi + 1 \in 1 .. Len(list)
  OBVIOUS
<1>7. list[npi + 1] \in Process /\ state'[list[npi + 1]] # "deleted"
  BY <1>2, <1>6
<1>8. thr[list[npi + 1]] \in Seq(Thread)
  BY <1>7
<1>9. nti + 1 \in 1 .. Len(thr[list[npi + 1]])
  BY <1>8
<1>10. thr[list[npi + 1]][nti + 1] \in Thread
  BY <1>8, <1>9
<1>11. Current' = list[npi + 1] /\ CurrentThread' = thr[list[npi + 1]][nti + 1]
  BY <1>5 DEF Current, CurrentThread
<1>12. CurrentThreadRuns'
  <2>1. npi < Len(list) /\ nti < Len(thr[list[npi + 1]])
    BY <1>8
  <2> QED BY <1>5, <1>7, <1>11, <2>1 DEF CurrentThreadRuns, Live
<1>13. MainNeverRunsBlocked'
  <2> SUFFICES ASSUME NEW p \in Process, cpu' = <<p, Main>>
               PROVE  state'[p] # "blocked"
    BY DEF MainNeverRunsBlocked
  <2>1. p = list[npi + 1] /\ thr[p][nti + 1] = Main
    BY <1>5
  <2>2. thr[p][1] = Main /\ 1 \in 1 .. Len(thr[p])
    BY <1>7, <1>8, <2>1 DEF MainThreadFirst, Live
  <2>3. nti + 1 = 1
    BY <1>7, <1>9, <2>1, <2>2 DEF MainThreadFirst, Live
  <2> QED BY <1>4, <2>1, <2>3
<1> QED
  BY <1>5, <1>6, <1>7, <1>10, <1>12, <1>13
     DEF BeforeUserland, KernelKeepsRunning

-----------------------------------------------------------------------------
(* Termination. *)

(* The thread a system call or fault comes from is the one the indices     *)
(* name, and it is not the idle thread.                                    *)
LEMMA CallerIsCurrent ==
  ASSUME IInv, InSyscall
  PROVE  /\ m_userland
         /\ m_process_index + 1 \in 1 .. Len(m_processes) - 1
         /\ Current \in Process
         /\ Current # Idle
         /\ Live(Current)
         /\ m_thread_index + 1 \in 1 .. Len(threads[Current])
         /\ CurrentThread \in Thread
         /\ cpu = <<Current, CurrentThread>>
<1>1. TableType /\ DispatchType
  BY TypeParts DEF IInv
<1>2. m_userland
  BY DEF InSyscall, IInv, BeforeUserland
<1>3. /\ m_process_index < Len(m_processes)
      /\ Live(Current)
      /\ m_thread_index < Len(threads[Current])
      /\ cpu = <<Current, CurrentThread>>
  BY <1>2 DEF IInv, CurrentThreadRuns
<1>4. Current # Idle
  BY <1>3 DEF InSyscall
<1>5. m_process_index + 1 \in 1 .. Len(m_processes)
  BY <1>1, <1>3 DEF TableType, DispatchType
<1>6. Current \in Process
  BY <1>1, <1>5 DEF TableType, Current
<1>7. m_process_index + 1 # Len(m_processes)
  BY <1>4 DEF IInv, ListOK, Current
<1>8. threads[Current] \in Seq(Thread)
  BY <1>1, <1>6 DEF TableType
<1>9. m_thread_index + 1 \in 1 .. Len(threads[Current])
  BY <1>1, <1>3, <1>8 DEF DispatchType
<1>10. CurrentThread \in Thread
  BY <1>8, <1>9 DEF CurrentThread
<1> QED BY <1>2, <1>3, <1>4, <1>5, <1>6, <1>7, <1>9, <1>10

(* Deleting the current process leaves the index inside the list: what     *)
(* follows moved up into its place, and the idle process always follows.   *)
LEMMA TerminateProcessStep ==
  ASSUME IInv, InSyscall, terminate_process(m_process_index)
  PROVE  /\ TableType'
         /\ ReadingType'
         /\ ListOK'
         /\ MainThreadFirst'
         /\ ReadRequestConsistent'
         /\ m_process_index < Len(m_processes')
<1> DEFINE p == Current
           i == m_process_index + 1
           n == Len(m_processes)
<1>1. /\ i \in 1 .. n - 1
      /\ p \in Process
      /\ p # Idle
      /\ p = m_processes[i]
  BY CallerIsCurrent DEF Current
<1>2. TableType /\ ReadingType /\ DispatchType
  BY TypeParts DEF IInv
<1>3. /\ m_processes' = RemoveAt(m_processes, i)
      /\ threads' = [threads EXCEPT ![p] = << >>]
      /\ state' = [state EXCEPT ![p] = "deleted"]
      /\ m_sys_read_count' = [m_sys_read_count EXCEPT ![p] = 0]
      /\ m_sys_read_buffer' = [m_sys_read_buffer EXCEPT ![p] = NoBuffer]
      /\ m_input_buffer' = [m_input_buffer EXCEPT ![p] = 0]
      /\ unfilled' = [unfilled EXCEPT ![p] = {}]
  BY DEF terminate_process, Current
<1>4. n \in Nat /\ i \in 1 .. n
  BY <1>1, <1>2 DEF TableType
<1>5. /\ m_processes' \in Seq(Process)
      /\ Len(m_processes') = n - 1
      /\ \A j \in 1 .. n - 1 :
           m_processes'[j] = IF j < i THEN m_processes[j]
                                      ELSE m_processes[j + 1]
  BY <1>2, <1>3, <1>4, RemoveAtProperties DEF TableType
<1>6. TableType'
  BY <1>1, <1>2, <1>3, <1>5 DEF TableType
<1>7. ReadingType'
  BY <1>1, <1>2, <1>3 DEF ReadingType
<1>8. ListOK'
  <2>1. m_processes' # << >> /\ m_processes'[Len(m_processes')] = Idle
    <3>1. n - 1 \in 1 .. n - 1 /\ ~ (n - 1 < i)
      BY <1>1, <1>4
    <3>2. m_processes'[n - 1] = m_processes[n]
      BY <1>4, <1>5, <3>1
    <3> QED BY <1>5, <3>1, <3>2, EmptySeq DEF IInv, ListOK
  <2>2. ASSUME NEW j \in 1 .. n - 1, NEW k \in 1 .. n - 1,
               m_processes'[j] = m_processes'[k]
        PROVE  j = k
    BY <1>1, <1>4, <1>5, <2>2 DEF IInv, ListOK
  <2>3. ASSUME NEW q \in Process
        PROVE  state'[q] # "deleted"
                 <=> \E j \in 1 .. n - 1 : m_processes'[j] = q
    <3>1. CASE q = p
      <4>1. state'[q] = "deleted"
        BY <1>2, <1>3, <3>1 DEF ReadingType
      <4>2. ASSUME NEW j \in 1 .. n - 1, m_processes'[j] = q PROVE FALSE
        <5>1. CASE j < i
          BY <1>1, <1>4, <1>5, <3>1, <4>2, <5>1 DEF IInv, ListOK
        <5>2. CASE ~ (j < i)
          BY <1>1, <1>4, <1>5, <3>1, <4>2, <5>2 DEF IInv, ListOK
        <5> QED BY <5>1, <5>2
      <4> QED BY <4>1, <4>2
    <3>2. CASE q # p
      <4>1. state'[q] = state[q]
        BY <1>2, <1>3, <3>2 DEF ReadingType
      <4>2. ASSUME NEW j \in 1 .. n, m_processes[j] = q
            PROVE  \E k \in 1 .. n - 1 : m_processes'[k] = q
        <5>1. CASE j < i
          BY <1>1, <1>4, <1>5, <4>2, <5>1
        <5>2. CASE j > i
          <6>1. j - 1 \in 1 .. n - 1 /\ ~ (j - 1 < i) /\ (j - 1) + 1 = j
            BY <1>1, <1>4, <5>2
          <6> QED BY <1>5, <4>2, <6>1
        <5>3. j # i
          BY <1>1, <3>2, <4>2
        <5> QED BY <1>1, <1>4, <5>1, <5>2, <5>3
      <4>3. ASSUME NEW k \in 1 .. n - 1, m_processes'[k] = q
            PROVE  \E j \in 1 .. n : m_processes[j] = q
        BY <1>4, <1>5, <4>3
      <4> QED BY <4>1, <4>2, <4>3 DEF IInv, ListOK, Live
    <3> QED BY <3>1, <3>2
  <2>4. state'[Idle] = "running"
    BY <1>1, <1>2, <1>3 DEF ReadingType, IInv, ListOK
  <2> QED BY <1>5, <2>1, <2>2, <2>3, <2>4 DEF ListOK, Live
<1>9. MainThreadFirst'
  BY <1>1, <1>2, <1>3 DEF MainThreadFirst, Live, IInv, TableType, ReadingType
<1>10. ReadRequestConsistent'
  BY <1>1, <1>2, <1>3 DEF ReadRequestConsistent, Live, IInv, ReadingType
<1>11. m_process_index < Len(m_processes')
  BY <1>1, <1>2, <1>4, <1>5 DEF DispatchType
<1> QED BY <1>6, <1>7, <1>8, <1>9, <1>10, <1>11

(* Deleting a thread other than the main one leaves the main thread first. *)
LEMMA TerminateThreadStep ==
  ASSUME IInv, InSyscall, CurrentThread # Main,
         terminate_thread(Current, m_thread_index)
  PROVE  /\ TableType'
         /\ ReadingType'
         /\ ListOK'
         /\ MainThreadFirst'
         /\ ReadRequestConsistent'
         /\ m_process_index < Len(m_processes')
<1> DEFINE p == Current
           i == m_thread_index + 1
           s == threads[p]
           r == RemoveAt(s, i)
<1>1. /\ p \in Process
      /\ Live(p)
      /\ i \in 1 .. Len(s)
      /\ s[i] # Main
      /\ m_process_index < Len(m_processes)
  <2>1. m_userland
    BY CallerIsCurrent
  <2> QED BY <2>1, CallerIsCurrent DEF CurrentThread, IInv, CurrentThreadRuns
<1>2. TableType /\ ReadingType
  BY TypeParts DEF IInv
<1>3. s \in Seq(Thread)
  BY <1>1, <1>2 DEF TableType
<1>4. /\ threads' = [threads EXCEPT ![p] = r]
      /\ m_processes' = m_processes
      /\ state' = state
      /\ m_sys_read_count' = m_sys_read_count
      /\ m_input_buffer' = m_input_buffer
  BY DEF terminate_thread
<1>5. /\ m_sys_read_buffer' =
           [m_sys_read_buffer EXCEPT ![p] = IF @ = s[i] THEN NoBuffer ELSE @]
      /\ unfilled' = [unfilled EXCEPT ![p] = @ \ {s[i]}]
  BY DEF terminate_thread
<1>6. /\ r \in Seq(Thread)
      /\ Len(r) = Len(s) - 1
      /\ \A j \in 1 .. Len(s) - 1 : r[j] = IF j < i THEN s[j] ELSE s[j + 1]
  BY <1>1, <1>3, RemoveAtProperties
<1> HIDE DEF r
<1>7. TableType'
  BY <1>1, <1>2, <1>4, <1>6 DEF TableType
<1>8. ReadingType'
  <2>1. m_sys_read_buffer' \in [Process -> Thread \cup {NoBuffer}]
    BY <1>1, <1>2, <1>5 DEF ReadingType
  <2>2. unfilled' \in [Process -> SUBSET Thread]
    BY <1>1, <1>2, <1>5 DEF ReadingType
  <2> QED BY <1>2, <1>4, <2>1, <2>2 DEF ReadingType
<1>9. MainThreadFirst'
  <2>1. ASSUME NEW q \in Process, state[q] # "deleted", q # p
        PROVE  /\ threads'[q] # << >>
               /\ Head(threads'[q]) = Main
               /\ \A j, k \in 1 .. Len(threads'[q]) :
                    threads'[q][j] = threads'[q][k] => j = k
    <3>1. threads'[q] = threads[q]
      BY <1>2, <1>4, <2>1 DEF TableType
    <3> QED BY <2>1, <3>1 DEF IInv, MainThreadFirst, Live
  <2>2. /\ s # << >>
        /\ Head(s) = Main
        /\ \A j, k \in 1 .. Len(s) : s[j] = s[k] => j = k
    BY <1>1 DEF IInv, MainThreadFirst
  <2>3. Len(s) \in Nat /\ s[1] = Main /\ i # 1
    BY <1>1, <1>3, <2>2
  <2>4. 1 \in 1 .. Len(s) - 1 /\ r[1] = Main
    BY <1>1, <1>6, <2>3
  <2>5. r # << >> /\ Head(r) = Main
    BY <1>6, <2>4
  <2>6. ASSUME NEW j \in 1 .. Len(r), NEW k \in 1 .. Len(r), r[j] = r[k]
        PROVE  j = k
    BY <1>1, <1>6, <2>2, <2>3, <2>6
  <2>7. threads'[p] = r
    BY <1>1, <1>2, <1>4 DEF TableType
  <2> QED BY <1>4, <2>1, <2>5, <2>6, <2>7 DEF MainThreadFirst, Live
<1>10. ListOK'
  BY <1>4 DEF IInv, ListOK, Live
<1>11. ReadRequestConsistent'
  BY <1>4 DEF IInv, ReadRequestConsistent, Live
<1> QED BY <1>1, <1>4, <1>7, <1>8, <1>9, <1>10, <1>11

-----------------------------------------------------------------------------
(* Reading. *)

(* flush_input_buffer never takes more than is there or than is wanted,    *)
(* and blocked remains who still wants something.                          *)
LEMMA FlushStep ==
  ASSUME IInv, NEW p \in Process, Live(p), p # Idle,
         NEW have \in Nat, NEW want \in Nat,
         NEW reader \in Thread,
         flush_input_buffer(p, have, want, "blocked", reader)
  PROVE  /\ state' \in [Process -> {"running", "blocked", "deleted"}]
         /\ m_sys_read_count' \in [Process -> Nat]
         /\ m_input_buffer' \in [Process -> Nat]
         /\ unfilled' \in [Process -> SUBSET Thread]
         /\ ReadRequestConsistent'
         /\ \A q \in Process : Live(q)' <=> Live(q)
         /\ \A q \in Process : q # p => state'[q] = state[q]
<1> DEFINE n == Min({have, want})
<1>1. ReadingType
  BY TypeParts DEF IInv
<1>2. n = IF have <= want THEN have ELSE want
  BY MinOfTwo
<1>3. /\ m_input_buffer' = [m_input_buffer EXCEPT ![p] = have - n]
      /\ m_sys_read_count' = [m_sys_read_count EXCEPT ![p] = want - n]
      /\ state' =
           [state EXCEPT ![p] = IF want - n = 0 THEN "running" ELSE "blocked"]
      /\ unfilled' = [unfilled EXCEPT
                        ![p] = IF want - n = 0 THEN @ \ {reader}
                                               ELSE @ \cup {reader}]
  BY DEF flush_input_buffer
<1> HIDE DEF n
<1>4. /\ have - n \in Nat
      /\ want - n \in Nat
      /\ want - n > 0 => have - n = 0
  BY <1>2
<1>5. state' \in [Process -> {"running", "blocked", "deleted"}]
  BY <1>1, <1>3 DEF ReadingType
<1>6. unfilled' \in [Process -> SUBSET Thread]
  BY <1>1, <1>3 DEF ReadingType
<1>7. \A q \in Process : q # p => state'[q] = state[q]
  BY <1>1, <1>3 DEF ReadingType
<1>8. state'[p] = IF want - n = 0 THEN "running" ELSE "blocked"
  BY <1>1, <1>3 DEF ReadingType
<1>9. \A q \in Process : state'[q] # "deleted" <=> state[q] # "deleted"
  BY <1>7, <1>8 DEF Live
<1>10. ASSUME NEW q \in Process, state'[q] # "deleted"
       PROVE  /\ (state'[q] = "blocked") <=> (m_sys_read_count'[q] > 0)
              /\ m_sys_read_count'[q] > 0 => m_input_buffer'[q] = 0
  <2>1. CASE q = p
    <3>1. m_sys_read_count'[q] = want - n /\ m_input_buffer'[q] = have - n
      BY <1>1, <1>3, <2>1 DEF ReadingType
    <3> QED BY <1>4, <1>8, <2>1, <3>1
  <2>2. CASE q # p
    <3>1. /\ m_sys_read_count'[q] = m_sys_read_count[q]
          /\ m_input_buffer'[q] = m_input_buffer[q]
          /\ state'[q] = state[q]
      BY <1>1, <1>3, <2>2 DEF ReadingType
    <3> QED BY <1>10, <3>1 DEF IInv, ReadRequestConsistent, Live
  <2> QED BY <2>1, <2>2
<1> QED
  BY <1>1, <1>3, <1>4, <1>5, <1>6, <1>7, <1>9, <1>10
     DEF ReadingType, ReadRequestConsistent, Live

-----------------------------------------------------------------------------
(* The invariant is inductive. *)

(* The state the constructor leaves satisfies the invariant. *)
LEMMA InitInvariant == Init => IInv
<1> SUFFICES ASSUME Init PROVE IInv
  OBVIOUS
<1> USE ProcessAssumption
<1>1. /\ m_processes \in Seq(Process)
      /\ Len(m_processes) = NumUser + 1
      /\ \A i \in 1 .. NumUser + 1 : m_processes[i] = i - 1
  BY DEF Init, Process
<1>2. TypeOK
  <2>1. 0 \in Process
    BY DEF Process
  <2>2. <<Main>> \in Seq(Thread) /\ 0 \in 0 .. MaxLine
    BY LineAssumption DEF Thread
  <2> QED BY <1>1, <2>1, <2>2 DEF Init, TypeOK
<1>3. ListOK
  <2>1. m_processes # << >>
    BY <1>1
  <2>2. m_processes[Len(m_processes)] = Idle
    BY <1>1 DEF Idle
  <2>3. \A p \in Process :
          Live(p) <=> \E i \in 1 .. Len(m_processes) : m_processes[i] = p
    <3> SUFFICES ASSUME NEW p \in Process
                 PROVE  /\ Live(p)
                        /\ p + 1 \in 1 .. Len(m_processes)
                        /\ m_processes[p + 1] = p
      OBVIOUS
    <3> QED BY <1>1 DEF Init, Process, Live
  <2>4. state[Idle] = "running"
    BY DEF Init, Idle, Process
  <2> QED BY <1>1, <2>1, <2>2, <2>3, <2>4 DEF ListOK
<1>4. MainThreadFirst
  BY DEF Init, MainThreadFirst
<1>5. CurrentThreadRuns /\ BeforeUserland /\ KernelKeepsRunning
  BY DEF Init, CurrentThreadRuns, BeforeUserland, KernelKeepsRunning
<1>6. ReadRequestConsistent
  BY DEF Init, ReadRequestConsistent
<1>7. MainNeverRunsBlocked
  BY DEF Init, MainNeverRunsBlocked
<1> QED BY <1>2, <1>3, <1>4, <1>5, <1>6, <1>7 DEF IInv

(* A handler that ends in task_switch. *)
LEMMA SwitchingStep ==
  ASSUME IInv,
         TableType', ReadingType', ListOK', MainThreadFirst',
         ReadRequestConsistent',
         m_process_index < Len(m_processes'),
         task_switch(m_processes', threads', state',
                     m_process_index, m_thread_index),
         UNCHANGED console
  PROVE  IInv' /\ mode' = "run"
<1>1. ConsoleType /\ DispatchType
  BY TypeParts DEF IInv
<1>2. /\ mode' = "run"
      /\ m_process_index' \in Nat
      /\ m_thread_index' \in Nat
      /\ m_userland' = TRUE
      /\ cpu' \in Process \X Thread
      /\ cr3' \in Process
      /\ CurrentThreadRuns'
      /\ BeforeUserland'
      /\ KernelKeepsRunning'
      /\ MainNeverRunsBlocked'
  BY <1>1, DispatchAfterSwitch DEF TableType, DispatchType
<1>3. ConsoleType'
  BY <1>1 DEF ConsoleType, console
<1>4. DispatchType'
  BY <1>2 DEF DispatchType
<1>5. TypeOK'
  BY <1>3, <1>4 DEF TypeOK, TableType, ReadingType, ConsoleType, DispatchType
<1> QED BY <1>2, <1>5 DEF IInv

(* A tick keeps the invariant, and the kernel goes on running. *)
LEMMA TimerStep == IInv /\ timer_handler => IInv' /\ mode' = "run"
<1> SUFFICES ASSUME IInv, timer_handler PROVE IInv' /\ mode' = "run"
  OBVIOUS
<1>1. /\ task_switch(m_processes', threads', state',
                     m_process_index, m_thread_index)
      /\ UNCHANGED <<table, reading, console>>
  BY DEF timer_handler, table, reading
<1>2. TableType' /\ ReadingType'
  <2>1. TableType /\ ReadingType
    BY TypeParts DEF IInv
  <2> QED BY <1>1, <2>1 DEF TableType, ReadingType, table, reading
<1>3. ListOK' /\ MainThreadFirst' /\ ReadRequestConsistent'
  BY <1>1, SMTT(30) DEF IInv, ListOK, MainThreadFirst, ReadRequestConsistent, Live,
              table, reading
<1>4. m_process_index < Len(m_processes')
  <2>1. TableType
    BY TypeParts DEF IInv
  <2>2. Len(m_processes) \in Nat \ {0}
    BY <2>1, EmptySeq DEF TableType, IInv, ListOK
  <2> QED BY <1>1, <2>2 DEF IInv, CurrentThreadRuns, BeforeUserland, table
<1> QED BY <1>1, <1>2, <1>3, <1>4, SwitchingStep

(* So does the end of a thread or of a process. *)
LEMMA ExitStep == IInv /\ (sys_exit \/ page_fault_handler) => IInv' /\ mode' = "run"
<1> SUFFICES ASSUME IInv, sys_exit \/ page_fault_handler PROVE IInv' /\ mode' = "run"
  OBVIOUS
<1>1. /\ InSyscall
      /\ task_switch(m_processes', threads', state',
                     m_process_index, m_thread_index)
      /\ UNCHANGED console
  BY DEF sys_exit, page_fault_handler
<1>2. CASE terminate_process(m_process_index)
  BY <1>1, <1>2, TerminateProcessStep, SwitchingStep
<1>3. CASE /\ CurrentThread # Main
           /\ terminate_thread(Current, m_thread_index)
  BY <1>1, <1>3, TerminateThreadStep, SwitchingStep
<1> QED BY <1>2, <1>3 DEF sys_exit, page_fault_handler

(* sys_read keeps it, whether it blocks the process or not. *)
LEMMA ReadStep ==
  ASSUME IInv, NEW count \in ReadSizes, sys_read(count)
  PROVE  IInv' /\ mode' = "run"
<1> DEFINE p == Current
<1>1. /\ p \in Process
      /\ p # Idle
      /\ Live(p)
      /\ cpu[2] \in Thread
      /\ m_userland
  BY CallerIsCurrent DEF sys_read
<1>2. TableType /\ ReadingType
  BY TypeParts DEF IInv
<1>3. /\ m_sys_read_buffer' = [m_sys_read_buffer EXCEPT ![p] = cpu[2]]
      /\ flush_input_buffer(p, m_input_buffer[p], count, "blocked", cpu[2])
      /\ task_switch(m_processes, threads, state',
                     m_process_index, m_thread_index)
      /\ UNCHANGED <<table, console>>
  BY DEF sys_read
<1>4. count \in Nat /\ m_input_buffer[p] \in Nat
  BY <1>1, <1>2, ReadAssumption DEF ReadingType
<1> HIDE DEF p
<1>5. /\ state' \in [Process -> {"running", "blocked", "deleted"}]
      /\ m_sys_read_count' \in [Process -> Nat]
      /\ m_input_buffer' \in [Process -> Nat]
      /\ unfilled' \in [Process -> SUBSET Thread]
      /\ ReadRequestConsistent'
      /\ \A q \in Process : Live(q)' <=> Live(q)
      /\ \A q \in Process : q # p => state'[q] = state[q]
  BY <1>1, <1>3, <1>4, FlushStep
<1>6. ReadingType'
  BY <1>1, <1>2, <1>3, <1>5 DEF ReadingType
<1>7. TableType'
  BY <1>2, <1>3 DEF TableType, table
<1>8. ListOK'
  <2>1. Idle \in Process
    BY ProcessAssumption DEF Idle, Process
  <2> QED BY <1>1, <1>3, <1>5, <2>1 DEF IInv, ListOK, Live, table
<1>9. MainThreadFirst'
  BY <1>3, <1>5 DEF IInv, MainThreadFirst, Live, table
<1>10. m_process_index < Len(m_processes')
  BY <1>1, <1>3 DEF IInv, CurrentThreadRuns, table
<1>11. task_switch(m_processes', threads', state',
                   m_process_index, m_thread_index)
  BY <1>3 DEF table
<1> QED
  BY <1>3, <1>5, <1>6, <1>7, <1>8, <1>9, <1>10, <1>11, SwitchingStep

(* A new thread goes to the end of the list and disturbs no index. *)
LEMMA ThreadStep ==
  ASSUME IInv, NEW t \in Workers, sys_thread(t)
  PROVE  IInv'
<1> DEFINE p == Current
           s == threads[p]
<1>1. /\ p \in Process
      /\ Live(p)
      /\ m_userland
      /\ m_thread_index + 1 \in 1 .. Len(s)
      /\ cpu = <<p, s[m_thread_index + 1]>>
  BY CallerIsCurrent DEF sys_thread, CurrentThread
<1>2. TableType /\ ReadingType /\ ConsoleType /\ DispatchType
  BY TypeParts DEF IInv
<1>3. /\ t \notin Range(s)
      /\ threads' = [threads EXCEPT ![p] = Append(s, t)]
      /\ cr3' = p
      /\ UNCHANGED <<mode, m_processes, reading, console, dispatch>>
  BY DEF sys_thread
<1>4. s \in Seq(Thread) /\ t \in Thread
  BY <1>1, <1>2 DEF TableType, Thread
<1>5. /\ Append(s, t) \in Seq(Thread)
      /\ Len(Append(s, t)) = Len(s) + 1
      /\ \A j \in 1 .. Len(s) : Append(s, t)[j] = s[j]
      /\ Append(s, t)[Len(s) + 1] = t
      /\ \A j \in 1 .. Len(s) : s[j] # t
  BY <1>3, <1>4 DEF Range
<1>6. /\ threads' \in [Process -> Seq(Thread)]
      /\ threads'[p] = Append(s, t)
      /\ \A q \in Process : q # p => threads'[q] = threads[q]
  BY <1>1, <1>2, <1>3, <1>5 DEF TableType
<1>7. TypeOK'
  BY <1>1, <1>2, <1>3, <1>6
     DEF TypeOK, TableType, ReadingType, ConsoleType, DispatchType,
         reading, console, dispatch
<1>8. MainThreadFirst'
  <2>1. /\ s # << >>
        /\ Head(s) = Main
        /\ \A j, k \in 1 .. Len(s) : s[j] = s[k] => j = k
    BY <1>1 DEF IInv, MainThreadFirst
  <2>2. Append(s, t) # << >> /\ Head(Append(s, t)) = Main
    BY <1>4, <1>5, <2>1
  <2>3. ASSUME NEW j \in 1 .. Len(s) + 1, NEW k \in 1 .. Len(s) + 1,
               Append(s, t)[j] = Append(s, t)[k]
        PROVE  j = k
    <3>1. Len(s) \in Nat
      BY <1>4
    <3> QED BY <1>5, <2>1, <2>3, <3>1
  <2>4. ASSUME NEW q \in Process, state[q] # "deleted", q # p
        PROVE  /\ threads'[q] # << >>
               /\ Head(threads'[q]) = Main
               /\ \A j, k \in 1 .. Len(threads'[q]) :
                    threads'[q][j] = threads'[q][k] => j = k
    BY <1>6, <2>4 DEF IInv, MainThreadFirst, Live
  <2>5. state' = state
    BY <1>3 DEF reading
  <2> QED BY <1>5, <1>6, <2>2, <2>3, <2>4, <2>5 DEF MainThreadFirst, Live
<1>9. CurrentThreadRuns'
  <2>1. Current' = p
    BY <1>3 DEF Current, dispatch
  <2>2. CurrentThread' = s[m_thread_index + 1]
    BY <1>1, <1>3, <1>5, <1>6, <2>1 DEF CurrentThread, dispatch
  <2>3. m_thread_index < Len(threads'[p])
    BY <1>1, <1>2, <1>4, <1>5, <1>6 DEF DispatchType
  <2>4. m_process_index < Len(m_processes)
    BY <1>1 DEF IInv, CurrentThreadRuns
  <2> QED BY <1>1, <1>3, <2>1, <2>2, <2>3, <2>4
          DEF CurrentThreadRuns, Live, dispatch, reading
<1>10. ListOK' /\ BeforeUserland' /\ KernelKeepsRunning'
  BY <1>3 DEF IInv, ListOK, BeforeUserland, KernelKeepsRunning, Live,
              dispatch, reading
<1>11. ReadRequestConsistent' /\ MainNeverRunsBlocked'
  BY <1>3 DEF IInv, ReadRequestConsistent, MainNeverRunsBlocked, Live,
              dispatch, reading
<1> QED BY <1>7, <1>8, <1>9, <1>10, <1>11 DEF IInv

(* A step that changes neither the table, nor the reads, nor the           *)
(* dispatcher, and loads the page directory its caller expects.            *)
LEMMA QuietStep ==
  ASSUME IInv,
         UNCHANGED <<table, reading, dispatch>>,
         ConsoleType',
         mode' \in {"run", "wild"},
         KeyboardReturn \/ cr3' = cr3
  PROVE  IInv'
<1>1. TableType /\ ReadingType /\ DispatchType
  BY TypeParts DEF IInv
<1>2. cr3' \in Process \cup {Identity} /\ (m_userland => cr3' = Current)
  <2>1. m_userland => /\ m_process_index + 1 \in 1 .. Len(m_processes)
                      /\ cr3 = Current
    BY <1>1 DEF IInv, CurrentThreadRuns, TableType, DispatchType
  <2>2. m_userland => Current \in Process
    BY <1>1, <2>1 DEF TableType, Current
  <2> QED BY <1>1, <2>1, <2>2 DEF KeyboardReturn, DispatchType
<1>3. TypeOK'
  BY <1>1, <1>2 DEF TypeOK, TableType, ReadingType, ConsoleType, DispatchType,
                    table, reading, dispatch
<1>4. CurrentThreadRuns'
  BY <1>2 DEF IInv, CurrentThreadRuns, Current, CurrentThread, Live,
              table, reading, dispatch
<1>5. ListOK' /\ MainThreadFirst' /\ BeforeUserland' /\ KernelKeepsRunning'
  BY DEF IInv, ListOK, MainThreadFirst, BeforeUserland, KernelKeepsRunning,
         Live, table, reading, dispatch
<1>6. ReadRequestConsistent' /\ MainNeverRunsBlocked'
  BY DEF IInv, ReadRequestConsistent, MainNeverRunsBlocked, Live,
         reading, dispatch
<1> QED BY <1>3, <1>4, <1>5, <1>6 DEF IInv

(* sys_alloc and sys_write only reload the page directory. *)
LEMMA ReturnStep == IInv /\ sys_return => IInv'
<1> SUFFICES ASSUME IInv, sys_return PROVE IInv'
  OBVIOUS
<1>1. ConsoleType
  BY TypeParts DEF IInv
<1>2. KeyboardReturn
  BY CallerIsCurrent DEF sys_return, KeyboardReturn
<1>3. /\ UNCHANGED <<table, reading, dispatch>>
      /\ ConsoleType'
      /\ mode' \in {"run", "wild"}
  BY <1>1 DEF sys_return, InSyscall, ConsoleType, console
<1> QED BY <1>2, <1>3, QuietStep

(* Shift+Tab touches neither the lists nor the reads. *)
LEMMA SwitchTerminalStep == IInv /\ SwitchTerminal => IInv'
<1> SUFFICES ASSUME IInv, SwitchTerminal PROVE IInv'
  OBVIOUS
<1>1. ConsoleType /\ TableType
  BY TypeParts DEF IInv
<1> DEFINE i == active_terminal_process_index
           j == IF i + 1 = Len(m_processes) THEN 0 ELSE i + 1
<1>2. /\ mode = "run" /\ mode' = mode
      /\ i < Len(m_processes)
      /\ active_terminal_process_index' = j
      /\ m_active_terminal' = m_processes[j + 1]
      /\ m_active' = [m_active EXCEPT ![m_processes[i + 1]] = FALSE,
                                      ![m_processes[j + 1]] = TRUE]
      /\ KeyboardReturn
      /\ UNCHANGED <<table, reading, line, dispatch>>
  BY DEF SwitchTerminal
<1>3. i \in Nat /\ j \in Nat /\ j + 1 \in 1 .. Len(m_processes)
  BY <1>1, <1>2 DEF ConsoleType, TableType
<1>4. m_processes[j + 1] \in Process
  BY <1>1, <1>3 DEF TableType
<1> HIDE DEF j
<1>5. ConsoleType'
  BY <1>1, <1>2, <1>3, <1>4 DEF ConsoleType
<1> QED BY <1>2, <1>5, QuietStep

(* Enter fills the buffer and may set the process running. *)
LEMMA KeyEnterStep ==
  ASSUME IInv, NEW p \in Process, KeyEnter(p)
  PROVE  IInv'
<1>1. TableType /\ ReadingType /\ ConsoleType /\ DispatchType
  BY TypeParts DEF IInv
<1>2. /\ m_userland
      /\ Live(p)
      /\ m_sys_read_count[p] > 0
      /\ m_sys_read_buffer[p] # NoBuffer
      /\ line' = [line EXCEPT ![p] = 0]
      /\ flush_input_buffer(p, m_input_buffer[p] + line[p] + 1,
                            m_sys_read_count[p], state[p],
                            m_sys_read_buffer[p])
      /\ cr3' = Current
      /\ UNCHANGED <<mode, table, m_sys_read_buffer, m_active,
                     m_active_terminal, active_terminal_process_index,
                     dispatch>>
  BY DEF KeyEnter, KeyFor, Live, KeyboardReturn
<1>3. state[p] = "blocked" /\ p # Idle
  BY <1>2 DEF IInv, ReadRequestConsistent, ListOK
<1>4. m_sys_read_buffer[p] \in Thread
  BY <1>1, <1>2 DEF ReadingType
<1>5. m_input_buffer[p] + line[p] + 1 \in Nat /\ m_sys_read_count[p] \in Nat
  BY <1>1, LineAssumption DEF ReadingType, ConsoleType
<1>6. /\ state' \in [Process -> {"running", "blocked", "deleted"}]
      /\ m_sys_read_count' \in [Process -> Nat]
      /\ m_input_buffer' \in [Process -> Nat]
      /\ unfilled' \in [Process -> SUBSET Thread]
      /\ ReadRequestConsistent'
      /\ \A q \in Process : Live(q)' <=> Live(q)
      /\ \A q \in Process : q # p => state'[q] = state[q]
  BY <1>2, <1>3, <1>4, <1>5, FlushStep
<1>7. m_process_index < Len(m_processes) /\ Current \in Process
  <2>1. m_process_index + 1 \in 1 .. Len(m_processes)
    BY <1>1, <1>2 DEF IInv, CurrentThreadRuns, TableType, DispatchType
  <2> QED BY <1>1, <2>1 DEF TableType, DispatchType, Current
<1>8. TypeOK'
  <2>1. line' \in [Process -> 0 .. MaxLine]
    BY <1>1, <1>2, LineAssumption DEF ConsoleType
  <2> QED BY <1>1, <1>2, <1>6, <1>7, <2>1
          DEF TypeOK, TableType, ReadingType, ConsoleType, DispatchType,
              table, dispatch
<1>9. ListOK'
  <2>1. Idle \in Process
    BY ProcessAssumption DEF Idle, Process
  <2> QED BY <1>2, <1>3, <1>6, <2>1 DEF IInv, ListOK, Live, table
<1>10. MainThreadFirst' /\ BeforeUserland' /\ KernelKeepsRunning'
  BY <1>2, <1>6 DEF IInv, MainThreadFirst, BeforeUserland, KernelKeepsRunning,
                    Live, table, dispatch
<1>11. CurrentThreadRuns'
  BY <1>2, <1>6, <1>7 DEF IInv, CurrentThreadRuns, Current, CurrentThread,
                          Live, table, dispatch
<1>12. MainNeverRunsBlocked'
  BY <1>2, <1>3, <1>6 DEF IInv, MainNeverRunsBlocked, dispatch
<1> QED BY <1>6, <1>8, <1>9, <1>10, <1>11, <1>12 DEF IInv

(* No key disturbs the invariant. *)
LEMMA KeyStep ==
  ASSUME IInv, NEW p \in Process,
         KeyIgnored(p) \/ KeyChar(p) \/ KeyBackspace(p) \/ KeyEnterDangling(p)
  PROVE  IInv'
<1>1. ConsoleType
  BY TypeParts DEF IInv
<1>2. /\ KeyboardReturn
      /\ UNCHANGED <<table, m_sys_read_buffer, m_active, m_active_terminal,
                     active_terminal_process_index, dispatch>>
      /\ mode = "run"
  BY DEF KeyIgnored, KeyChar, KeyBackspace, KeyEnterDangling, KeyFor
<1>3. /\ UNCHANGED <<state, m_sys_read_count, m_input_buffer, unfilled>>
      /\ mode' \in {"run", "wild"}
  BY <1>2 DEF KeyIgnored, KeyChar, KeyBackspace, KeyEnterDangling, NoDelivery
<1>4. line' \in [Process -> 0 .. MaxLine]
  <2>1. CASE KeyChar(p)
    BY <1>1, <2>1, LineAssumption DEF ConsoleType, KeyChar
  <2>2. CASE KeyBackspace(p)
    BY <1>1, <2>2, LineAssumption DEF ConsoleType, KeyBackspace
  <2>3. CASE UNCHANGED line
    BY <1>1, <2>3 DEF ConsoleType
  <2> QED BY <2>1, <2>2, <2>3 DEF KeyIgnored, KeyEnterDangling
<1>5. ConsoleType'
  BY <1>1, <1>2, <1>4 DEF ConsoleType
<1>6. UNCHANGED <<table, reading, dispatch>>
  BY <1>2, <1>3 DEF reading
<1> QED BY <1>2, <1>3, <1>5, <1>6, QuietStep

(* Nor do the steps that follow a stale index or pointer. *)
LEMMA StaleStep == IInv /\ (SwitchTerminalStale \/ KeyForDeleted) => IInv'
<1> SUFFICES ASSUME IInv, SwitchTerminalStale \/ KeyForDeleted PROVE IInv'
  OBVIOUS
<1>1. ConsoleType
  BY TypeParts DEF IInv
<1>2. /\ UNCHANGED <<table, reading, console, dispatch>>
      /\ mode' \in {"run", "wild"}
      /\ KeyboardReturn \/ cr3' = cr3
  BY DEF SwitchTerminalStale, KeyForDeleted
<1>3. ConsoleType'
  BY <1>1, <1>2 DEF ConsoleType, console
<1> QED BY <1>2, <1>3, QuietStep

(* IInv is inductive. *)
LEMMA NextInvariant == IInv /\ [Next]_vars => IInv'
<1> SUFFICES ASSUME IInv, [Next]_vars PROVE IInv'
  OBVIOUS
<1>1. CASE timer_handler
  BY <1>1, TimerStep
<1>2. CASE sys_exit \/ page_fault_handler
  BY <1>2, ExitStep
<1>3. CASE \E count \in ReadSizes : sys_read(count)
  BY <1>3, ReadStep
<1>4. CASE \E t \in Workers : sys_thread(t)
  BY <1>4, ThreadStep
<1>5. CASE sys_return
  BY <1>5, ReturnStep
<1>6. CASE keyboard_handler
  BY <1>6, SwitchTerminalStep, StaleStep, KeyStep, KeyEnterStep
     DEF keyboard_handler
<1>7. CASE UNCHANGED vars
  BY <1>7, ZenonT(40) DEF vars, IInv, TypeOK, ListOK, MainThreadFirst, CurrentThreadRuns,
              BeforeUserland, KernelKeepsRunning, ReadRequestConsistent,
              MainNeverRunsBlocked, Live, Current, CurrentThread,
              table, reading, console, dispatch
<1> QED BY <1>1, <1>2, <1>3, <1>4, <1>5, <1>6, <1>7 DEF Next

(* The inductive invariant holds in every reachable state. *)
THEOREM Invariance == Spec => []IInv
BY InitInvariant, NextInvariant, PTL DEF Spec

-----------------------------------------------------------------------------
(* The theorems for any programs. *)

(* Every variable keeps its type through every interleaving of handlers. *)
THEOREM TypeCorrect == Spec => []TypeOK
<1>1. IInv => TypeOK
  BY DEF IInv
<1> QED BY <1>1, Invariance, PTL

(* The indices of the dispatcher always name the executing thread: no      *)
(* termination, of any process or thread, can make the next handler save   *)
(* registers into, block or delete another one.                            *)
THEOREM IndicesNameTheThread == Spec => []CurrentThreadRuns
<1>1. IInv => CurrentThreadRuns
  BY DEF IInv
<1> QED BY <1>1, Invariance, PTL

(* With the idle process created last the scheduler never panics and never *)
(* spins with interrupts disabled.                                         *)
THEOREM SchedulerKeepsRunning == Spec => []KernelKeepsRunning
<1>1. IInv => KernelKeepsRunning
  BY DEF IInv
<1> QED BY <1>1, Invariance, PTL

(* The main thread stays the first of its process. *)
THEOREM MainStaysFirst == Spec => []MainThreadFirst
<1>1. IInv => MainThreadFirst
  BY DEF IInv
<1> QED BY <1>1, Invariance, PTL

(* "blocked" and "a read is missing characters" are the same at all times, *)
(* and a blocked main thread waits until its process is set running.       *)
THEOREM BlockedMeansReading == Spec => []BlockedUntilRead
<1>1. IInv => BlockedUntilRead
  BY DEF IInv, BlockedUntilRead
<1> QED BY <1>1, Invariance, PTL

-----------------------------------------------------------------------------
(* What holds when, as in the programs under user/, only main threads read *)
(* and every read asks for something.                                      *)

MainReads == Readers = {Main} /\ 0 \notin ReadSizes

(* The buffer of a pending read is that of the main thread, and only a     *)
(* pending read leaves a buffer unfilled.                                  *)
PendingInv ==
  \A p \in Process :
    Live(p) => /\ unfilled[p] \subseteq {Main}
               /\ Main \in unfilled[p] => m_sys_read_count[p] > 0
               /\ m_sys_read_count[p] > 0 => m_sys_read_buffer[p] = Main

(* Nothing is pending at the start. *)
LEMMA PendingInit == Init => PendingInv
BY DEF Init, PendingInv

(* A flush on behalf of the main thread keeps it. *)
LEMMA PendingFlush ==
  ASSUME IInv, PendingInv, NEW p \in Process, Live(p), p # Idle,
         NEW have \in Nat, NEW want \in Nat,
         flush_input_buffer(p, have, want, "blocked", Main),
         m_sys_read_buffer' = [m_sys_read_buffer EXCEPT ![p] = Main]
  PROVE  PendingInv'
<1>1. ReadingType
  BY TypeParts DEF IInv
<1>2. Main \in Thread
  BY DEF Thread
<1>3. \A q \in Process : Live(q)' <=> Live(q)
  BY <1>2, FlushStep
<1> DEFINE left == want - Min({have, want})
<1>4. /\ m_sys_read_count' = [m_sys_read_count EXCEPT ![p] = left]
      /\ unfilled' = [unfilled EXCEPT ![p] = IF left = 0 THEN @ \ {Main}
                                                       ELSE @ \cup {Main}]
  BY DEF flush_input_buffer
<1>5. left \in Nat
  BY MinOfTwo
<1> HIDE DEF left
<1> SUFFICES ASSUME NEW q \in Process, Live(q)
             PROVE  /\ unfilled'[q] \subseteq {Main}
                    /\ Main \in unfilled'[q] => m_sys_read_count'[q] > 0
                    /\ m_sys_read_count'[q] > 0 => m_sys_read_buffer'[q] = Main
  BY <1>3 DEF PendingInv, Live
<1>6. CASE q # p
  <2>1. /\ unfilled'[q] = unfilled[q]
        /\ m_sys_read_count'[q] = m_sys_read_count[q]
        /\ m_sys_read_buffer'[q] = m_sys_read_buffer[q]
    BY <1>1, <1>4, <1>6 DEF ReadingType
  <2> QED BY <2>1 DEF PendingInv
<1>7. CASE q = p
  <2>1. /\ m_sys_read_count'[p] = left
        /\ m_sys_read_buffer'[p] = Main
        /\ unfilled'[p] = IF left = 0 THEN unfilled[p] \ {Main}
                                      ELSE unfilled[p] \cup {Main}
    BY <1>1, <1>4 DEF ReadingType
  <2> QED BY <1>5, <1>7, <2>1 DEF PendingInv
<1> QED BY <1>6, <1>7

(* Every step keeps PendingInv. *)
LEMMA PendingStep ==
  ASSUME MainReads, IInv, PendingInv, [Next]_vars
  PROVE  PendingInv'
<1>1. ReadingType /\ ConsoleType
  BY TypeParts DEF IInv
<1>2. CASE InSyscall /\ terminate_process(m_process_index)
  <2>1. Current \in Process
    BY <1>2, CallerIsCurrent
  <2> QED BY <1>1, <1>2, <2>1
          DEF PendingInv, Live, terminate_process, Current, ReadingType
<1>3. CASE /\ InSyscall
           /\ CurrentThread # Main
           /\ terminate_thread(Current, m_thread_index)
  <2>1. Current \in Process
    BY <1>3, CallerIsCurrent
  <2>2. /\ m_sys_read_buffer' =
             [m_sys_read_buffer EXCEPT
                ![Current] = IF @ = CurrentThread THEN NoBuffer ELSE @]
        /\ unfilled' = [unfilled EXCEPT ![Current] = @ \ {CurrentThread}]
        /\ UNCHANGED <<state, m_sys_read_count>>
    BY <1>3 DEF terminate_thread, CurrentThread
  <2> QED BY <1>1, <1>3, <2>1, <2>2 DEF PendingInv, Live, ReadingType
<1>4. ASSUME NEW count \in ReadSizes, sys_read(count)
      PROVE  PendingInv'
  <2>1. /\ Current \in Process
        /\ Current # Idle
        /\ Live(Current)
    BY <1>4, CallerIsCurrent DEF sys_read
  <2>2. cpu[2] = Main
    BY <1>4 DEF sys_read, MainReads
  <2>3. count \in Nat /\ m_input_buffer[Current] \in Nat
    BY <1>1, <2>1, ReadAssumption DEF ReadingType
  <2> QED BY <1>4, <2>1, <2>2, <2>3, PendingFlush DEF sys_read
<1>5. ASSUME NEW p \in Process, KeyEnter(p)
      PROVE  PendingInv'
  <2>1. /\ Live(p)
        /\ m_sys_read_count[p] > 0
        /\ m_sys_read_buffer' = m_sys_read_buffer
    BY <1>5 DEF KeyEnter, KeyFor, Live
  <2>2. /\ state[p] = "blocked"
        /\ p # Idle
        /\ m_sys_read_buffer[p] = Main
        /\ m_sys_read_buffer' = [m_sys_read_buffer EXCEPT ![p] = Main]
    BY <1>1, <2>1 DEF IInv, ReadRequestConsistent, ListOK, PendingInv,
                      ReadingType
  <2>3. /\ m_input_buffer[p] + line[p] + 1 \in Nat
        /\ m_sys_read_count[p] \in Nat
    BY <1>1, LineAssumption DEF ReadingType, ConsoleType
  <2> QED BY <1>5, <2>1, <2>2, <2>3, PendingFlush DEF KeyEnter
<1>6. CASE UNCHANGED reading
  BY <1>6 DEF PendingInv, Live, reading
<1>7. CASE sys_exit \/ page_fault_handler
  BY <1>2, <1>3, <1>7 DEF sys_exit, page_fault_handler
<1>8. CASE keyboard_handler
  <2>1. ASSUME NEW p \in Process,
               \/ KeyIgnored(p) \/ KeyChar(p)
               \/ KeyBackspace(p) \/ KeyEnterDangling(p)
        PROVE  UNCHANGED reading
    BY <2>1 DEF KeyIgnored, KeyChar, KeyBackspace, KeyEnterDangling, KeyFor,
                NoDelivery, reading
  <2> QED BY <1>5, <1>6, <1>8, <2>1
          DEF keyboard_handler, SwitchTerminal, SwitchTerminalStale,
              KeyForDeleted
<1> QED BY <1>4, <1>6, <1>7, <1>8
        DEF Next, timer_handler, sys_thread, sys_return, vars

(* getch returns only with its character, in every process and whatever    *)
(* threads of its own process run, exit or fault meanwhile.                *)
THEOREM ReadsAreFilled ==
  ASSUME MainReads
  PROVE  Spec => []ReadReturnsFilled
<1>1. IInv /\ PendingInv => ReadReturnsFilled
  <2> SUFFICES ASSUME IInv, PendingInv, NEW p \in Process, NEW t \in Thread,
                      cpu = <<p, t>>, t \in unfilled[p]
               PROVE  FALSE
    BY DEF ReadReturnsFilled
  <2>1. m_userland
    BY DEF IInv, BeforeUserland, KMain
  <2>2. Live(p)
    BY <2>1 DEF IInv, CurrentThreadRuns
  <2>3. t = Main /\ m_sys_read_count[p] > 0
    BY <2>2 DEF PendingInv
  <2> QED BY <2>2, <2>3 DEF IInv, ReadRequestConsistent, MainNeverRunsBlocked
<1>2. IInv /\ PendingInv /\ [Next]_vars => PendingInv'
  BY PendingStep
<1> QED BY <1>1, <1>2, PendingInit, Invariance, PTL DEF Spec

(* Only the Enter key of its own terminal sets a waiting process running.  *)
THEOREM OnlyEnterWakes ==
  ASSUME MainReads
  PROVE  Spec => WokenByOwnTerminal
<1>1. ASSUME IInv, [Next]_vars, NEW p \in Process,
             state[p] = "blocked", state'[p] = "running"
      PROVE  m_active_terminal = p /\ line'[p] = 0
  <2>1. ReadingType /\ ConsoleType
    BY <1>1, TypeParts DEF IInv
  <2>2. CASE UNCHANGED state
    BY <1>1, <2>2
  <2>3. CASE sys_exit \/ page_fault_handler
    <3>1. Current \in Process
      BY <1>1, <2>3, CallerIsCurrent DEF sys_exit, page_fault_handler
    <3> QED BY <1>1, <2>1, <2>3, <3>1
            DEF sys_exit, page_fault_handler, terminate_process,
                terminate_thread, ReadingType, Current
  <2>4. ASSUME NEW count \in ReadSizes, sys_read(count)
        PROVE  FALSE
    <3>1. /\ Current \in Process
          /\ Current # Idle
          /\ Live(Current)
          /\ cpu = <<Current, CurrentThread>>
      BY <1>1, <2>4, CallerIsCurrent DEF sys_read
    <3>2. cpu = <<Current, Main>>
      BY <2>4, <3>1 DEF sys_read, MainReads
    <3>3. state[Current] # "blocked"
      BY <1>1, <3>1, <3>2 DEF IInv, MainNeverRunsBlocked
    <3>4. p # Current
      BY <1>1, <3>3
    <3>5. state'[p] = state[p]
      BY <2>1, <2>4, <3>1, <3>4
         DEF sys_read, flush_input_buffer, ReadingType
    <3> QED BY <1>1, <3>5
  <2>5. ASSUME NEW q \in Process, KeyEnter(q)
        PROVE  m_active_terminal = p /\ line'[p] = 0
    <3>1. /\ q = m_active_terminal
          /\ line' = [line EXCEPT ![q] = 0]
      BY <2>5 DEF KeyEnter, KeyFor
    <3>2. p = q
      BY <1>1, <2>1, <2>5 DEF KeyEnter, flush_input_buffer, ReadingType
    <3> QED BY <2>1, <3>1, <3>2 DEF ConsoleType
  <2>6. CASE keyboard_handler
    <3>1. ASSUME NEW q \in Process,
                 \/ KeyIgnored(q) \/ KeyChar(q)
                 \/ KeyBackspace(q) \/ KeyEnterDangling(q)
          PROVE  UNCHANGED state
      BY <3>1 DEF KeyIgnored, KeyChar, KeyBackspace, KeyEnterDangling,
                  NoDelivery
    <3> QED BY <2>2, <2>5, <2>6, <3>1
            DEF keyboard_handler, SwitchTerminal, SwitchTerminalStale,
                KeyForDeleted, reading
  <2> QED BY <1>1, <2>2, <2>3, <2>4, <2>6
          DEF Next, timer_handler, sys_thread, sys_return, vars, reading
<1>2. IInv /\ [Next]_vars =>
        [\A p \in Process :
           state[p] = "blocked" /\ state'[p] = "running"
             => m_active_terminal = p /\ line'[p] = 0]_vars
  BY <1>1
<1> QED BY <1>2, Invariance, PTL DEF Spec, WokenByOwnTerminal

(* No unfinished line is left behind where the keys that finish it would   *)
(* be ignored: nothing but Enter ends a read of a main thread.             *)
THEOREM LinesBelongToReads ==
  ASSUME MainReads
  PROVE  Spec => []LineBelongsToRead
<1>1. Init => LineBelongsToRead
  BY DEF Init, LineBelongsToRead
<1>2. IInv /\ LineBelongsToRead /\ [Next]_vars => LineBelongsToRead'
  <2> SUFFICES ASSUME IInv, LineBelongsToRead, [Next]_vars,
                      NEW p \in Process, Live(p)', line'[p] > 0
               PROVE  m_sys_read_count'[p] > 0
    BY DEF LineBelongsToRead
  <2>1. ReadingType /\ ConsoleType
    BY TypeParts DEF IInv
  <2>2. CASE UNCHANGED <<state, m_sys_read_count, line>>
    BY <2>2 DEF LineBelongsToRead, Live
  <2>3. CASE sys_exit \/ page_fault_handler
    <3>1. Current \in Process /\ line' = line
      BY <2>3, CallerIsCurrent DEF sys_exit, page_fault_handler, console
    <3>2. /\ state'[p] = state[p]
          /\ m_sys_read_count'[p] = m_sys_read_count[p]
      BY <2>1, <2>3, <3>1
         DEF sys_exit, page_fault_handler, terminate_process,
             terminate_thread, ReadingType, Current, Live
    <3> QED BY <3>1, <3>2 DEF LineBelongsToRead, Live
  <2>4. ASSUME NEW count \in ReadSizes, sys_read(count)
        PROVE  m_sys_read_count'[p] > 0
    <3>1. /\ Current \in Process
          /\ Live(Current)
          /\ cpu = <<Current, Main>>
          /\ line' = line
      BY <2>4, CallerIsCurrent DEF sys_read, MainReads, console
    <3>2. state[Current] # "blocked"
      BY <3>1 DEF IInv, MainNeverRunsBlocked
    <3>3. ~(m_sys_read_count[Current] > 0)
      BY <3>1, <3>2 DEF IInv, ReadRequestConsistent
    <3>4. p # Current
      BY <3>1, <3>3 DEF LineBelongsToRead
    <3>5. /\ state'[p] = state[p]
          /\ m_sys_read_count'[p] = m_sys_read_count[p]
      BY <2>1, <2>4, <3>1, <3>4
         DEF sys_read, flush_input_buffer, ReadingType
    <3> QED BY <3>1, <3>5 DEF LineBelongsToRead, Live
  <2>5. ASSUME NEW q \in Process, KeyEnter(q)
        PROVE  m_sys_read_count'[p] > 0
    <3>1. line' = [line EXCEPT ![q] = 0]
      BY <2>5 DEF KeyEnter
    <3>2. p # q /\ line'[p] = line[p]
      BY <2>1, <3>1 DEF ConsoleType
    <3>3. /\ state'[p] = state[p]
          /\ m_sys_read_count'[p] = m_sys_read_count[p]
      BY <2>1, <2>5, <3>2 DEF KeyEnter, flush_input_buffer, ReadingType
    <3> QED BY <3>2, <3>3 DEF LineBelongsToRead, Live
  <2>6. ASSUME NEW q \in Process, KeyChar(q) \/ KeyBackspace(q)
        PROVE  m_sys_read_count'[p] > 0
    <3>1. /\ m_sys_read_count[q] > 0
          /\ UNCHANGED <<state, m_sys_read_count>>
          /\ \/ line' = [line EXCEPT ![q] = @ + 1]
             \/ line' = [line EXCEPT ![q] = @ - 1]
      BY <2>6 DEF KeyChar, KeyBackspace, NoDelivery
    <3>2. CASE p = q
      BY <3>1, <3>2
    <3>3. CASE p # q
      <4>1. line'[p] = line[p]
        BY <2>1, <3>1, <3>3 DEF ConsoleType
      <4> QED BY <3>1, <4>1 DEF LineBelongsToRead, Live
    <3> QED BY <3>2, <3>3
  <2>7. CASE keyboard_handler
    <3>1. ASSUME NEW q \in Process, KeyIgnored(q) \/ KeyEnterDangling(q)
          PROVE  UNCHANGED <<state, m_sys_read_count, line>>
      BY <3>1 DEF KeyIgnored, KeyEnterDangling, NoDelivery
    <3> QED BY <2>2, <2>5, <2>6, <2>7, <3>1
            DEF keyboard_handler, SwitchTerminal, SwitchTerminalStale,
                KeyForDeleted, reading, console
  <2> QED BY <2>2, <2>3, <2>4, <2>7
          DEF Next, timer_handler, sys_thread, sys_return, vars, reading,
              console
<1> QED BY <1>1, <1>2, Invariance, PTL DEF Spec

-----------------------------------------------------------------------------
(* The console. *)

AllLive == \A p \in Process : Live(p)

FocusInv ==
  /\ FocusIsDisplayed
  /\ StaleOnlyAfterExit
  /\ OneDisplayUntilExit
  /\ AllLive =>
       /\ active_terminal_process_index < Len(m_processes)
       /\ m_active_terminal = m_processes[active_terminal_process_index + 1]

(* The first terminal has the focus at the start. *)
LEMMA FocusInit == Init => FocusInv
<1> SUFFICES ASSUME Init PROVE FocusInv
  OBVIOUS
<1>1. /\ 0 \in Process
      /\ Len(m_processes) = NumUser + 1
      /\ m_processes[0 + 1] = 0
  BY ProcessAssumption DEF Init, Process
<1>2. \A p \in Process : m_active[p] = (p = 0)
  BY DEF Init
<1>3. m_active_terminal = 0 /\ active_terminal_process_index = 0
  BY DEF Init
<1>4. FocusIsDisplayed
  BY <1>1, <1>2, <1>3, Zenon DEF FocusIsDisplayed
<1>5. OneDisplayUntilExit
  BY <1>1, <1>2, <1>3, Zenon DEF OneDisplayUntilExit
<1>6. StaleOnlyAfterExit
  BY DEF Init, StaleOnlyAfterExit
<1>7. 0 < Len(m_processes)
  BY <1>1, ProcessAssumption
<1> QED BY <1>1, <1>3, <1>4, <1>5, <1>6, <1>7 DEF FocusInv

(* A step that leaves the console and the list alone.                      *)
LEMMA FocusFrame ==
  ASSUME FocusInv, UNCHANGED <<m_active, m_active_terminal,
                               active_terminal_process_index>>,
         AllLive' => AllLive /\ m_processes' = m_processes /\ mode' # "wild"
  PROVE  FocusInv'
<1>1. FocusIsDisplayed'
  BY DEF FocusInv, FocusIsDisplayed
<1>2. StaleOnlyAfterExit'
  BY DEF StaleOnlyAfterExit, AllLive, Live
<1>3. OneDisplayUntilExit'
  BY DEF FocusInv, OneDisplayUntilExit, AllLive, Live
<1> QED BY <1>1, <1>2, <1>3 DEF FocusInv, AllLive, Live

(* Shift+Tab passes the focus on. *)
LEMMA FocusSwitch ==
  ASSUME IInv, FocusInv, SwitchTerminal
  PROVE  FocusInv'
<1> DEFINE i == active_terminal_process_index
           j == IF i + 1 = Len(m_processes) THEN 0 ELSE i + 1
<1>1. TableType /\ ConsoleType
  BY TypeParts DEF IInv
<1>2. /\ i < Len(m_processes)
      /\ mode = "run" /\ mode' = "run"
      /\ active_terminal_process_index' = j
      /\ m_active_terminal' = m_processes[j + 1]
      /\ m_active' = [m_active EXCEPT ![m_processes[i + 1]] = FALSE,
                                      ![m_processes[j + 1]] = TRUE]
      /\ m_processes' = m_processes
      /\ state' = state
  BY DEF SwitchTerminal, table, reading
<1>3. /\ i \in Nat
      /\ i + 1 \in 1 .. Len(m_processes)
      /\ j + 1 \in 1 .. Len(m_processes)
      /\ j < Len(m_processes)
  BY <1>1, <1>2, SMTT(30) DEF TableType, ConsoleType
<1>4. m_processes[i + 1] \in Process /\ m_processes[j + 1] \in Process
  BY <1>1, <1>3 DEF TableType
<1> HIDE DEF j
<1>5. \A p \in Process :
        m_active'[p] = IF p = m_processes[j + 1] THEN TRUE
                       ELSE IF p = m_processes[i + 1] THEN FALSE
                       ELSE m_active[p]
  BY <1>1, <1>2, <1>4 DEF ConsoleType
<1>6. FocusIsDisplayed'
  BY <1>2, <1>4, <1>5 DEF FocusIsDisplayed
<1>7. AllLive => \A p \in Process : m_active'[p] <=> p = m_processes[j + 1]
  BY <1>5 DEF FocusInv, OneDisplayUntilExit, AllLive
<1>8. OneDisplayUntilExit'
  BY <1>2, <1>7 DEF OneDisplayUntilExit, AllLive, Live
<1> QED BY <1>2, <1>3, <1>6, <1>8
        DEF FocusInv, StaleOnlyAfterExit, AllLive, Live

(* Every step keeps FocusInv. *)
LEMMA FocusStep ==
  ASSUME MainReads, IInv, PendingInv, FocusInv, [Next]_vars
  PROVE  FocusInv'
<1>1. CASE timer_handler
  BY <1>1, TimerStep, FocusFrame
     DEF timer_handler, table, reading, console, AllLive, Live
<1>2. CASE sys_exit \/ page_fault_handler
  <2>1. InSyscall /\ Current \in Process
    BY <1>2, CallerIsCurrent DEF sys_exit, page_fault_handler
  <2>2. CASE terminate_process(m_process_index)
    <3>1. state'[Current] = "deleted"
      <4>1. ReadingType
        BY TypeParts DEF IInv
      <4> QED BY <2>1, <2>2, <4>1 DEF terminate_process, Current, ReadingType
    <3>2. ~ AllLive'
      BY <2>1, <3>1 DEF AllLive, Live
    <3> QED BY <1>2, <3>2, FocusFrame
            DEF sys_exit, page_fault_handler, console
  <2>3. CASE terminate_thread(Current, m_thread_index)
    BY <1>2, <2>3, ExitStep, FocusFrame
       DEF terminate_thread, sys_exit, page_fault_handler, console,
           AllLive, Live
  <2> QED BY <1>2, <2>2, <2>3 DEF sys_exit, page_fault_handler
<1>3. ASSUME NEW count \in ReadSizes, sys_read(count)
      PROVE  FocusInv'
  <2>1. mode' = "run"
    BY <1>3, ReadStep
  <2>2. AllLive' => AllLive
    <3>1. /\ Current \in Process
          /\ Current # Idle
          /\ Live(Current)
          /\ cpu[2] \in Thread
      BY <1>3, CallerIsCurrent DEF sys_read
    <3>2. ReadingType
      BY TypeParts DEF IInv
    <3>3. count \in Nat /\ m_input_buffer[Current] \in Nat
      BY <3>1, <3>2, ReadAssumption DEF ReadingType
    <3>4. \A q \in Process : Live(q)' <=> Live(q)
      BY <1>3, <3>1, <3>3, FlushStep DEF sys_read
    <3> QED BY <3>4 DEF AllLive, Live
  <2> QED BY <1>3, <2>1, <2>2, FocusFrame DEF sys_read, console, table
<1>4. CASE \/ \E t \in Workers : sys_thread(t)
           \/ sys_return
           \/ UNCHANGED vars
  <2>1. AllLive => mode # "wild"
    BY DEF FocusInv, StaleOnlyAfterExit, AllLive
  <2> QED BY <1>4, <2>1, FocusFrame
          DEF sys_thread, sys_return, vars, table, reading, console,
              AllLive, Live
<1>5. CASE SwitchTerminal
  BY <1>5, FocusSwitch
<1>6. CASE SwitchTerminalStale \/ KeyForDeleted
  <2>1. ~ AllLive
    <3>1. CASE SwitchTerminalStale
      <4>1. TableType /\ ConsoleType
        BY TypeParts DEF IInv
      <4> QED BY <3>1, <4>1
              DEF SwitchTerminalStale, FocusInv, TableType, ConsoleType
    <3>2. CASE KeyForDeleted
      <4>1. ConsoleType
        BY TypeParts DEF IInv
      <4> QED BY <3>2, <4>1 DEF KeyForDeleted, AllLive, Live, ConsoleType
    <3> QED BY <1>6, <3>1, <3>2
  <2> QED BY <1>6, <2>1, FocusFrame
          DEF SwitchTerminalStale, KeyForDeleted, console, reading,
              AllLive, Live
<1>7. ASSUME NEW p \in Process,
             KeyIgnored(p) \/ KeyChar(p) \/ KeyBackspace(p)
      PROVE  FocusInv'
  BY <1>7, FocusFrame
     DEF KeyIgnored, KeyChar, KeyBackspace, KeyFor, NoDelivery, table,
         AllLive, Live
<1>8. ASSUME NEW p \in Process, KeyEnter(p)
      PROVE  FocusInv'
  <2>1. UNCHANGED <<mode, table, m_active, m_active_terminal,
                    active_terminal_process_index>> /\ mode = "run"
    BY <1>8 DEF KeyEnter, KeyFor
  <2>2. AllLive' => AllLive
    <3>1. ReadingType
      BY TypeParts DEF IInv
    <3> QED BY <1>8, <3>1
            DEF KeyEnter, KeyFor, flush_input_buffer, AllLive, Live,
                ReadingType
  <2> QED BY <2>1, <2>2, FocusFrame DEF table
<1>9. ASSUME NEW p \in Process, KeyEnterDangling(p)
      PROVE  FALSE
  <2>1. Live(p) /\ m_sys_read_buffer[p] = Main
    BY <1>9 DEF KeyEnterDangling, KeyFor, PendingInv, Live
  <2> QED BY <1>9, <2>1, BufferAssumption DEF KeyEnterDangling, Thread
<1> QED BY <1>1, <1>2, <1>3, <1>4, <1>5, <1>6, <1>7, <1>8, <1>9
        DEF Next, keyboard_handler

(* The keys always go to a terminal that draws; as long as no process has  *)
(* ended, exactly one draws and no stale index or pointer is followed.     *)
THEOREM FocusIsConsistent ==
  ASSUME MainReads
  PROVE  Spec => []FocusUntilExit
<1>1. FocusInv => FocusUntilExit
  BY DEF FocusInv, FocusUntilExit
<1>2. IInv /\ PendingInv /\ [Next]_vars => PendingInv'
  BY PendingStep
<1>3. IInv /\ PendingInv /\ FocusInv /\ [Next]_vars => FocusInv'
  BY FocusStep
<1> QED BY <1>1, <1>2, <1>3, PendingInit, FocusInit, Invariance, PTL DEF Spec

=============================================================================
