----------------------------- MODULE DnsProofs ------------------------------
(***************************************************************************)
(* Theorems about the DNS server of the FreeRTOS build, for packets and    *)
(* names of any size, any hosts and any length of their list.              *)
(*                                                                         *)
(* DnsQuery: while the call runs, its history holds the lengths of the     *)
(* labels read so far, name holds their bytes, and every name the packet   *)
(* can have begins with them (OnTheWay).  That the next byte belongs to    *)
(* every such name is what makes each refusal right.                       *)
(*                                                                         *)
(* DnsServerTask: the mutex is held by who is between taking and giving    *)
(* it, and what there is of a server that is started or stopped is known.  *)
(***************************************************************************)
EXTENDS MCDnsServer, ListTheorems

-----------------------------------------------------------------------------
(* DnsQuery.                                                               *)

\* While the name is read, the lables before ptr are a chain and spell it, and a
\* chain to an end goes through ptr.
OnTheWay ==
  result = 0 =>
    /\ IsChain(lengths, ptr + 1)
    /\ name = NameOf(lengths, ptr + 1)
    /\ lables = 0 <=> ptr = 0
    /\ \A S \in SUBSET DOMAIN data : \A e \in S :
         IsChain(S, e) /\ At(e) = 0 => ptr + 1 \in S /\ ptr + 1 <= e

\* The inductive invariant of the parser.
IInv ==
  /\ TypeOK
  /\ ptr + size = Len(data)
  /\ NameFits
  /\ OnTheWay
  /\ ParsesQuery

\* The packet is a sequence of labels and bytes.
LEMMA PacketType ==
  ASSUME NEW d \in Packets
  PROVE  /\ d \in Seq(Byte)
         /\ Len(d) \in Nat \ {0}
         /\ DOMAIN d = 1 .. Len(d)
         /\ \A k \in DOMAIN d : d[k] \in Nat
<1>1. PICK n \in 1 .. MaxSize : d \in [1 .. n -> Byte]
  BY DEF Packets
<1>2. n \in Nat \ {0} /\ DOMAIN d = 1 .. n
  BY <1>1, QueryAssumption
<1>3. d \in Seq(Byte) /\ Len(d) = n
  BY <1>1, <1>2
<1>4. \A k \in DOMAIN d : d[k] \in Nat
  BY <1>1, QueryAssumption
<1>. QED
  BY <1>2, <1>3, <1>4

\* At first nothing is parsed.
LEMMA InitIInv == Init => IInv
<1>. SUFFICES ASSUME Init PROVE IInv
  OBVIOUS
<1>1. Len(data) \in Nat \ {0} /\ DOMAIN data = 1 .. Len(data)
  BY PacketType DEF Init
<1>2. TypeOK
  BY <1>1 DEF Init, TypeOK
<1>3. NameFits
  BY QueryAssumption DEF Init, NameFits
<1>4. IsChain(lengths, ptr + 1)
  BY DEF Init, IsChain
<1>5. name = NameOf(lengths, ptr + 1)
  BY DEF Init, NameOf
<1>6. \A S \in SUBSET DOMAIN data : \A e \in S :
        IsChain(S, e) => ptr + 1 \in S /\ ptr + 1 <= e
  BY <1>1 DEF Init, IsChain
<1>. QED
  BY <1>1, <1>2, <1>3, <1>4, <1>5, <1>6 DEF Init, IInv, OnTheWay, ParsesQuery

\* What the invariant says of the name, with the dot for the next label.
LEMMA DottedName ==
  ASSUME IInv, result = 0
  PROVE  /\ Len(Dotted) = ptr
         /\ Dotted = [k \in 1 .. ptr |->
                        IF k + 1 \in lengths THEN Dot ELSE At(k + 1)]
         /\ Dotted \in Seq(Byte)
<1>. USE DEF IInv, TypeOK, OnTheWay
<1>1. CASE lables = 0
  <2>1. name = << >> /\ ptr = 0
    BY <1>1 DEF NameOf
  <2>. QED
    BY <1>1, <2>1 DEF Dotted
<1>2. CASE lables > 0
  <2>1. ptr \in Nat \ {0} /\ ptr + 1 \in lengths
    BY <1>2, PacketType DEF IsChain
  <2>2. name \in Seq(Byte) /\ Len(name) = ptr - 1
    BY <2>1 DEF NameOf
  <2>3. Dotted = Append(name, Dot)
    BY <1>2 DEF Dotted
  <2>4. Dotted \in Seq(Byte) /\ Len(Dotted) = ptr
    BY <2>1, <2>2, <2>3, QueryAssumption
  <2>5. ASSUME NEW k \in 1 .. ptr
        PROVE  Dotted[k] = IF k + 1 \in lengths THEN Dot ELSE At(k + 1)
    <3>1. CASE k = ptr
      BY <2>1, <2>2, <2>3, <3>1
    <3>2. CASE k < ptr
      <4>1. Dotted[k] = name[k] /\ k \in 1 .. (ptr + 1) - 2
        BY <2>1, <2>2, <2>3, <3>2
      <4>. QED
        BY <4>1 DEF NameOf
    <3>. QED
      BY <2>1, <3>1, <3>2
  <2>. QED
    BY <2>4, <2>5
<1>. QED
  BY <1>1, <1>2

\* A refused label is refused for every name the packet can have.
LEMMA Refused ==
  ASSUME IInv, LabelRefused
  PROVE  IInv'
<1>. USE DEF IInv, TypeOK, LabelRefused, Return
<1>1. lable_len \in Nat \ {0} /\ Len(data) \in Nat /\ DOMAIN data = 1 .. Len(data)
  BY PacketType DEF lable_len, At
<1>2. result' \in {-1, -2} /\ UNCHANGED <<data, ptr, size, name, lables, lengths>>
  BY DEF Verdict
<1>3. Len(Dotted) = ptr
  BY DottedName
<1>4. lables = 0 \/ Len(name) # NameMax
  BY QueryAssumption DEF NameFits
<1>5. ASSUME NEW S \in SUBSET DOMAIN data, NEW e \in S
      PROVE  ~IsQuery(S, e)
  <2>. SUFFICES ASSUME IsQuery(S, e) PROVE FALSE
    OBVIOUS
  <2>1. ptr + 1 \in S /\ ptr + 1 <= e /\ At(e) = 0
    BY DEF IsQuery, OnTheWay
  <2>2. ptr + 1 # e
    BY <2>1, <1>1 DEF lable_len
  <2>3. ptr + 1 + lable_len + 1 \in S
    BY <2>1, <2>2 DEF IsQuery, IsChain, lable_len
  <2>4. ptr + lable_len + 2 <= e /\ ptr + lable_len + 2 <= Len(data)
    BY <2>3, <1>1 DEF IsQuery, IsChain
  <2>5. ~IsCutOff
    BY <2>4, <1>1 DEF IsCutOff
  <2>6. IsTooLong(Dotted)
    BY <2>5, <1>4 DEF Verdict
  <2>. QED
    BY <2>4, <2>6, <1>1, <1>3, QueryAssumption DEF IsTooLong, IsQuery
<1>6. \A S \in SUBSET DOMAIN data : \A e \in S : ~IsQuery(S, e)'
  BY <1>2, <1>5 DEF IsQuery, IsChain, At
<1>. QED
  BY <1>2, <1>6 DEF NameFits, OnTheWay, ParsesQuery

\* A label that is copied is the next one of every name the packet can have.
LEMMA Copied ==
  ASSUME IInv, LabelCopied
  PROVE  IInv'
<1>. DEFINE n == lable_len
            next == ptr + 1 + n + 1
<1>. USE DEF IInv, TypeOK
<1>1. n \in Nat \ {0} /\ n = At(ptr + 1) /\ Len(data) \in Nat
      /\ DOMAIN data = 1 .. Len(data)
      /\ ptr \in Nat /\ size \in Nat /\ lables \in Nat
  BY PacketType DEF LabelCopied, lable_len, At
<1>2. data' = data /\ result' = result /\ result = 0
      /\ ptr' = ptr + 1 + n /\ size' = size - 1 - n /\ lables' = lables + 1
  BY DEF LabelCopied
<1>a. lengths' = lengths \cup {next} /\ next = ptr + n + 2
  BY <1>1 DEF LabelCopied
<1>b. name' = Dotted \o [k \in 1 .. n |-> At(ptr + 1 + k)]
  BY DEF LabelCopied
<1>c. n \in Nat \ {0} /\ ptr \in Nat /\ size \in Nat /\ Len(data) \in Nat
      /\ ptr + size = Len(data)
  BY <1>1
<1>d. data' = data /\ ptr' = ptr + 1 + n /\ size' = size - 1 - n
  BY <1>2
<1>e. ptr' \in Nat /\ ptr' + 1 = next
  BY <1>a, <1>c, <1>d
<1>3. ~IsCutOff /\ ~IsTooLong(Dotted)
  BY DEF LabelCopied, Verdict
<1>4. n <= size - 1
  BY <1>1, <1>3 DEF IsCutOff
<1>. HIDE DEF n, next, IInv, TypeOK
<1>5. /\ Len(Dotted) = ptr /\ Dotted \in Seq(Byte)
      /\ Dotted = [k \in 1 .. ptr |-> IF k + 1 \in lengths THEN Dot ELSE At(k + 1)]
  BY <1>2, DottedName
<1>6. IsChain(lengths, ptr + 1) /\ lengths \subseteq 1 .. ptr + 1
  BY <1>2 DEF OnTheWay, IsChain, IInv
<1>f. lengths \subseteq 1 .. ptr + 1 /\ 1 \in lengths
  BY <1>6 DEF IsChain
<1>7. \A k \in 1 .. n : At(ptr + 1 + k) \in Byte
  BY <1>1, <1>4, PacketType DEF At, IInv, TypeOK
<1>8. name' \in Seq(Byte) /\ Len(name') = ptr + n
  <2>1. [k \in 1 .. n |-> At(ptr + 1 + k)] \in Seq(Byte)
    BY <1>1, <1>7
  <2>2. Len([k \in 1 .. n |-> At(ptr + 1 + k)]) = n
    BY <1>1
  <2>. QED
    BY <1>1, <1>b, <1>5, <2>1, <2>2
<1>9. TypeOK' /\ (ptr + size = Len(data))'
  <2>1. ptr + size = Len(data) /\ size \in Nat /\ lables \in Nat /\ data \in Packets
        /\ result \in {-1, -2} \cup 0 .. Len(data)
    BY <1>1 DEF IInv, TypeOK
  <2>2. ptr' \in 0 .. Len(data) /\ size' \in 0 .. Len(data)
        /\ ptr' + size' = Len(data)
    BY <1>c, <1>d, <1>4
  <2>3. lengths' \subseteq 1 .. Len(data) + 1
    BY <1>a, <1>c, <1>4, <1>f
  <2>4. data' = data /\ lables' \in Nat /\ result' = result
    BY <1>1, <1>2
  <2>. QED
    BY <1>8, <2>1, <2>2, <2>3, <2>4 DEF TypeOK
<1>10. NameFits'
  <2>1. ~(ptr + n >= NameMax)
    BY <1>3, <1>5 DEF IsTooLong, n
  <2>. QED
    BY <1>c, <1>8, <2>1, QueryAssumption DEF NameFits
<1>11. IsChain(lengths, ptr + 1)'
  <2>1. lengths' \subseteq 1 .. next /\ 1 \in lengths' /\ next \in lengths'
    BY <1>a, <1>c, <1>f
  <2>2. ASSUME NEW k \in lengths' \ {next}
        PROVE  /\ At(k) # 0 /\ k + At(k) + 1 \in lengths'
               /\ \A j \in lengths' : j <= k \/ k + At(k) + 1 <= j
    <3>1. k \in lengths /\ k \in 1 .. ptr + 1
      BY <1>a, <1>6, <2>2
    <3>2. CASE k = ptr + 1
      BY <1>1, <1>a, <1>6, <3>2
    <3>3. CASE k # ptr + 1
      <4>1. /\ At(k) # 0 /\ k + At(k) + 1 \in lengths
            /\ \A j \in lengths : j <= k \/ k + At(k) + 1 <= j
        BY <1>6, <3>1, <3>3 DEF IsChain
      <4>2. k + At(k) + 1 \in 1 .. ptr + 1
        BY <1>6, <4>1
      <4>3. k + At(k) + 1 <= next
        BY <1>1, <1>a, <4>2
      <4>. QED
        BY <1>a, <4>1, <4>3
    <3>. QED
      BY <3>2, <3>3
  <2>3. At(1)' = At(1) /\ \A k : At(k)' = At(k)
    BY <1>2 DEF At
  <2>. QED
    BY <1>e, <2>1, <2>2, <2>3 DEF IsChain
<1>12. (name = NameOf(lengths, ptr + 1))'
  <2>1. ASSUME NEW k \in 1 .. ptr + n
        PROVE  name'[k] = IF k + 1 \in lengths' THEN Dot ELSE At(k + 1)
    <3>1. CASE k <= ptr
      <4>1. name'[k] = Dotted[k]
        BY <1>1, <1>b, <1>5, <3>1
      <4>2. k + 1 \in lengths' <=> k + 1 \in lengths
        BY <1>1, <1>a, <3>1
      <4>. QED
        BY <1>5, <1>a, <3>1, <4>1, <4>2
    <3>2. CASE k > ptr
      <4>1. name'[k] = At(ptr + 1 + (k - ptr))
        BY <1>1, <1>b, <1>5, <3>2
      <4>2. k + 1 \notin lengths'
        BY <1>1, <1>a, <1>6, <3>2
      <4>3. ptr + 1 + (k - ptr) = k + 1
        BY <1>1, <1>a
      <4>. QED
        BY <4>1, <4>2, <4>3
    <3>. QED
      BY <1>c, <3>1, <3>2
  <2>2. name' = [k \in 1 .. ptr + n |-> IF k + 1 \in lengths' THEN Dot ELSE At(k + 1)]
    BY <1>1, <1>8, <2>1
  <2>3. (ptr + 1)' - 2 = ptr + n
    BY <1>1, <1>2
  <2>4. NameOf(lengths, ptr + 1)'
          = [k \in 1 .. ptr + n |-> IF k + 1 \in lengths' THEN Dot ELSE At(k + 1)]
    BY <1>2, <2>3 DEF NameOf, At
  <2>. QED
    BY <2>2, <2>4
<1>13. ASSUME NEW S \in SUBSET DOMAIN data, NEW e \in S, IsChain(S, e), At(e) = 0
       PROVE  next \in S /\ next <= e
  <2>1. ptr + 1 \in S /\ ptr + 1 # e
    BY <1>1, <1>2, <1>13 DEF OnTheWay, IInv
  <2>2. next \in S
    BY <1>1, <1>13, <2>1 DEF IsChain, next
  <2>. QED
    BY <1>13, <2>2 DEF IsChain
<1>14. OnTheWay'
  <2>1. (lables = 0 <=> ptr = 0)'
    <3>1. lables \in Nat /\ lables' = lables + 1
      BY <1>1, <1>2
    <3>2. lables' # 0 /\ ptr' # 0
      BY <1>c, <1>d, <3>1
    <3>. QED
      BY <3>2
  <2>2. \A S \in SUBSET DOMAIN data : \A e \in S :
          (IsChain(S, e) /\ At(e) = 0)' => (ptr + 1)' \in S /\ (ptr + 1)' <= e
    <3>1. (ptr + 1)' = next
      BY <1>1, <1>2, <1>a
    <3>. QED
      BY <1>2, <1>13, <3>1 DEF IsChain, At
  <2>. QED
    BY <1>2, <1>11, <1>12, <2>1, <2>2 DEF OnTheWay
<1>15. ParsesQuery'
  BY <1>2 DEF ParsesQuery
<1>. QED
  BY <1>9, <1>10, <1>14, <1>15 DEF IInv

\* The call returns at the end of the packet or of the name.
LEMMA Ended ==
  ASSUME IInv, End
  PROVE  IInv'
<1>. USE DEF IInv, TypeOK, Return
<1>1. Len(data) \in Nat /\ DOMAIN data = 1 .. Len(data) /\ result = 0
      /\ UNCHANGED <<data, ptr, size, name, lables, lengths>>
  BY PacketType DEF End
<1>2. IsChain(lengths, ptr + 1)' /\ (name = NameOf(lengths, ptr + 1))'
      /\ At(ptr + 1)' = At(ptr + 1)
  BY <1>1 DEF OnTheWay, IsChain, NameOf, At
<1>3. ASSUME result' = -1
      PROVE  \A S \in SUBSET DOMAIN data : \A e \in S : ~IsQuery(S, e)
  <2>. SUFFICES ASSUME NEW S \in SUBSET DOMAIN data, NEW e \in S, IsQuery(S, e)
                PROVE  FALSE
    OBVIOUS
  <2>1. ptr + 1 \in S /\ ptr + 1 <= e /\ IsChain(S, e)
    BY <1>1 DEF IsQuery, OnTheWay
  <2>2. size > 0
    BY <1>1, <2>1
  <2>3. lable_len = 0 /\ size - 1 < 4
    BY <1>1, <1>3, <2>2 DEF End, HasTypeAndClass
  <2>4. e = ptr + 1
    BY <2>1, <2>3 DEF IsChain, lable_len
  <2>. QED
    BY <1>1, <2>3, <2>4 DEF IsQuery
<1>4. CASE result' = -1
  <2>1. \A S \in SUBSET DOMAIN data : \A e \in S : ~IsQuery(S, e)'
    BY <1>1, <1>3, <1>4 DEF IsQuery, IsChain, At
  <2>. QED
    BY <1>1, <1>4, <2>1 DEF NameFits, OnTheWay, ParsesQuery
<1>5. CASE result' # -1
  <2>1. result' = ptr + 5 /\ lable_len = 0 /\ size - 1 >= 4
    BY <1>5 DEF End, HasTypeAndClass
  <2>2. result' \in 1 .. Len(data) /\ result' - 4 = ptr + 1
    BY <1>1, <2>1
  <2>3. ptr + 1 - 2 < NameMax
    <3>1. CASE ptr = 0
      BY <3>1, QueryAssumption
    <3>2. CASE ptr > 0
      <4>1. Len(name) = ptr - 1
        BY <1>1, <3>2 DEF OnTheWay, NameOf
      <4>. QED
        BY <4>1 DEF NameFits
    <3>. QED
      BY <3>1, <3>2
  <2>4. IsQuery(lengths, ptr + 1)'
    BY <1>1, <1>2, <2>1, <2>3 DEF IsQuery, lable_len
  <2>5. ParsesQuery'
    <3>1. IsQuery(lengths, result - 4)' /\ (name = NameOf(lengths, result - 4))'
      BY <1>1, <1>2, <2>2, <2>4 DEF IsQuery, NameOf, IsChain, At
    <3>2. ~(result' < 0)
      BY <1>1, <2>2
    <3>. QED
      BY <3>1, <3>2 DEF ParsesQuery
  <2>. QED
    BY <1>1, <2>2, <2>5 DEF NameFits, OnTheWay
<1>. QED
  BY <1>4, <1>5

\* The invariant is inductive.
LEMMA StepIInv == IInv /\ [Next]_vars => IInv'
<1>. SUFFICES ASSUME IInv, [Next]_vars PROVE IInv'
  OBVIOUS
<1>1. CASE LabelRefused
  BY <1>1, Refused
<1>2. CASE LabelCopied
  BY <1>2, Copied
<1>3. CASE End
  BY <1>3, Ended
<1>4. CASE UNCHANGED vars
  <2>. USE <1>4 DEF vars, IInv
  <2>1. TypeOK' /\ (ptr + size = Len(data))' /\ NameFits'
    BY DEF TypeOK, NameFits
  <2>2. OnTheWay'
    BY DEF OnTheWay, IsChain, NameOf, At
  <2>3. ASSUME NEW S, NEW e PROVE IsQuery(S, e)' <=> IsQuery(S, e)
    BY DEF IsQuery, IsChain, At
  <2>4. IsQuery(lengths, result - 4)' <=> IsQuery(lengths, result - 4)
    BY DEF IsQuery, IsChain, At
  <2>5. NameOf(lengths, result - 4)' = NameOf(lengths, result - 4)
    BY DEF NameOf, At
  <2>6. ParsesQuery'
    BY <2>3, <2>4, <2>5, Zenon DEF ParsesQuery
  <2>. QED
    BY <2>1, <2>2, <2>6
<1>. QED
  BY <1>1, <1>2, <1>3, <1>4 DEF Next

-----------------------------------------------------------------------------

\* No byte behind the packet is read, and none behind query->name is written:
\* parse_next_query's size tests suffice for every packet and name size.
THEOREM SpecInBounds == Spec => [](TypeOK /\ NameFits)
<1>1. IInv => TypeOK /\ NameFits
  BY DEF IInv
<1>. QED
  BY InitIInv, StepIInv, <1>1, PTL DEF Spec

\* parse_next_query accepts the queries and nothing else, and reads their
\* names as they are written.
THEOREM SpecParsesQuery == Spec => []ParsesQuery
<1>1. IInv => ParsesQuery
  BY DEF IInv
<1>. QED
  BY InitIInv, StepIInv, <1>1, PTL DEF Spec

-----------------------------------------------------------------------------
(* DnsServerTask.                                                          *)

\* The types that the other parts of the invariant need.
TaskTypeInv ==
  /\ isStarted_ \in BOOLEAN
  /\ sockets \in Int
  /\ task \in {"none", "select", "recv", "take", "search", "resolve", "answer"}
  /\ app \in {"idle", "bind", "addTask", "setStarted", "close", "setStopped", "list"}
  /\ mutex \in {Nobody, "task", "app"}
  /\ lost \in BOOLEAN

\* Who is between taking and giving the mutex has it, and nobody else has it but
\* a task that was deleted there.
MutexInv ==
  /\ task = "search" => mutex = "task"
  /\ mutex = "task" => task = "search" \/ lost
  /\ app = "list" <=> mutex = "app"

\* What there is of a server that is being started or stopped.  A task that has
\* stopped itself has left the rest.
StartInv ==
  /\ app \in {"bind", "addTask", "setStarted"} =>
       ~isStarted_ /\ sockets = 1 /\ (app # "setStarted" => task = "none")
  /\ app \in {"close", "setStopped"} =>
       isStarted_ /\ task = "none" /\ sockets = (IF app = "close" THEN 1 ELSE 0)
  /\ app \in {"idle", "list"} =>
       IF isStarted_ THEN sockets = 1 ELSE sockets = 0 /\ task = "none"

\* The inductive invariant of the server.
ServerInv == TaskTypeInv /\ MutexInv /\ StartInv /\ SearchUndisturbed

\* At first there is no task.
LEMMA InitServerInv == ServerInit => ServerInv
<1>1. SUFFICES ASSUME ServerInit PROVE ServerInv
  OBVIOUS
<1>2. TaskTypeInv
  <2>1. sockets \in Int
    BY <1>1 DEF ServerInit
  <2>2. isStarted_ \in BOOLEAN /\ lost \in BOOLEAN
    BY <1>1 DEF ServerInit
  <2>3. QED
    BY <1>1, <2>1, <2>2 DEF ServerInit, TaskTypeInv
<1>3. MutexInv
  BY <1>1, ServerAssumption DEF ServerInit, MutexInv
<1>4. StartInv /\ SearchUndisturbed
  BY <1>1 DEF ServerInit, StartInv, SearchUndisturbed
<1>5. QED
  BY <1>2, <1>3, <1>4 DEF ServerInv

\* The task's own steps: the list changes in none of them.
LEMMA TaskKeepsInv ==
  ASSUME ServerInv,
         Select \/ Receive \/ TakeForSearch \/ Search \/ Resolve \/ Answer
  PROVE  ServerInv'
<1>1. UNCHANGED <<startVars, app, hostsList_, lost>>
  BY DEF Select, Receive, TakeForSearch, Search, Resolve, Answer, listVars
<1>2. \/ UNCHANGED <<mutex, seen>> /\ task # "search"
         /\ task' \in {"none", "select", "recv", "take", "resolve", "answer"}
         /\ (isStarted_ \/ task' = task \/ task' # "none")
         /\ task # "none"
      \/ UNCHANGED <<task, mutex, seen>>
      \/ TakeForSearch
      \/ /\ task = "search" /\ task' \in {"select", "resolve", "answer"}
         /\ mutex' = Nobody /\ UNCHANGED seen
  BY DEF Select, Receive, Search, Resolve, Answer, listVars, TaskGoto, StopSelf, Given
<1>3. TaskTypeInv'
  BY <1>1, <1>2 DEF ServerInv, TaskTypeInv, TakeForSearch, TaskGoto, startVars
<1>4. MutexInv'
  BY <1>1, <1>2, ServerAssumption
  DEF ServerInv, TaskTypeInv, MutexInv, TakeForSearch, TaskGoto, IsFree
<1>5. StartInv'
  BY <1>1, <1>2 DEF ServerInv, TaskTypeInv, StartInv, TakeForSearch, TaskGoto, startVars
<1>6. SearchUndisturbed'
  BY <1>1, <1>2 DEF ServerInv, SearchUndisturbed, TakeForSearch
<1>7. QED
  BY <1>3, <1>4, <1>5, <1>6 DEF ServerInv

\* start() and stop().
LEMMA StartStopKeepsInv ==
  ASSUME ServerInv, Start \/ Bind \/ AddTask \/ Stop \/ CloseSocket \/ SetStarted
  PROVE  ServerInv'
<1>1. UNCHANGED <<hostsList_, mutex, seen>> /\ app # "list" /\ app' # "list"
  BY DEF Start, Bind, AddTask, Stop, CloseSocket, SetStarted, AppGoto, listVars
<1>2. TaskTypeInv'
  <2>1. /\ isStarted_' \in BOOLEAN
        /\ sockets' \in {sockets, sockets + 1, sockets - 1}
        /\ task' \in {task, "select", "none"}
        /\ app' \in {"idle", "bind", "addTask", "setStarted", "close", "setStopped"}
        /\ lost' \in BOOLEAN
    BY DEF ServerInv, TaskTypeInv, Start, Bind, AddTask, Stop, CloseSocket, SetStarted,
           AppGoto, listVars, startVars
  <2>2. QED
    BY <1>1, <2>1 DEF ServerInv, TaskTypeInv
<1>3. MutexInv'
  BY <1>1
  DEF ServerInv, MutexInv, StartInv, Start, Bind, AddTask, Stop, CloseSocket, SetStarted,
      AppGoto, listVars
<1>4. StartInv'
  BY <1>1
  DEF ServerInv, TaskTypeInv, StartInv, Start, Bind, AddTask, Stop, CloseSocket, SetStarted,
      AppGoto, listVars, startVars
<1>5. SearchUndisturbed'
  BY <1>1
  DEF ServerInv, SearchUndisturbed, Start, Bind, AddTask, Stop, CloseSocket, SetStarted
<1>6. QED
  BY <1>2, <1>3, <1>4, <1>5 DEF ServerInv

\* addHost() and deleteHost(): the list changes while the mutex is the
\* application's, and no search is going on.
LEMMA ListKeepsInv ==
  ASSUME ServerInv, TakeForChange \/ ChangeList
  PROVE  ServerInv'
<1>1. /\ UNCHANGED <<startVars, task, seen, lost>>
      /\ \/ /\ app = "idle" /\ app' = "list" /\ UNCHANGED hostsList_
            /\ mutex = Nobody /\ mutex' = "app"
         \/ app = "list" /\ app' = "idle" /\ mutex' = Nobody
  BY DEF TakeForChange, ChangeList, AppGoto, IsFree
<1>2. TaskTypeInv' /\ StartInv'
  BY <1>1 DEF ServerInv, TaskTypeInv, StartInv, startVars
<1>3. MutexInv'
  BY <1>1, ServerAssumption DEF ServerInv, MutexInv
<1>4. SearchUndisturbed'
  BY <1>1 DEF ServerInv, MutexInv, SearchUndisturbed
<1>5. QED
  BY <1>2, <1>3, <1>4 DEF ServerInv

\* The invariant is inductive.
LEMMA NextServerInv == ServerInv /\ [ServerNext]_serverVars => ServerInv'
<1>1. SUFFICES ASSUME ServerInv, [ServerNext]_serverVars PROVE ServerInv'
  OBVIOUS
<1>2. CASE UNCHANGED serverVars
  BY <1>1, <1>2
  DEF ServerInv, TaskTypeInv, MutexInv, StartInv, SearchUndisturbed, serverVars, startVars,
      listVars
<1>3. CASE ServerNext
  BY <1>1, <1>3, TaskKeepsInv, StartStopKeepsInv, ListKeepsInv DEF ServerNext
<1>4. QED
  BY <1>1, <1>2, <1>3

\* The invariant holds in every state.
LEMMA SpecServerInv == ServerSpec => []ServerInv
BY InitServerInv, NextServerInv, PTL DEF ServerSpec

\* The search of the FreeRTOS DNS server's task (DnsServer::voidCallback) sees one
\* list of hosts, however many hosts are added and deleted meanwhile.
THEOREM SpecSearchUndisturbed == ServerSpec => []SearchUndisturbed
<1>1. ServerInv => SearchUndisturbed
  BY DEF ServerInv
<1>2. QED
  BY <1>1, SpecServerInv, PTL

\* A FreeRTOS DNS server that is not started (DnsServer::start, DnsServer::stop) has
\* no task and no socket, and the mutex is free unless a search was cut off.
THEOREM SpecNothingLeftBehind == ServerSpec => []NothingLeftBehind
<1>1. ServerInv => NothingLeftBehind
  BY DEF ServerInv, TaskTypeInv, MutexInv, StartInv, NothingLeftBehind
<1>2. QED
  BY <1>1, SpecServerInv, PTL


\* The rest of the types: the list of hosts, and how far a search has come.
ListTypeInv ==
  /\ asked \in HostNames
  /\ hostsList_ \in Seq(Record) /\ Len(hostsList_) <= MaxHosts
  /\ host \in 1 .. MaxHosts + 1
  /\ seen \in Seq(Record)

\* A list gets longer one record at a time, and a search goes on one at a time.
LEMMA NextListTypeInv ==
  ASSUME ListTypeInv, [ServerNext]_serverVars
  PROVE  ListTypeInv'
<1>1. CASE UNCHANGED <<asked, hostsList_, host, seen>>
  BY <1>1 DEF ListTypeInv
<1>2. CASE Receive
  BY <1>2 DEF Receive, ListTypeInv
<1>3. CASE TakeForSearch
  BY <1>3, ServerAssumption DEF TakeForSearch, ListTypeInv
<1>4. CASE Search
  <2>1. UNCHANGED <<asked, hostsList_, seen>>
        /\ (host' = 1 \/ (host' = host + 1 /\ ~(host > Len(hostsList_))))
    BY <1>4 DEF Search
  <2>2. Len(hostsList_) \in Nat
    BY DEF ListTypeInv
  <2>3. host' \in 1 .. MaxHosts + 1
    BY <2>1, <2>2, ServerAssumption DEF ListTypeInv
  <2>4. QED
    BY <2>1, <2>3 DEF ListTypeInv
<1>5. CASE ChangeList
  <2>1. UNCHANGED <<asked, host, seen>>
    BY <1>5 DEF ChangeList
  <2>2. ASSUME Len(hostsList_) < MaxHosts, NEW r \in Record, hostsList_' = <<r>> \o hostsList_
        PROVE  hostsList_' \in Seq(Record) /\ Len(hostsList_') <= MaxHosts
    <3>1. <<r>> \in Seq(Record) /\ Len(<<r>>) = 1 /\ hostsList_ \in Seq(Record)
      BY DEF ListTypeInv
    <3> DEFINE s == <<r>>
    <3> HIDE DEF s
    <3>2. s \o hostsList_ \in Seq(Record) /\ Len(s \o hostsList_) = 1 + Len(hostsList_)
      BY <3>1 DEF s
    <3>3. Len(hostsList_) \in Nat
      BY <3>1
    <3>4. QED
      BY <2>2, <3>2, <3>3, ServerAssumption DEF s
  <2>3. ASSUME NEW n \in HostNames,
               hostsList_' = Filtered(hostsList_, {r \in Record : r.name # n})
        PROVE  hostsList_' \in Seq(Record) /\ Len(hostsList_') <= MaxHosts
    <3> DEFINE S == {r \in Record : r.name # n}
    <3> HIDE DEF S
    <3>1. hostsList_ \in Seq(Record) /\ Len(hostsList_) <= MaxHosts
      BY DEF ListTypeInv
    <3>2. /\ Filtered(hostsList_, S) \in Seq(Record)
          /\ Len(Filtered(hostsList_, S)) <= Len(hostsList_)
      BY <3>1, FilteredShorter
    <3>3. /\ Len(hostsList_) \in Nat /\ Len(Filtered(hostsList_, S)) \in Nat
          /\ MaxHosts \in Nat
      BY <3>1, <3>2, ServerAssumption
    <3>4. Len(Filtered(hostsList_, S)) <= MaxHosts
      BY <3>1, <3>2, <3>3
    <3>5. QED
      BY <2>3, <3>2, <3>4 DEF S
  <2>4. QED
    BY <1>5, <2>1, <2>2, <2>3 DEF ChangeList, ListTypeInv
<1>6. QED
  BY <1>1, <1>2, <1>3, <1>4, <1>5
  DEF ServerNext, Select, Resolve, Answer, Start, Bind, AddTask, Stop, CloseSocket,
      SetStarted, TakeForChange, serverVars, listVars

\* What ServerInv and ListTypeInv leave of the types.
LEMMA ServerTypes == ServerInv /\ ListTypeInv => ServerTypeOK
<1>1. SUFFICES ASSUME ServerInv, ListTypeInv PROVE ServerTypeOK
  OBVIOUS
<1>2. sockets \in 0 .. 1
  <2>1. sockets = 0 \/ sockets = 1
    BY <1>1 DEF ServerInv, StartInv, TaskTypeInv
  <2>2. QED
    BY <2>1
<1>3. QED
  BY <1>1, <1>2 DEF ServerInv, TaskTypeInv, ListTypeInv, ServerTypeOK

\* The variables of the server keep their types.
LEMMA SpecServerTypeOK == ServerSpec => []ServerTypeOK
<1>1. ServerInit => ListTypeInv
  <2>1. SUFFICES ASSUME ServerInit PROVE ListTypeInv
    OBVIOUS
  <2>2. << >> \in Seq(Record) /\ Len(<< >>) = 0 /\ 0 <= MaxHosts /\ 1 \in 1 .. MaxHosts + 1
    BY ServerAssumption
  <2>3. QED
    BY <2>1, <2>2 DEF ServerInit, ListTypeInv
<1>2. ListTypeInv /\ [ServerNext]_serverVars => ListTypeInv'
  BY NextListTypeInv
<1>3. QED
  BY <1>1, <1>2, ServerTypes, SpecServerInv, PTL DEF ServerSpec

-----------------------------------------------------------------------------
(* MCDnsServer, where a behaviour is about one of the two.                 *)

\* What holds of each of them holds of both.
LEMMA BothImplements == BothSpec => Spec /\ ServerSpec
<1>1. BothInit => Init /\ ServerInit
  BY DEF BothInit
<1>2. [BothNext]_<<vars, serverVars, part>> => [Next]_vars /\ [ServerNext]_serverVars
  BY DEF BothNext
<1>3. QED
  BY <1>1, <1>2, PTL DEF BothSpec, Spec, ServerSpec

\* parse_next_query reads no byte behind the packet, the list of hosts is as long as
\* addHost and deleteHost leave it, and the server has one socket at most.
THEOREM SpecBothTypeOK == BothSpec => []BothTypeOK
<1>1. TypeOK /\ ServerTypeOK => BothTypeOK
  BY DEF BothTypeOK
<1>2. QED
  BY <1>1, BothImplements, SpecInBounds, SpecServerTypeOK, PTL

=============================================================================
