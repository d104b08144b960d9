-------------------------- MODULE PortManagerProofs --------------------------
(***************************************************************************)
(* Proofs about PortManager, for any range of ports, any size of block and *)
(* any number of runs and users, whose searches may overlap.               *)
(***************************************************************************)
EXTENDS PortManager, FiniteSetTheorems, TLAPS

(* Taken, of a sequence. *)
Elements(s) == {s[n] : n \in DOMAIN s}

LEMMA ElementsOfAppend ==
  ASSUME NEW S, NEW s \in Seq(S), NEW e \in S
  PROVE  Elements(Append(s, e)) = Elements(s) \cup {e}
  <1>1. DOMAIN s = 1 .. Len(s) /\ DOMAIN Append(s, e) = 1 .. Len(s) + 1 /\ Len(s) \in Nat
    OBVIOUS
  <1>2. \A n \in 1 .. Len(s) : Append(s, e)[n] = s[n]
    OBVIOUS
  <1>3. Append(s, e)[Len(s) + 1] = e
    OBVIOUS
  <1>4. 1 .. Len(s) + 1 = 1 .. Len(s) \cup {Len(s) + 1}
    BY <1>1
  <1> HIDE DEF Elements
  <1> QED
    BY <1>1, <1>2, <1>3, <1>4, Zenon DEF Elements

-----------------------------------------------------------------------------
(* A block is empty before and after a search.  A search has attempts left, *)
(* and passes MaxPort only by the ports it has already been given.          *)
EmptyInv == \A r \in Runs : pc[r] \in {"idle", "exit"} => block[r] = <<>>
SearchInv ==
  \A r \in Runs : pc[r] \in Searching =>
    /\ Len(block[r]) < BlockSize /\ attempts[r] >= 1
    /\ desired[r] < MaxPort + Len(block[r])
TInv == TypeOK /\ EmptyInv /\ SearchInv

LEMMA PortFacts ==
  /\ BasePort \in Ports /\ BasePort \in MinPort .. LastPort + 1 /\ BasePort < MaxPort
  /\ Attempts \in 0 .. Attempts /\ 0 \in 0 .. Attempts /\ Attempts >= 1
  /\ MaxPort \in Nat /\ BlockSize \in Nat /\ BlockSize > 0
  /\ \A p \in Ports : p \in Nat /\ p + 1 \in MinPort .. LastPort + 1
  <1>1. /\ MinPort \in Nat /\ MaxPort \in Nat /\ MinPort < BasePort /\ BasePort < MaxPort
        /\ BlockSize \in Nat /\ BlockSize > 0 /\ Attempts \in Nat /\ Attempts > 0
    BY PortAssumption
  <1>2. BasePort \in Nat
    BY PortAssumption
  <1>3. LastPort \in Nat /\ LastPort >= MaxPort - 1 /\ LastPort + 1 >= MaxPort
    BY <1>1, <1>2 DEF LastPort
  <1> QED
    BY <1>1, <1>2, <1>3 DEF Ports

LEMMA TInit == Init => TInv
  <1> SUFFICES ASSUME Init PROVE TInv
    OBVIOUS
  <1> USE PortFacts DEF Init, Searching
  <1>1. files \subseteq Users \X Ports
    BY Zenon
  <1>2. block \in [Runs -> Seq(Ports)]
    OBVIOUS
  <1>3. TypeOK
    BY <1>1, <1>2 DEF TypeOK
  <1>4. EmptyInv /\ SearchInv
    BY DEF EmptyInv, SearchInv
  <1> QED
    BY <1>3, <1>4 DEF TInv

(* What a busy port does to the search. *)
LEMMA BusyStep ==
  ASSUME TInv, NEW r \in Runs, pc[r] \in Searching, Busy(r),
         UNCHANGED <<user, files, listening>>
  PROVE  TInv'
  <1> USE PortFacts DEF TInv, TypeOK, Searching, Goto
  <1>1. /\ Incremented(desired[r]) \in Ports /\ Incremented(desired[r]) < MaxPort
        /\ Incremented(desired[r]) \in MinPort .. LastPort + 1
    <2>1. desired[r] \in Nat /\ desired[r] >= MinPort
      <3>1. desired[r] \in Ports
        OBVIOUS
      <3> QED
        BY <3>1 DEF Ports
    <2>2. MinPort \in Nat /\ MaxPort \in Nat /\ MinPort < MaxPort
      BY PortAssumption
    <2>3. LastPort >= MaxPort - 1 /\ LastPort \in Nat
      BY PortAssumption DEF LastPort
    <2> HIDE DEF TInv, TypeOK
    <2> QED
      BY <2>1, <2>2, <2>3 DEF Incremented, Ports
  <1>2. attempts[r] - 1 \in 0 .. Attempts /\ (attempts[r] > 1 => attempts[r] - 1 >= 1)
    BY DEF SearchInv
  <1>3. CASE /\ attempts[r] > 1 /\ attempts' = [attempts EXCEPT ![r] = @ - 1]
             /\ desired' = [desired EXCEPT ![r] = Incremented(@)]
             /\ Goto(r, "files") /\ UNCHANGED <<block, raced>>
    <2>1. TypeOK'
      BY <1>1, <1>2, <1>3
    <2>2. EmptyInv'
      BY <1>3 DEF EmptyInv
    <2>3. SearchInv'
      <3>1. Len(block[r]) \in Nat
        OBVIOUS
      <3>2. Incremented(desired[r]) < MaxPort + Len(block[r])
        BY <1>1, <3>1, PortFacts, PortAssumption DEF Ports
      <3> QED
        BY <1>2, <1>3, <3>2 DEF SearchInv
    <2> QED
      BY <2>1, <2>2, <2>3
  <1>4. CASE Goto(r, "exit") /\ GiveUp(r)
    <2>1. TypeOK'
      <3>1. block' \in [Runs -> Seq(Ports)] /\ raced' \subseteq Ports
        <4>1. raced' \subseteq raced /\ block' = [block EXCEPT ![r] = <<>>]
          BY <1>4 DEF GiveUp
        <4>2. raced' \subseteq Ports
          BY <4>1
        <4>3. block' \in [Runs -> Seq(Ports)]
          BY <4>1
        <4> QED
          BY <4>2, <4>3
      <3>2. /\ pc' = [pc EXCEPT ![r] = "exit"] /\ attempts' = [attempts EXCEPT ![r] = 0]
            /\ desired' = [desired EXCEPT ![r] = BasePort]
        BY <1>4 DEF GiveUp
      <3>3. /\ desired' \in [Runs -> MinPort .. LastPort + 1]
            /\ attempts' \in [Runs -> 0 .. Attempts]
        BY <3>2
      <3>4. \A q \in Runs : pc'[q] \in Searching => desired'[q] \in Ports
        BY <3>2
      <3> QED
        BY <3>1, <3>2, <3>3, <3>4
    <2>2. EmptyInv'
      BY <1>4 DEF EmptyInv, GiveUp
    <2>3. SearchInv'
      BY <1>4 DEF SearchInv, GiveUp
    <2> QED
      BY <2>1, <2>2, <2>3
  <1> QED
    BY <1>3, <1>4 DEF Busy

LEMMA TStep == TInv /\ [Next]_vars => TInv'
  <1> SUFFICES ASSUME TInv, [Next]_vars
               PROVE  TInv'
    OBVIOUS
  <1> USE PortAssumption DEF Searching
  <1>1. ASSUME NEW r \in Runs, GetPortBlock(r)
        PROVE  TInv'
    <2> USE <1>1, PortFacts DEF TInv, GetPortBlock, Goto
    <2>1. TypeOK'
      BY DEF TypeOK
    <2>2. EmptyInv'
      BY DEF EmptyInv, TypeOK
    <2>3. block[r] = <<>>
      BY DEF EmptyInv
    <2>4. SearchInv'
      BY <2>3 DEF SearchInv, TypeOK
    <2> QED
      BY <2>1, <2>2, <2>4
  <1>2. ASSUME NEW r \in Runs, CheckDbqpPorts(r)
        PROVE  TInv'
    <2>1. CASE Busy(r)
      BY <1>2, <2>1, BusyStep DEF CheckDbqpPorts
    <2>2. CASE Goto(r, "netstat") /\ UNCHANGED <<desired, attempts, block, raced>>
      BY <1>2, <2>2 DEF TInv, TypeOK, EmptyInv, SearchInv, CheckDbqpPorts, Goto
    <2> QED
      BY <1>2, <2>1, <2>2 DEF CheckDbqpPorts
  <1>3. ASSUME NEW r \in Runs, IsPortUsed(r)
        PROVE  TInv'
    <2>1. CASE Busy(r)
      BY <1>3, <2>1, BusyStep DEF IsPortUsed
    <2>2. CASE Goto(r, "assign") /\ UNCHANGED <<desired, attempts, block, raced>>
      BY <1>3, <2>2 DEF TInv, TypeOK, EmptyInv, SearchInv, IsPortUsed, Goto
    <2> QED
      BY <1>3, <2>1, <2>2 DEF IsPortUsed
  <1>4. ASSUME NEW r \in Runs, AssignPort(r)
        PROVE  TInv'
    <2> USE <1>4 DEF AssignPort, TInv, TypeOK, Ports, LastPort
    <2>1. /\ block[r] \in Seq(Ports) /\ desired[r] \in Ports
          /\ Len(block[r]) < BlockSize /\ desired[r] < MaxPort + Len(block[r])
          /\ Len(block[r]) \in Nat
      BY DEF SearchInv
    <2>2. /\ block' = [block EXCEPT ![r] = Append(block[r], desired[r])]
          /\ block'[r] \in Seq(Ports) /\ Len(block'[r]) = Len(block[r]) + 1
      BY <2>1
    <2>3. CASE Len(block'[r]) = BlockSize /\ pc' = [pc EXCEPT ![r] = "holds"]
      <3>1. TypeOK'
        <4>1. desired[r] + 1 \in MinPort .. LastPort + 1
          BY <2>1, PortFacts
        <4>2. files' \subseteq Users \X Ports
          BY <2>1
        <4> HIDE DEF Ports, LastPort
        <4> QED
          BY <2>1, <2>2, <2>3, <4>1, <4>2, PortFacts
      <3>2. EmptyInv'
        BY <2>2, <2>3 DEF EmptyInv
      <3>3. SearchInv'
        BY <2>2, <2>3 DEF SearchInv
      <3> QED
        BY <3>1, <3>2, <3>3
    <2>4. CASE Len(block'[r]) # BlockSize /\ pc' = [pc EXCEPT ![r] = "files"]
      <3>1. Len(block'[r]) < BlockSize /\ desired[r] + 1 < MaxPort + Len(block'[r])
        <4> DEFINE m == Len(block'[r])
                   n == Len(block[r])
                   d == desired[r]
        <4>1. m # BlockSize /\ m = n + 1 /\ n < BlockSize /\ n \in Nat /\ d < MaxPort + n
          BY <2>1, <2>2, <2>4
        <4>2. d \in Nat /\ MaxPort \in Nat /\ BlockSize \in Nat
          BY <2>1, PortFacts
        <4> HIDE <1>4 DEF AssignPort, TInv, TypeOK, Ports, LastPort, m, n, d
        <4>3. m < BlockSize /\ d + 1 < MaxPort + m
          BY <4>1, <4>2
        <4> QED
          BY <4>3 DEF m, d
      <3>2. TypeOK'
        <4>1. desired[r] + 1 \in Ports /\ desired[r] + 1 \in MinPort .. LastPort + 1
          BY <2>1, <2>2, <3>1
        <4> HIDE DEF Ports, LastPort
        <4> QED
          <5>1. desired' \in [Runs -> MinPort .. LastPort + 1]
            BY <4>1
          <5>2. block' \in [Runs -> Seq(Ports)] /\ files' \subseteq Users \X Ports
            BY <2>1, <2>2
          <5>3. attempts' \in [Runs -> 0 .. Attempts]
            BY PortFacts
          <5>4. /\ pc' \in [Runs -> Searching \cup {"idle", "holds", "exit"}]
                /\ \A q \in Runs : pc'[q] \in Searching => desired'[q] \in Ports
            BY <2>4, <4>1
          <5> QED
            BY <5>1, <5>2, <5>3, <5>4
      <3>3. EmptyInv'
        BY <2>2, <2>4 DEF EmptyInv
      <3>4. SearchInv'
        BY <2>1, <2>2, <2>4, <3>1 DEF SearchInv
      <3> QED
        BY <3>2, <3>3, <3>4
    <2> QED
      BY <2>3, <2>4 DEF Goto
  <1>5. ASSUME NEW r \in Runs, ServerListens(r) \/ ServerStops(r)
        PROVE  TInv'
    <2>1. Taken(r) \subseteq Ports
      BY DEF TInv, TypeOK, Taken
    <2> QED
      BY <1>5, <2>1 DEF TInv, TypeOK, EmptyInv, SearchInv, ServerListens, ServerStops, own
  <1>6. ASSUME NEW r \in Runs, FreePorts(r) \/ Restart(r)
        PROVE  TInv'
    <2>1. /\ pc' = [pc EXCEPT ![r] = "idle"] /\ block' = [block EXCEPT ![r] = <<>>]
          /\ desired' = [desired EXCEPT ![r] = BasePort]
          /\ attempts' = [attempts EXCEPT ![r] = 0]
          /\ files' \subseteq files /\ raced' \subseteq raced /\ UNCHANGED <<user, listening>>
      BY <1>6 DEF FreePorts, Restart, Goto, GiveUp
    <2> QED
      BY <2>1, PortFacts DEF TInv, TypeOK, EmptyInv, SearchInv
  <1>7. ASSUME NEW p \in Ports, OtherProgram(p)
        PROVE  TInv'
    BY <1>7 DEF TInv, TypeOK, EmptyInv, SearchInv, OtherProgram, own
  <1>8. CASE UNCHANGED vars
    BY <1>8 DEF TInv, TypeOK, EmptyInv, SearchInv, vars, own
  <1> QED
    BY <1>1, <1>2, <1>3, <1>4, <1>5, <1>6, <1>7, <1>8 DEF Next, Search

(* Every port of a block and every port tried lies between MinPort and the *)
(* last port a block can reach, which is BlockSize - 2 above MaxPort: the  *)
(* range that get_port's two limits and its late wrap really allow.        *)
THEOREM PortsInRange == Spec => []TypeOK
  <1>1. TInv => TypeOK
    BY DEF TInv
  <1> QED
    BY TInit, TStep, <1>1, PTL DEF Spec

-----------------------------------------------------------------------------
(* A port that a search has found free and another run holds is a raced one: *)
(* whoever locked it while the search was under way marked it.              *)
Checked ==
  \A q \in Runs : pc[q] \in {"netstat", "assign"} =>
    \A s \in Runs : desired[q] \in Taken(s) => desired[q] \in raced
Counted ==
  \A r \in Runs :
    /\ IsFiniteSet(Taken(r))
    /\ Taken(r) \cap raced = {} => Cardinality(Taken(r)) = Len(block[r])
    /\ pc[r] = "holds" => Len(block[r]) = BlockSize
XInv == Checked /\ HeldLocked /\ Exclusive /\ Counted

LEMMA TakenOfEmpty == \A r : block[r] = <<>> => Taken(r) = {} /\ Len(block[r]) = 0
  BY DEF Taken

LEMMA XInit == Init => XInv
  <1> SUFFICES ASSUME Init PROVE XInv
    OBVIOUS
  <1>1. \A r \in Runs : pc[r] = "idle" /\ block[r] = <<>>
    BY DEF Init
  <1>2. \A r \in Runs : Taken(r) = {} /\ Len(block[r]) = 0
    BY <1>1, TakenOfEmpty
  <1> QED
    BY <1>1, <1>2, FS_EmptySet DEF XInv, Checked, HeldLocked, Exclusive, Counted

(* A step that gives up a block, or keeps it, and creates no file: of the    *)
(* ports still held the same ones are raced, and the others keep their file. *)
LEMMA NoNewPort ==
  ASSUME TInv, XInv, NEW r \in Runs,
         pc' = [pc EXCEPT ![r] = pc'[r]],
         block' = [block EXCEPT ![r] = block'[r]],
         \/ block'[r] = block[r] /\ (pc'[r] = "holds" => pc[r] = "holds")
         \/ block'[r] = <<>> /\ pc'[r] # "holds",
         user' = user,
         \A q \in Runs : \A p \in Taken(q)' :
            /\ p \in raced' <=> p \in raced
            /\ p \notin raced /\ <<user[q], p>> \in files => <<user[q], p>> \in files',
         Checked'
  PROVE  XInv'
  <1> USE DEF TInv, TypeOK
  <1>1. block'[r] = <<>> => Taken(r)' = {} /\ Len(block'[r]) = 0
    BY DEF Taken
  <1>2. \A q \in Runs : q # r => block'[q] = block[q] /\ pc'[q] = pc[q]
    OBVIOUS
  <1>3. \A q \in Runs : block'[q] = block[q] => Taken(q)' = Taken(q)
    BY DEF Taken
  <1>4. \A q \in Runs : Taken(q)' \subseteq Taken(q)
    BY <1>1, <1>2, <1>3
  <1>5. HeldLocked'
    BY <1>4 DEF XInv, HeldLocked
  <1>6. Exclusive'
    BY <1>4 DEF XInv, Exclusive
  <1>7. Counted'
    <2>1. \A q \in Runs : block'[q] = block[q] \/ (q = r /\ block'[q] = <<>>)
      BY <1>2
    <2>2. \A q \in Runs : pc'[q] = "holds" => pc[q] = "holds" /\ block'[q] = block[q]
      BY <1>2
    <2>3. ASSUME NEW q \in Runs
          PROVE  /\ IsFiniteSet(Taken(q)')
                 /\ Taken(q)' \cap raced' = {} => Cardinality(Taken(q)') = Len(block'[q])
                 /\ pc'[q] = "holds" => Len(block'[q]) = BlockSize
      <3>1. CASE block'[q] = block[q]
        <4>1. Taken(q)' = Taken(q) /\ Taken(q) \cap raced' = Taken(q) \cap raced
          BY <1>3, <3>1
        <4> QED
          BY <2>2, <3>1, <4>1 DEF XInv, Counted
      <3>2. CASE q = r /\ block'[q] = <<>>
        <4>1. IsFiniteSet(Taken(q)') /\ Cardinality(Taken(q)') = Len(block'[q])
          BY <1>1, <3>2, FS_EmptySet
        <4> QED
          BY <2>2, <3>2, <4>1 DEF XInv, Counted
      <3> QED
        BY <2>1, <3>1, <3>2
    <2> QED
      BY <2>3 DEF Counted
  <1> QED
    BY <1>5, <1>6, <1>7 DEF XInv

(* Giving up a block forgets only races for ports nobody else holds. *)
LEMMA GiveUpStep ==
  ASSUME TInv, XInv, NEW r \in Runs, GiveUp(r), user' = user,
         NEW l \in {"idle", "exit"}, Goto(r, l),
         \/ files' = files
         \/ files' = files \ {<<user[r], p>> : p \in Taken(r)}
  PROVE  XInv'
  <1> USE DEF TInv, TypeOK
  <1>1. /\ pc' = [pc EXCEPT ![r] = pc'[r]] /\ pc'[r] = l
        /\ block' = [block EXCEPT ![r] = block'[r]] /\ block'[r] = <<>>
    BY DEF GiveUp, Goto
  <1>2. Taken(r)' = {}
    BY <1>1 DEF Taken
  <1>3. \A q \in Runs : q # r => Taken(q)' = Taken(q)
    BY <1>1 DEF Taken
  <1>4. ASSUME NEW q \in Runs, NEW p \in Taken(q)'
        PROVE  /\ q # r /\ p \in Taken(q) /\ (p \in raced' <=> p \in raced)
               /\ p \notin raced => p \notin Taken(r)
    <2>1. q # r /\ p \in Taken(q)
      BY <1>2, <1>3
    <2>2. p \in raced' <=> p \in raced
      BY <2>1 DEF GiveUp
    <2>3. p \notin raced => p \notin Taken(r)
      BY <2>1 DEF XInv, Exclusive
    <2> QED
      BY <2>1, <2>2, <2>3
  <1>5. Checked'
    <2> SUFFICES ASSUME NEW q \in Runs, pc'[q] \in {"netstat", "assign"},
                        NEW s \in Runs, desired'[q] \in Taken(s)'
                 PROVE  desired'[q] \in raced'
      BY DEF Checked
    <2>1. q # r
      BY <1>1
    <2>2. pc[q] \in {"netstat", "assign"} /\ desired'[q] = desired[q]
      BY <1>1, <2>1 DEF GiveUp
    <2>3. desired[q] \in Taken(s)
      BY <1>4, <2>2
    <2>4. desired[q] \in raced
      BY <2>2, <2>3 DEF XInv, Checked
    <2> QED
      BY <1>4, <2>2, <2>4
  <1>6. \A q \in Runs : \A p \in Taken(q)' :
           /\ p \in raced' <=> p \in raced
           /\ p \notin raced /\ <<user[q], p>> \in files => <<user[q], p>> \in files'
    BY <1>4
  <1> QED
    BY <1>1, <1>5, <1>6, NoNewPort

LEMMA XStep == TInv /\ XInv /\ [Next]_vars => XInv'
  <1> SUFFICES ASSUME TInv, XInv, [Next]_vars
               PROVE  XInv'
    OBVIOUS
  <1> USE DEF Searching
  <1>1. ASSUME NEW r \in Runs, GetPortBlock(r)
        PROVE  XInv'
    <2>1. pc' = [pc EXCEPT ![r] = "files"] /\ UNCHANGED <<user, block, files, raced>>
      BY <1>1 DEF GetPortBlock, Goto
    <2>2. desired' = [desired EXCEPT ![r] = BasePort]
      BY <1>1 DEF GetPortBlock
    <2>3. pc'[r] = "files" /\ block'[r] = block[r] /\ pc' = [pc EXCEPT ![r] = pc'[r]]
          /\ block' = [block EXCEPT ![r] = block'[r]]
      BY <2>1 DEF TInv, TypeOK
    <2>4. \A q \in Runs : Taken(q)' = Taken(q)
      BY <2>1 DEF Taken
    <2>5. Checked'
      BY <2>1, <2>2, <2>4 DEF XInv, Checked, TInv, TypeOK
    <2> QED
      BY <2>1, <2>3, <2>5, NoNewPort
  <1>2. ASSUME NEW r \in Runs, CheckDbqpPorts(r) \/ IsPortUsed(r), Busy(r)
        PROVE  XInv'
    <2>1. pc[r] \in {"files", "netstat"} /\ UNCHANGED <<user, files>>
      BY <1>2 DEF CheckDbqpPorts, IsPortUsed
    <2>2. CASE Goto(r, "exit") /\ GiveUp(r)
      BY <2>1, <2>2, GiveUpStep
    <2>3. CASE /\ desired' = [desired EXCEPT ![r] = Incremented(@)]
               /\ Goto(r, "files") /\ UNCHANGED <<block, raced>>
      <3>1. /\ pc' = [pc EXCEPT ![r] = pc'[r]] /\ pc'[r] = "files"
            /\ block' = [block EXCEPT ![r] = block'[r]]
        BY <2>3 DEF TInv, TypeOK, Goto
      <3>2. \A q \in Runs : Taken(q)' = Taken(q)
        BY <2>3 DEF Taken
      <3>3. Checked'
        BY <2>3, <3>1, <3>2 DEF XInv, Checked, TInv, TypeOK
      <3> QED
        BY <2>1, <2>3, <3>1, <3>3, NoNewPort
    <2> QED
      BY <1>2, <2>2, <2>3 DEF Busy
  <1>3. ASSUME NEW r \in Runs, NEW l \in {"netstat", "assign"}, Goto(r, l),
               desired[r] \notin UsedPorts(r) \/ pc[r] = "netstat",
               UNCHANGED <<user, files, desired, block, raced>>
        PROVE  XInv'
    <2>1. /\ pc' = [pc EXCEPT ![r] = pc'[r]] /\ pc'[r] = l
          /\ block' = [block EXCEPT ![r] = block'[r]]
      BY <1>3 DEF TInv, TypeOK, Goto
    <2>2. \A q \in Runs : Taken(q)' = Taken(q)
      BY <1>3 DEF Taken
    <2>3. \A s \in Runs : desired[r] \in Taken(s) => desired[r] \in raced
      <3>1. CASE pc[r] = "netstat"
        BY <3>1 DEF XInv, Checked
      <3>2. CASE desired[r] \notin UsedPorts(r)
        <4>1. \A u : <<u, desired[r]>> \notin files
          BY <3>2 DEF UsedPorts
        <4> QED
          BY <4>1 DEF XInv, HeldLocked
      <3> QED
        BY <1>3, <3>1, <3>2
    <2>4. \A q \in Runs : q # r => pc'[q] = pc[q]
      BY <2>1 DEF TInv, TypeOK
    <2>5. Checked'
      BY <1>3, <2>2, <2>3, <2>4 DEF XInv, Checked
    <2> QED
      BY <1>3, <2>1, <2>5, NoNewPort
  <1>4. ASSUME NEW r \in Runs, AssignPort(r)
        PROVE  XInv'
    <2> DEFINE d == desired[r]
    <2>1. /\ files' = files \cup {<<user[r], d>>} /\ user' = user /\ pc[r] = "assign"
          /\ block' = [block EXCEPT ![r] = Append(block[r], d)]
          /\ pc' = [pc EXCEPT ![r] = IF Len(block'[r]) = BlockSize THEN "holds" ELSE "files"]
          /\ raced' = raced \cup {p \in {d} : \E q \in Runs \ {r} : Found(q, p)}
          /\ \A q \in Runs : q # r => desired'[q] = desired[q]
      BY <1>4 DEF AssignPort, Goto, TInv, TypeOK
    <2>2. d \in Ports /\ block[r] \in Seq(Ports) /\ r \in DOMAIN block
      BY <2>1 DEF TInv, TypeOK
    <2>3. block'[r] = Append(block[r], d) /\ Len(block'[r]) = Len(block[r]) + 1
      BY <2>1, <2>2
    <2>4. Taken(r)' = Taken(r) \cup {d}
      <3>1. Elements(block'[r]) = Elements(block[r]) \cup {d}
        BY <2>2, <2>3, ElementsOfAppend
      <3> QED
        BY <3>1, Zenon DEF Elements, Taken
    <2>5. \A q \in Runs : q # r => Taken(q)' = Taken(q) /\ block'[q] = block[q] /\ pc'[q] = pc[q]
      BY <2>1 DEF Taken, TInv, TypeOK
    <2>6. pc'[r] \in {"holds", "files"} /\ (pc'[r] = "holds" <=> Len(block'[r]) = BlockSize)
      BY <2>1 DEF TInv, TypeOK
    <2>7. \A q \in Runs : d \in Taken(q) => d \in raced
      BY <2>1 DEF XInv, Checked
    <2>8. raced \subseteq raced' /\ raced' \subseteq raced \cup {d}
      BY <2>1
    <2>9. Checked'
      <3> SUFFICES ASSUME NEW q \in Runs, pc'[q] \in {"netstat", "assign"},
                          NEW s \in Runs, desired'[q] \in Taken(s)'
                   PROVE  desired'[q] \in raced'
        BY DEF Checked
      <3>1. q # r
        BY <2>6
      <3>2. pc[q] \in {"netstat", "assign"} /\ desired'[q] = desired[q]
        BY <2>1, <2>5, <3>1
      <3>3. CASE desired[q] = d
        BY <2>1, <3>1, <3>2, <3>3 DEF Found
      <3>4. CASE desired[q] # d
        <4>1. desired[q] \in Taken(s)
          BY <2>4, <2>5, <3>2, <3>4
        <4> QED
          BY <2>8, <3>2, <4>1 DEF XInv, Checked
      <3> QED
        BY <3>3, <3>4
    <2>10. HeldLocked'
      BY <2>1, <2>4, <2>5, <2>8 DEF XInv, HeldLocked
    <2>11. Exclusive'
      BY <2>4, <2>5, <2>7, <2>8 DEF XInv, Exclusive
    <2>12. Counted'
      <3>1. /\ IsFiniteSet(Taken(r))
            /\ Taken(r) \cap raced = {} => Cardinality(Taken(r)) = Len(block[r])
        BY DEF XInv, Counted
      <3>2. IsFiniteSet(Taken(r)')
        BY <2>4, <3>1, FS_AddElement
      <3>3. Taken(r)' \cap raced' = {} => Cardinality(Taken(r)') = Len(block'[r])
        <4> SUFFICES ASSUME Taken(r)' \cap raced' = {}
                     PROVE  Cardinality(Taken(r)') = Len(block'[r])
          OBVIOUS
        <4>1. d \notin Taken(r) /\ Taken(r) \cap raced = {}
          BY <2>4, <2>7, <2>8
        <4> QED
          BY <2>3, <2>4, <3>1, <4>1, FS_AddElement
      <3>4. \A q \in Runs : q # r /\ Taken(q) \cap raced' = {} => Taken(q) \cap raced = {}
        BY <2>8
      <3>5. ASSUME NEW q \in Runs
            PROVE  /\ IsFiniteSet(Taken(q)')
                   /\ Taken(q)' \cap raced' = {} => Cardinality(Taken(q)') = Len(block'[q])
                   /\ pc'[q] = "holds" => Len(block'[q]) = BlockSize
        <4>1. CASE q = r
          BY <2>6, <3>2, <3>3, <4>1
        <4>2. CASE q # r
          BY <2>5, <3>4, <4>2 DEF XInv, Counted
        <4> QED
          BY <4>1, <4>2
      <3> QED
        BY <3>5 DEF Counted
    <2> QED
      BY <2>9, <2>10, <2>11, <2>12 DEF XInv
  <1>5. ASSUME NEW r \in Runs, FreePorts(r) \/ Restart(r)
        PROVE  XInv'
    BY <1>5, GiveUpStep DEF FreePorts, Restart
  <1>6. ASSUME UNCHANGED <<own, files, raced>>
        PROVE  XInv'
    <2>1. \A q \in Runs : Taken(q)' = Taken(q)
      BY <1>6 DEF Taken, own
    <2>2. Checked'
      BY <1>6, <2>1 DEF XInv, Checked, own
    <2>3. HeldLocked' /\ Exclusive'
      BY <1>6, <2>1 DEF XInv, HeldLocked, Exclusive, own
    <2>4. Counted'
      BY <1>6, <2>1 DEF XInv, Counted, own
    <2> QED
      BY <2>2, <2>3, <2>4 DEF XInv
  <1>7. ASSUME NEW r \in Runs, ServerListens(r) \/ ServerStops(r)
        PROVE  XInv'
    BY <1>6, <1>7 DEF ServerListens, ServerStops
  <1>8. ASSUME NEW p \in Ports, OtherProgram(p)
        PROVE  XInv'
    BY <1>6, <1>8 DEF OtherProgram
  <1>9. CASE UNCHANGED vars
    BY <1>6, <1>9 DEF vars
  <1>10. ASSUME NEW r \in Runs, CheckDbqpPorts(r)
         PROVE  XInv'
    BY <1>2, <1>3, <1>10 DEF CheckDbqpPorts
  <1>11. ASSUME NEW r \in Runs, IsPortUsed(r)
         PROVE  XInv'
    BY <1>2, <1>3, <1>11 DEF IsPortUsed
  <1> QED
    BY <1>1, <1>4, <1>5, <1>7, <1>8, <1>9, <1>10, <1>11 DEF Next, Search

LEMMA XInvariant == Spec => [](TInv /\ XInv)
  <1>1. TInv /\ XInv /\ [Next]_vars => TInv' /\ XInv'
    BY TStep, XStep
  <1> QED
    BY TInit, XInit, <1>1, PTL DEF Spec

(* No port is given to two servers, of whichever users, unless two searches *)
(* found it free before either had locked it: what the lock files are for.  *)
THEOREM PortsExclusive == Spec => []Exclusive
  <1>1. TInv /\ XInv => Exclusive
    BY DEF XInv
  <1> QED
    BY XInvariant, <1>1, PTL

(* Every such port of a run also has its file, so a later search passes it  *)
(* over, even while its server is not listening.                            *)
THEOREM PortsLocked == Spec => []HeldLocked
  <1>1. TInv /\ XInv => HeldLocked
    BY DEF XInv
  <1> QED
    BY XInvariant, <1>1, PTL

(* And a server gets as many different ports as it asked for, although the *)
(* search only counts those it appended and wraps at MaxPort.               *)
THEOREM BlocksFull == Spec => []FullBlocks
  <1>1. TInv /\ XInv => FullBlocks
    BY DEF XInv, Counted, FullBlocks
  <1> QED
    BY XInvariant, <1>1, PTL
=============================================================================
