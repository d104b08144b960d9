---------------------------- MODULE PortManager ----------------------------
(* lib/sys_mgmt/port_management.py: kewpie processes of several users of one *)
(* host take blocks of ports for their servers.  A port is locked by a file  *)
(* in /tmp named after the user and the port; it is also in use when some    *)
(* process listens on it.  Looking for files, asking netstat and creating    *)
(* the file are three steps, and searches are not kept apart.                *)
EXTENDS Naturals, Sequences, FiniteSets

CONSTANTS
  Runs,             \* kewpie processes, or servers of one: each wants a block
  Users,
  MinPort, MaxPort, \* min_port_value, max_port_value
  BasePort,         \* preferred_base_port of the server types
  BlockSize, Attempts,
  MaxListeners      \* bound on the ports other programs listen on

ASSUME PortAssumption ==
  /\ {MinPort, BasePort, MaxPort} \subseteq Nat /\ MinPort < BasePort /\ BasePort < MaxPort
  /\ BlockSize \in Nat \ {0} /\ Attempts \in Nat \ {0}

\* Only a busy port wraps the search, so a block may reach over MaxPort.
LastPort == MaxPort + BlockSize - 2
Ports == MinPort .. LastPort

VARIABLES
  user,      \* cur_user of each run
  pc,        \* of each run
  desired,   \* desired_port
  attempts,  \* attempts_remain
  block,     \* assigned_ports, then port_block of the run's server
  files,     \* <<user, port>> of the files in /tmp
  listening, \* ports of servers and of other programs
  raced      \* ports in a block that another search had found free too, before
             \* this one locked them (for checking only)

own  == <<user, pc, desired, attempts, block>>
vars == <<own, files, listening, raced>>

Taken(r) == {block[r][n] : n \in DOMAIN block[r]}
Searching == {"files", "netstat", "assign"}
Goto(r, l) == pc' = [pc EXCEPT ![r] = l]
GiveUp(r)  ==   \* the run no longer has its ports, nor get_port its variables
  /\ block' = [block EXCEPT ![r] = <<>>]
  /\ desired' = [desired EXCEPT ![r] = BasePort] /\ attempts' = [attempts EXCEPT ![r] = 0]
  /\ raced' = {p \in raced : \E q \in Runs \ {r} : p \in Taken(q)}

Init ==
  /\ user \in [Runs -> Users]
  /\ pc = [r \in Runs |-> "idle"] /\ desired = [r \in Runs |-> BasePort]
  /\ attempts = [r \in Runs |-> 0]
  /\ block = [r \in Runs |-> <<>>]
  /\ files \in SUBSET (Users \X {BasePort}) \* left by a run that was killed
  /\ listening = {} /\ raced = {}

GetPortBlock(r) ==
  /\ pc[r] = "idle"
  /\ Goto(r, "files")
  /\ desired' = [desired EXCEPT ![r] = BasePort]
  /\ attempts' = [attempts EXCEPT ![r] = Attempts]
  /\ UNCHANGED <<user, block, files, listening, raced>>

\* A busy port: increment and try again, or give up with sys.exit(1); what the
\* block has so far is not known to any server and its files stay.
Unwrapped(p)   == p + 1   \* a mutant of Incremented
Incremented(p) == IF p + 1 >= MaxPort THEN MinPort ELSE p + 1

BusyForever(r) ==   \* a mutant of Busy
  /\ desired' = [desired EXCEPT ![r] = Incremented(@)]
  /\ Goto(r, "files") /\ UNCHANGED <<attempts, block, raced>>
BusyShort(r) ==   \* another: the server gets what was found
  /\ desired' = [desired EXCEPT ![r] = Incremented(@)] /\ UNCHANGED <<block, raced>>
  /\ Goto(r, IF attempts[r] > 1 THEN "files" ELSE "holds")
  /\ attempts' = [attempts EXCEPT ![r] = @ - 1]
Busy(r) ==
  \/ /\ attempts[r] > 1 /\ attempts' = [attempts EXCEPT ![r] = @ - 1]
     /\ desired' = [desired EXCEPT ![r] = Incremented(@)]
     /\ Goto(r, "files") /\ UNCHANGED <<block, raced>>
  \/ attempts[r] = 1 /\ Goto(r, "exit") /\ GiveUp(r)

\* check_dbqp_ports: the files of every user count.
OwnFiles(r)  == {f[2] : f \in {g \in files : g[1] = user[r]}}   \* a mutant of UsedPorts
UsedPorts(r) == {f[2] : f \in files}

CheckDbqpPorts(r) ==
  /\ pc[r] = "files" /\ UNCHANGED <<user, files, listening>>
  /\ \/ desired[r] \in UsedPorts(r) /\ Busy(r)
     \/ /\ desired[r] \notin UsedPorts(r) /\ Goto(r, "netstat")
        /\ UNCHANGED <<desired, attempts, block, raced>>

IsPortUsed(r) ==
  /\ pc[r] = "netstat" /\ UNCHANGED <<user, files, listening>>
  /\ \/ desired[r] \in listening /\ Busy(r)
     \/ /\ desired[r] \notin listening /\ Goto(r, "assign")
        /\ UNCHANGED <<desired, attempts, block, raced>>

\* A search has not seen a file for the port, and has not made its own yet.
Found(q, p) == pc[q] \in {"netstat", "assign"} /\ desired[q] = p

\* assign_port, and the next port of the block: new_port + 1, not wrapped
AssignPort(r) ==
  /\ pc[r] = "assign"
  /\ files' = files \cup {<<user[r], desired[r]>>}
  /\ block' = [block EXCEPT ![r] = Append(@, desired[r])]
  /\ Goto(r, IF Len(block'[r]) = BlockSize THEN "holds" ELSE "files")
  /\ desired' = [desired EXCEPT ![r] = @ + 1]
  /\ attempts' = [attempts EXCEPT ![r] = Attempts]
  /\ raced' = raced \cup {p \in {desired[r]} : \E q \in Runs \ {r} : Found(q, p)}
  /\ UNCHANGED <<user, listening>>

\* The run's server listens on its ports, or no longer does.
ServerListens(r) ==
  /\ pc[r] = "holds" /\ Taken(r) \cap listening = {}
  /\ listening' = listening \cup Taken(r) /\ UNCHANGED <<own, files, raced>>
ServerStops(r) ==
  /\ pc[r] = "holds" /\ Taken(r) \subseteq listening
  /\ listening' = listening \ Taken(r) /\ UNCHANGED <<own, files, raced>>

\* free_ports: os.remove of this user's file names
FreeRange(r) ==   \* a mutant of FreePorts: the block taken for a contiguous one
  /\ pc[r] = "holds" /\ Goto(r, "idle") /\ GiveUp(r)
  /\ files' = files \ {<<user[r], p>> : p \in {q \in Ports : \E h \in Taken(r) : q \in h .. h + 1}}
  /\ UNCHANGED <<user, listening>>
FreePorts(r) ==
  /\ pc[r] = "holds" /\ Goto(r, "idle") /\ GiveUp(r)
  /\ files' = files \ {<<user[r], p>> : p \in Taken(r)}
  /\ UNCHANGED <<user, listening>>

\* kewpie.py dies, or has exited: a new process finds the files it left.
Restart(r) ==
  /\ pc[r] # "idle" /\ Goto(r, "idle") /\ GiveUp(r)
  /\ UNCHANGED <<user, files, listening>>

\* Another program starts or stops to listen.
OtherProgram(p) ==
  /\ \/ /\ p \notin listening /\ Cardinality(listening) < MaxListeners
        /\ listening' = listening \cup {p}
     \/ p \in listening /\ listening' = listening \ {p}
  /\ UNCHANGED <<own, files, raced>>

Search(r) == CheckDbqpPorts(r) \/ IsPortUsed(r) \/ AssignPort(r)
Next ==
  \/ \E r \in Runs : \/ GetPortBlock(r) \/ Search(r) \/ ServerListens(r) \/ ServerStops(r)
                     \/ FreePorts(r) \/ Restart(r)
  \/ \E p \in Ports : OtherProgram(p)

Spec     == Init /\ [][Next]_vars
FairSpec == Spec /\ \A r \in Runs : WF_vars(Search(r))
-----------------------------------------------------------------------------
\* The types of the state, and the range of a port.  A search wraps at MaxPort
\* only when a port is busy, so a block may end above it, by no more than its
\* size (get_port, get_port_block).
TypeOK ==
  /\ user \in [Runs -> Users]
  /\ pc \in [Runs -> Searching \cup {"idle", "holds", "exit"}]
  /\ desired \in [Runs -> MinPort .. LastPort + 1] /\ attempts \in [Runs -> 0 .. Attempts]
  /\ block \in [Runs -> Seq(Ports)]
  /\ files \subseteq Users \X Ports /\ listening \subseteq Ports /\ raced \subseteq Ports
  /\ \A r \in Runs : pc[r] \in Searching => desired[r] \in Ports

\* No port is in two blocks, whatever blocks are given, freed or left by runs that
\* die, but one that two searches found free before either had locked it: the one
\* gap the files leave ("Not *really* sure how well this works with multiple
\* dbqp.py instances", port_management.py:102).
Exclusive == \A r, q \in Runs : r # q => Taken(r) \cap Taken(q) \subseteq raced

\* Every other port of a block is locked by a file of its user until it is freed:
\* nobody removes the file of another's port.
HeldLocked == \A r \in Runs : \A p \in Taken(r) : <<user[r], p>> \in files \/ p \in raced

\* The block of a run has the size asked for: no port was counted twice, around
\* the wrap, if none of its ports was found by two searches.
FullBlocks == \A r \in Runs :
  pc[r] = "holds" /\ Taken(r) \cap raced = {} => Cardinality(Taken(r)) = BlockSize

\* A search ends: with a block, or with sys.exit after the last attempt.
SearchEnds == \A r \in Runs : pc[r] \in Searching ~> pc[r] \notin Searching
=============================================================================
