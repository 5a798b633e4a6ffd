---------------------------- MODULE ChunkArrayInd ----------------------------
(***************************************************************************)
(* The inductive invariant behind the safety properties of ChunkArray.     *)
(* TLC checks it on the instances; ChunkArrayProofs proves it inductive.   *)
(*                                                                         *)
(* While a chunk runs, the position of every node says which parts have    *)
(* begun, which have posted and which writes have landed; the flags, the   *)
(* memory and the order of the parts agree with it.  Between chunks        *)
(* nothing moves, and the host prepares flags and inputs.                  *)
(***************************************************************************)
EXTENDS ChunkArray

HasPosted(p) ==
    /\ NodeOf[p] \notin startq
    /\ \/ p < cur[NodeOf[p]]
       \/ p = cur[NodeOf[p]] /\ st[NodeOf[p]] = "posted"

HasBegun(p) ==
    /\ NodeOf[p] \notin startq
    /\ \/ p < cur[NodeOf[p]]
       \/ p = cur[NodeOf[p]] /\ todo[NodeOf[p]] = {}

\* The write of beat a by part p is in the memory.
HasLanded(p, a) ==
    /\ a \in Writes[p]
    /\ NodeOf[p] \notin startq
    /\ \/ p < cur[NodeOf[p]]
       \/ /\ p = cur[NodeOf[p]] /\ todo[NodeOf[p]] = {}
          /\ a \notin wq[NodeOf[p]]
          /\ \A w \in fly[NodeOf[p]] : w[1] # a

\* A run is on, or its results are being read back.
InRun == hst \in {"poll", "dump"} \/ (hst = "down" /\ ~ Quiet)

\* One node on its own.
NodeOK(n) ==
    /\ st[n] = "reset" => cur[n] = 0
    /\ st[n] = "halt" => cur[n] = End
    /\ st[n] = "run" => cur[n] \in 1 .. End
    /\ st[n] \in {"post", "posted"} =>
        /\ cur[n] \in Part
        /\ todo[n] = {} /\ rd[n] = {} /\ wq[n] = {}
    /\ cur[n] \in Part =>
        /\ NodeOf[cur[n]] = n
        /\ todo[n] \subseteq Waits(cur[n])
        /\ rd[n] \subseteq Reads[cur[n]]
        /\ wq[n] \subseteq Writes[cur[n]]
        /\ rd[n] \cap Writes[cur[n]] \subseteq wq[n]
        /\ todo[n] # {} => rd[n] = Reads[cur[n]] /\ wq[n] = Writes[cur[n]]
    /\ cur[n] \in {0, End} => todo[n] = {} /\ rd[n] = {} /\ wq[n] = {}
    /\ \A w \in fly[n] :
        /\ st[n] = "run" /\ cur[n] \in Part /\ todo[n] = {}
        /\ w[2] = <<cur[n], chunk>>
        /\ w[1] \in Writes[cur[n]]
        /\ w[1] \notin wq[n] \cup rd[n]
    /\ n \in startq => Resting(n)

NodesOK == \A n \in Node : NodeOK(n)

\* The host between and around the runs.
HostOK ==
    /\ hst \in {"idle", "write", "go", "dump"} => Quiet
    /\ clearing # {} \/ writing # {} => Quiet /\ hst \in {"idle", "write", "down"}
    /\ hst # "write" => toClear = {} /\ toWrite = {}
    /\ hst # "dump" => toDump = {}
    /\ hst = "dump" => AllHalted /\ err = {}
    /\ hst \in {"write", "go", "poll", "dump"} => reply = "none"
    /\ reply = "ok" => Quiet
    /\ \A w \in writing : w[2] <= chunk

\* What the host has prepared so far.
PreparedOK ==
    /\ hst = "write" =>
        /\ \A p \in Part \ (toClear \cup clearing) : flag[p] = 0
        /\ \A a \in Input \ toWrite :
            \/ <<a, chunk>> \in writing
            \/ mem[a] = <<0, chunk>> /\ \A w \in writing : w[1] # a
    /\ hst = "go" =>
        /\ \A p \in Part : flag[p] = 0
        /\ \A a \in Input : mem[a] = <<0, chunk>>

\* During a run a flag says exactly that its part has posted.
FlagsOK == InRun => \A p \in Part : flag[p] = 1 <=> HasPosted(p)

\* A WAIT that is ticked off was for a part that has posted.
WaitsOK ==
    InRun => \A n \in Node : n \notin startq /\ cur[n] \in Part =>
        \A w \in Waits(cur[n]) \ todo[n] : HasPosted(w)

\* A part begins only when everything ordered before it has posted.
OrderOK ==
    InRun => \A p, q \in Part : Before(p, q) /\ HasBegun(q) => HasPosted(p)

\* A beat holds the latest landed write of this chunk, else the input of this
\* chunk when it is an input.
BeatOK(a) ==
    \/ \E p \in Part :
        /\ HasLanded(p, a) /\ mem[a] = <<p, chunk>>
        /\ \A r \in Part : HasLanded(r, a) => r <= p
    \/ /\ \A r \in Part : ~ HasLanded(r, a)
       /\ a \in Input => mem[a] = <<0, chunk>>

MemoryOK == InRun => \A a \in Beat : BeatOK(a)

\* The image stays as it was loaded.
ImageOK ==
    \A a \in Beat \ Input : (\A p \in Part : a \notin Writes[p]) => mem[a] = <<0, 0>>

\* What has been read back is right.
DumpOK ==
    hst = "dump" => \A a \in Actions \ toDump : Right(End, a, got[a], chunk)

\* The parts that an AXI error of the run invalidates.
CleanRunOK == err = {} => FlagsOK /\ WaitsOK /\ OrderOK /\ MemoryOK /\ stale = {}

IInv ==
    /\ TypeOK /\ NodesOK /\ HostOK /\ PreparedOK /\ ImageOK /\ CleanRunOK
    /\ DumpOK /\ ActionsCurrent
=============================================================================
