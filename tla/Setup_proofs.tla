----------------------------- MODULE Setup_proofs -----------------------------
(***************************************************************************)
(* What an install can rely on, for any number of operators, builds and    *)
(* chunks, any size limit and all faults together: a verified binary runs  *)
(* (VerifiedRuns), and an operator who is locked out of a host was locked  *)
(* out by an install that was cut short (OnlyCutShort).                    *)
(***************************************************************************)
EXTENDS Setup, FiniteSetTheorems, WellFoundedInduction, TLAPS

(* A driver and what runs on the host for it are at the same place, unless *)
(* the driver gave up, and leave nothing behind when they go on.           *)
InStep ==
    \A o \in Operator :
        /\ driver[o] \in {"connect", "reconnect"} => remote[o] \in {"none", "list", "remove", "agent"}
        /\ driver[o] = "send" => remote[o] = "dd"
        /\ driver[o] = "verify" => remote[o] \in {"chmod", "sum"}
        /\ remote[o] # "dd" => fed[o] = 0
        /\ remote[o] # "remove" => list[o] = {}

(* The file that a dd or an agent has open is at its path while it counts  *)
(* as linked.                                                              *)
LinkedInv ==
    \A o \in linked : remote[o] \in {"dd", "list", "remove", "agent"} /\ Present(build[o])

(* Nobody else writes a new binary, and no gc is going to remove it.       *)
Owned(o) ==
    LET v == build[o]
    IN  Present(v) /\ v \notin old /\ ~Listing(v) /\ Writers(v) \subseteq {o}

(* An install that nobody interferes with has the file to itself, and got  *)
(* as far with it as its driver believes.                                  *)
Installing(o) ==
    LET v == build[o]
    IN  /\ driver[o] \in {"send", "verify", "reconnect"} => Owned(o)
        /\ driver[o] = "send" => o \in linked /\ 1 .. fed[o] \subseteq data[v]
        /\ driver[o] \in {"verify", "reconnect"} => Whole(v) /\ Writers(v) = {}
        /\ driver[o] = "reconnect" \/ (driver[o] = "verify" /\ remote[o] = "sum") => v \in exec

InstallInv == \A o \in Operator \ raced : Installing(o)

(* A dd whose driver still sends, and that wrote everything it was sent.   *)
Sending(p, v) ==
    /\ build[p] = v /\ p \in linked
    /\ driver[p] = "send" /\ 1 .. fed[p] \subseteq data[v]

(* A file that is not whole is being written by someone who is going to    *)
(* complete it, or was left so by an install that was cut short.           *)
CutInv ==
    \A v \in Version : Present(v) => \/ Whole(v) \/ v \in cut
                                     \/ \E p \in Operator : Sending(p, v)

SetupInv == TypeOK /\ InStep /\ LinkedInv /\ InstallInv /\ CutInv
-----------------------------------------------------------------------------
(* To take a file out of the directory leaves the others.                  *)
LEMMA WithoutOne ==
    ASSUME NEW s \in Seq(Version), IsInjective(s), NEW v
    PROVE  /\ Without(s, v) \in Seq(Version) /\ IsInjective(Without(s, v))
           /\ Range(Without(s, v)) = Range(s) \ {v}
<1>1. CASE v \notin Range(s)
  BY <1>1 DEF Without
<1>2. CASE v \in Range(s)
  <2> DEFINE i == CHOOSE k \in DOMAIN s : s[k] = v
             t == RemoveAt(s, i)
  <2>1. i \in 1 .. Len(s) /\ s[i] = v
    BY <1>2 DEF Range
  <2> HIDE DEF i
  <2>2. /\ t \in Seq(Version) /\ Len(t) = Len(s) - 1
        /\ \A k \in 1 .. Len(t) : t[k] = IF k < i THEN s[k] ELSE s[k + 1]
    <3>1. /\ SubSeq(s, 1, i - 1) \in Seq(Version) /\ Len(SubSeq(s, 1, i - 1)) = i - 1
          /\ \A k \in 1 .. i - 1 : SubSeq(s, 1, i - 1)[k] = s[k]
      BY <2>1
    <3> DEFINE r == SubSeq(s, i + 1, Len(s))
    <3>2. r \in Seq(Version) /\ Len(r) = Len(s) - i
      BY <2>1
    <3>3. \A k \in 1 .. Len(s) - i : r[k] = s[i + k]
      <4>1. ASSUME NEW k \in 1 .. Len(s) - i PROVE r[k] = s[(i + 1) + k - 1]
        BY <2>1
      <4> QED BY <2>1, <4>1
    <3> DEFINE l == SubSeq(s, 1, i - 1)
    <3> HIDE DEF t, l, r
    <3>4. t = l \o r
      BY DEF t, l, r, RemoveAt
    <3>5. l \in Seq(Version) /\ Len(l) = i - 1 /\ \A k \in 1 .. i - 1 : l[k] = s[k]
      BY <3>1 DEF l
    <3>6. t \in Seq(Version) /\ Len(t) = Len(s) - 1
      BY <2>1, <3>2, <3>4, <3>5
    <3>7. ASSUME NEW k \in 1 .. Len(t) PROVE t[k] = IF k < i THEN s[k] ELSE s[k + 1]
      <4>1. CASE k < i
        BY <2>1, <3>2, <3>4, <3>5, <3>6, <4>1
      <4>2. CASE k >= i
        <5>1. t[k] = r[k - (i - 1)] /\ k - (i - 1) \in 1 .. Len(s) - i
          BY <2>1, <3>2, <3>4, <3>5, <3>6, <4>2
        <5> QED BY <2>1, <3>3, <3>6, <4>2, <5>1
      <4> QED BY <2>1, <3>6, <4>1, <4>2
    <3> QED BY <3>6, <3>7
  <2> HIDE DEF t
  <2>3. IsInjective(t)
    <3>1. \A a, b \in 1 .. Len(s) : s[a] = s[b] => a = b
      BY DEF IsInjective
    <3>2. ASSUME NEW a \in 1 .. Len(t), NEW b \in 1 .. Len(t), t[a] = t[b] PROVE a = b
      <4> DEFINE p(k) == IF k < i THEN k ELSE k + 1
      <4>1. \A k \in 1 .. Len(t) : p(k) \in 1 .. Len(s) /\ t[k] = s[p(k)]
        BY <2>1, <2>2
      <4>2. p(a) = p(b)
        BY <3>1, <3>2, <4>1
      <4> QED BY <2>1, <2>2, <4>2
    <3> QED BY <2>2, <3>2 DEF IsInjective
  <2>4. Range(t) = Range(s) \ {v}
    <3>1. ASSUME NEW x \in Range(t) PROVE x \in Range(s) \ {v}
      BY <2>1, <2>2 DEF Range, IsInjective
    <3>2. ASSUME NEW x \in Range(s), x # v PROVE x \in Range(t)
      <4>1. PICK k \in 1 .. Len(s) : s[k] = x
        BY DEF Range
      <4>2. CASE k < i
        <5>1. k \in 1 .. Len(t) /\ t[k] = x
          BY <2>1, <2>2, <4>1, <4>2
        <5> QED BY <2>2, <5>1 DEF Range
      <4>3. CASE k > i
        <5>1. k - 1 \in 1 .. Len(t) /\ t[k - 1] = x
          BY <2>1, <2>2, <4>1, <4>3
        <5> QED BY <2>2, <5>1 DEF Range
      <4> QED BY <2>1, <3>2, <4>1, <4>2, <4>3
    <3> QED BY <3>1, <3>2
  <2> QED BY <1>2, <2>2, <2>3, <2>4 DEF Without, i, t
<1> QED BY <1>1, <1>2

(* A write adds its file to the directory.                                 *)
LEMMA TouchAdds ==
    ASSUME TypeOK, NEW v \in Version, Touch(v)
    PROVE  /\ order' \in Seq(Version) /\ IsInjective(order')
           /\ Range(order') = Range(order) \cup {v}
           /\ old' = old \ {v}
<1> DEFINE s == Without(order, v)
<1>1. s \in Seq(Version) /\ IsInjective(s) /\ Range(s) = Range(order) \ {v}
  BY WithoutOne DEF TypeOK
<1> HIDE DEF s
<1>2. order' = Append(s, v) /\ old' = old \ {v}
  BY DEF Touch, s
<1>3. /\ order' \in Seq(Version) /\ Len(order') = Len(s) + 1 /\ order'[Len(s) + 1] = v
      /\ \A k \in 1 .. Len(s) : order'[k] = s[k]
  BY <1>1, <1>2
<1>4. Range(order') = Range(s) \cup {v}
  <2>1. ASSUME NEW x \in Range(order') PROVE x \in Range(s) \cup {v}
    BY <1>1, <1>3 DEF Range
  <2>2. ASSUME NEW x \in Range(s) PROVE x \in Range(order')
    BY <1>1, <1>3 DEF Range
  <2>3. v \in Range(order')
    BY <1>1, <1>3 DEF Range
  <2> QED BY <2>1, <2>2, <2>3
<1>5. IsInjective(order')
  <2>1. \A k \in 1 .. Len(s) : s[k] # v
    BY <1>1 DEF Range
  <2> QED BY <1>1, <1>3, <2>1 DEF IsInjective
<1> QED BY <1>1, <1>2, <1>3, <1>4, <1>5

(* A file is no larger than a binary.                                      *)
LEMMA SizeType ==
    ASSUME TypeOK, NEW v \in Version
    PROVE  Size(v) \in 0 .. Chunks
<1> DEFINE S == data[v] \cup {0}
           R == OpToRel(<, Nat)
<1>1. S \subseteq 0 .. Chunks /\ 0 \in S /\ Chunks \in Nat
  BY SetupAssumption DEF TypeOK
<1> HIDE DEF S
<1>2. \E x \in S : \A y \in S : x >= y
  <2> DEFINE D == {Chunks - x : x \in S}
  <2>1. D \subseteq Nat /\ D # {}
    BY <1>1
  <2>2. \E d \in D : \A e \in D : ~(<<e, d>> \in R)
    <3>1. IsWellFoundedOn(R, Nat)
      BY NatLessThanWellFounded
    <3> HIDE DEF R, D
    <3> QED BY <2>1, <3>1, WFMin
  <2>3. PICK x \in S : \A e \in D : ~(<<e, Chunks - x>> \in R)
    BY <2>2
  <2>4. ASSUME NEW y \in S PROVE x >= y
    <3>1. ~(<<Chunks - y, Chunks - x>> \in R)
      BY <2>3
    <3> QED BY <1>1, <3>1 DEF OpToRel
  <2> QED BY <2>4
<1>3. Max(S) \in S
  BY <1>2 DEF Max
<1> QED BY <1>1, <1>3 DEF Size, S
-----------------------------------------------------------------------------
(* TypeOK in parts: the directory, the processes, the collections.         *)
DirOK ==
    /\ order \in Seq(Version) /\ IsInjective(order)
    /\ data \in [Version -> SUBSET (1 .. Chunks)]
    /\ exec \subseteq Range(order) /\ old \subseteq Range(order)

ProcOK ==
    /\ build \in [Operator -> Version]
    /\ {cache, linked, raced} \subseteq SUBSET Operator /\ cut \subseteq Version
    /\ driver \in [Operator -> {"idle", "connect", "install", "send", "verify", "reconnect", "session"}]
    /\ outcome \in [Operator -> {"other", "MissingBinary", "ProtocolError"}]
    /\ remote \in [Operator -> {"none", "dd", "chmod", "sum", "list", "remove", "agent"}]
    /\ fed \in [Operator -> 0 .. Chunks]

GcOK ==
    /\ counted \in [Operator -> SUBSET File] /\ list \in [Operator -> SUBSET File]
    /\ \A o \in Operator : list[o] \subseteq {f \in counted[o] : f.version # build[o]}

LEMMA TypeParts == TypeOK <=> DirOK /\ ProcOK /\ GcOK
  BY DEF TypeOK, DirOK, ProcOK, GcOK

(* Steps that leave the directory alone.                                   *)
Elsewhere(o) ==
    \/ Connect(o) \/ OpenFails(o) \/ DdEnds(o) \/ DdFails(o) \/ Sum(o) \/ Drop(o) \/ Provide(o)
    \/ GcLists(o) \/ GcEnds(o)

LEMMA DirFrame ==
    ASSUME NEW o \in Operator, Elsewhere(o)
    PROVE  UNCHANGED dirVars
  BY DEF Elsewhere, Connect, Start, ConnectFails, AgentStarts, BinaryFails, StoreFails, Hello, Close,
         AgentExits, OpenFails, DdEnds, DdFails, Sum, Drop, Provide, GcLists, GcEnds

LEMMA DirStep ==
    ASSUME TypeOK, [Next]_vars
    PROVE  DirOK'
<1> USE TypeParts
<1>1. ASSUME UNCHANGED dirVars PROVE DirOK'
  BY <1>1 DEF DirOK, dirVars
<1>2. ASSUME NEW o \in Operator, Open(o) PROVE DirOK'
  <2>1. Touch(build[o]) /\ build[o] \in Version
    BY <1>2 DEF Open, ProcOK
  <2>2. data' \in [Version -> SUBSET (1 .. Chunks)] /\ exec' \subseteq exec
    BY <1>2 DEF Open, DirOK
  <2> QED BY <2>1, <2>2, TouchAdds DEF DirOK
<1>3. ASSUME NEW o \in Operator, Write(o) PROVE DirOK'
  <2>1. CASE o \in linked
    <3>1. Touch(build[o]) /\ build[o] \in Version /\ exec' = exec
      BY <1>3, <2>1 DEF Write, ProcOK
    <3>2. fed[o] + 1 \in 1 .. Chunks
      BY <1>3, SetupAssumption DEF Write, ProcOK
    <3>3. data' \in [Version -> SUBSET (1 .. Chunks)]
      BY <1>3, <2>1, <3>1, <3>2 DEF Write, DirOK
    <3> QED BY <3>1, <3>3, TouchAdds DEF DirOK
  <2>2. CASE o \notin linked
    BY <1>3, <2>2 DEF Write, DirOK
  <2> QED BY <2>1, <2>2
<1>4. ASSUME NEW o \in Operator, Chmod(o) PROVE DirOK'
  BY <1>4 DEF Chmod, DirOK, Present
<1>5. ASSUME NEW o \in Operator, GcRemoves(o) PROVE DirOK'
  <2>1. PICK f \in list[o] : /\ order' = Without(order, f.version) /\ old' = old \ {f.version}
                             /\ exec' = exec \ {f.version}
                             /\ data' = [data EXCEPT ![f.version] = {}]
    BY <1>5 DEF GcRemoves
  <2>2. data' \in [Version -> SUBSET (1 .. Chunks)]
    BY <2>1 DEF DirOK
  <2> QED BY <2>1, <2>2, WithoutOne DEF DirOK
<1>6. CASE Day
  BY <1>6 DEF Day, DirOK
<1>7. CASE UNCHANGED vars
  BY <1>1, <1>7 DEF vars
<1> QED BY <1>1, <1>2, <1>3, <1>4, <1>5, <1>6, <1>7, DirFrame DEF Next, Install, Gc, Elsewhere

LEMMA ProcStep ==
    ASSUME TypeOK, [Next]_vars
    PROVE  ProcOK'
<1> USE TypeParts DEF ProcOK, Ends, Goes, Stays, Runs, NoHello, driverVars, historyVars
<1>1. ASSUME NEW o \in Operator, Start(o) PROVE ProcOK'
  BY <1>1 DEF Start
<1>2. ASSUME NEW o \in Operator, ConnectFails(o) \/ AgentStarts(o) \/ Hello(o) \/ Close(o) \/ AgentExits(o)
      PROVE  ProcOK'
  BY <1>2 DEF ConnectFails, AgentStarts, Hello, Close, AgentExits
<1>3. ASSUME NEW o \in Operator, BinaryFails(o) \/ StoreFails(o) PROVE ProcOK'
  BY <1>3 DEF BinaryFails, StoreFails
<1>4. ASSUME NEW o \in Operator, Open(o) PROVE ProcOK'
  BY <1>4 DEF Open
<1>5. ASSUME NEW o \in Operator, OpenFails(o) \/ Write(o) \/ DdEnds(o) PROVE ProcOK'
  <2>1. CASE OpenFails(o) \/ DdEnds(o)
    BY <2>1, SetupAssumption DEF OpenFails, DdEnds
  <2>2. CASE Write(o)
    <3>1. fed[o] + 1 \in 0 .. Chunks
      BY <2>2, SetupAssumption DEF Write
    <3> QED BY <2>2, <3>1 DEF Write
  <2> QED BY <1>5, <2>1, <2>2
<1>6. ASSUME NEW o \in Operator, DdFails(o) \/ Chmod(o) \/ Sum(o) \/ Drop(o) \/ Provide(o) PROVE ProcOK'
  <2>1. CASE DdFails(o)
    BY <2>1, SetupAssumption DEF DdFails
  <2>2. CASE Chmod(o)
    BY <2>2 DEF Chmod
  <2>3. CASE Sum(o)
    BY <2>3 DEF Sum
  <2>4. CASE Drop(o) \/ Provide(o)
    BY <2>4 DEF Drop, Provide
  <2> QED BY <1>6, <2>1, <2>2, <2>3, <2>4
<1>7. ASSUME NEW o \in Operator, GcLists(o) \/ GcEnds(o) PROVE ProcOK'
  BY <1>7 DEF GcLists, GcEnds
<1>8. ASSUME NEW o \in Operator, GcRemoves(o) PROVE ProcOK'
  BY <1>8 DEF GcRemoves
<1>9. CASE Day \/ UNCHANGED vars
  BY <1>9 DEF Day, vars
<1> QED BY <1>1, <1>2, <1>3, <1>4, <1>5, <1>6, <1>7, <1>8, <1>9 DEF Next, Connect, Install, Gc

(* Steps of the driver and of what runs for it, with no gc involved.       *)
LEMMA GcFrame ==
    ASSUME NEW o \in Operator, Connect(o) \/ Install(o)
    PROVE  UNCHANGED gcVars /\ (build' # build => Start(o))
  BY DEF Connect, Start, ConnectFails, AgentStarts, BinaryFails, StoreFails, Hello, Close,
         AgentExits, Install, Open, OpenFails, Write, DdEnds, DdFails, Chmod, Sum, Drop, Provide,
         Ends, Goes, Stays, Runs, NoHello, driverVars

LEMMA GcStep ==
    ASSUME TypeOK, InStep, [Next]_vars
    PROVE  GcOK'
<1> USE TypeParts
<1>1. ASSUME UNCHANGED gcVars, build' = build PROVE GcOK'
  BY <1>1 DEF GcOK, gcVars
<1>2. ASSUME NEW o \in Operator, Start(o) PROVE GcOK'
  <2>1. UNCHANGED gcVars /\ list[o] = {} /\ \A p \in Operator : p # o => build'[p] = build[p]
    BY <1>2 DEF Start, InStep, ProcOK
  <2> QED BY <2>1 DEF GcOK, gcVars
<1>3. ASSUME NEW o \in Operator, GcLists(o) PROVE GcOK'
  <2>1. Files \subseteq File
    <3> SUFFICES ASSUME NEW i \in DOMAIN order
                 PROVE  [version |-> order[i], place |-> i, size |-> Size(order[i])] \in File
      BY DEF Files
    <3>1. order[i] \in Version /\ i \in Nat \ {0}
      BY DEF DirOK
    <3> QED BY <3>1, SizeType DEF File
  <2>2. /\ counted' = [counted EXCEPT ![o] = Files] /\ UNCHANGED build
        /\ list' = [list EXCEPT ![o] = {f \in Files : f.version \in Deletable(o)}]
    BY <1>3 DEF GcLists, driverVars
  <2> QED BY <2>1, <2>2 DEF GcOK, Deletable
<1>4. ASSUME NEW o \in Operator, GcRemoves(o) PROVE GcOK'
  <2>1. /\ UNCHANGED build
        /\ \E f \in list[o] : /\ counted' = [counted EXCEPT ![o] = @ \ {f}]
                              /\ list' = [list EXCEPT ![o] = @ \ {f}]
    BY <1>4 DEF GcRemoves, driverVars
  <2> QED BY <2>1 DEF GcOK
<1>5. ASSUME NEW o \in Operator, GcEnds(o) PROVE GcOK'
  <2>1. /\ counted' = [counted EXCEPT ![o] = {}] /\ list' = [list EXCEPT ![o] = {}]
        /\ UNCHANGED build
    BY <1>5 DEF GcEnds, driverVars
  <2> QED BY <2>1 DEF GcOK
<1>6. CASE Day
  BY <1>1, <1>6 DEF Day, driverVars
<1>7. CASE UNCHANGED vars
  BY <1>1, <1>7 DEF vars, driverVars
<1> QED BY <1>1, <1>2, <1>3, <1>4, <1>5, <1>6, <1>7, GcFrame DEF Next, Gc

(* A process ends, or goes on, with its driver or after its driver left.   *)
LEMMA InStepStep ==
    ASSUME TypeOK, InStep, [Next]_vars
    PROVE  InStep'
<1> USE TypeParts DEF ProcOK, GcOK, InStep, Ends, Goes, Stays, Runs, NoHello, driverVars, historyVars, gcVars
<1>1. ASSUME NEW o \in Operator, Start(o) \/ ConnectFails(o) \/ AgentStarts(o) \/ Hello(o)
      PROVE  InStep'
  BY <1>1 DEF Start, ConnectFails, AgentStarts, Connecting, Hello
<1>2. ASSUME NEW o \in Operator, Close(o) \/ AgentExits(o) PROVE InStep'
  BY <1>2 DEF Close, AgentExits
<1>3. ASSUME NEW o \in Operator, BinaryFails(o) PROVE InStep'
  BY <1>3 DEF BinaryFails, Connecting
<1>4. ASSUME NEW o \in Operator, StoreFails(o) PROVE InStep'
  BY <1>4 DEF StoreFails
<1>5. ASSUME NEW o \in Operator, Open(o) PROVE InStep'
  BY <1>5 DEF Open
<1>6. ASSUME NEW o \in Operator, OpenFails(o) \/ Write(o) \/ DdEnds(o) PROVE InStep'
  BY <1>6 DEF OpenFails, Write, DdEnds
<1>7. ASSUME NEW o \in Operator, DdFails(o) \/ Drop(o) \/ Provide(o) PROVE InStep'
  BY <1>7 DEF DdFails, Drop, Provide
<1>8. ASSUME NEW o \in Operator, Chmod(o) PROVE InStep'
  BY <1>8 DEF Chmod
<1>9. ASSUME NEW o \in Operator, Sum(o) PROVE InStep'
  BY <1>9 DEF Sum
<1>10. ASSUME NEW o \in Operator, GcLists(o) \/ GcEnds(o) PROVE InStep'
  BY <1>10 DEF GcLists, GcEnds
<1>11. ASSUME NEW o \in Operator, GcRemoves(o) PROVE InStep'
  BY <1>11 DEF GcRemoves
<1>12. CASE Day \/ UNCHANGED vars
  BY <1>12 DEF Day, vars
<1> QED BY <1>1, <1>2, <1>3, <1>4, <1>5, <1>6, <1>7, <1>8, <1>9, <1>10, <1>11, <1>12
        DEF Next, Connect, Install, Gc
-----------------------------------------------------------------------------
(* Nobody interferes with an install unnoticed.                            *)
LEMMA InstallStep ==
    ASSUME TypeOK, InStep, InstallInv, [Next]_vars
    PROVE  InstallInv'
<1> USE TypeParts
<1> SUFFICES ASSUME NEW o \in Operator, o \notin raced' PROVE Installing(o)'
  BY DEF InstallInv
<1> USE DEF ProcOK, InStep, InstallInv, Installing, Owned, Present, Listing, Writers, Whole,
            Ends, Goes, Stays, Runs, NoHello, dirVars, driverVars, historyVars, gcVars
<1>1. ASSUME NEW p \in Operator, Start(p) \/ ConnectFails(p) \/ AgentStarts(p) PROVE Installing(o)'
  <2>1. CASE Start(p)
    BY <1>1, <2>1 DEF Start
  <2>2. CASE ConnectFails(p)
    BY <2>2 DEF ConnectFails
  <2>3. CASE AgentStarts(p)
    BY <2>3 DEF AgentStarts, Connecting
  <2> QED BY <1>1, <2>1, <2>2, <2>3
<1>2. ASSUME NEW p \in Operator, Hello(p) \/ Close(p) \/ AgentExits(p) PROVE Installing(o)'
  BY <1>2 DEF Hello, Close, AgentExits
<1>3. ASSUME NEW p \in Operator, BinaryFails(p) \/ StoreFails(p) PROVE Installing(o)'
  BY <1>3 DEF BinaryFails, StoreFails
<1>4. ASSUME NEW p \in Operator, Open(p) PROVE Installing(o)'
  <2>1. /\ Range(order') = Range(order) \cup {build[p]} /\ old' = old \ {build[p]}
        /\ data' = [data EXCEPT ![build[p]] = {}] /\ data \in [Version -> SUBSET (1 .. Chunks)]
    BY <1>4, TouchAdds DEF Open, DirOK
  <2> QED BY <1>4, <2>1 DEF Open
<1>5. ASSUME NEW p \in Operator, Write(p) PROVE Installing(o)'
  <2>1. CASE p \in linked
    <3>1. /\ Range(order') = Range(order) \cup {build[p]} /\ old' = old \ {build[p]}
          /\ data' = [data EXCEPT ![build[p]] = @ \cup {fed[p] + 1}]
          /\ data \in [Version -> SUBSET (1 .. Chunks)]
      BY <1>5, <2>1, TouchAdds DEF Write, DirOK
    <3> QED BY <1>5, <2>1, <3>1 DEF Write
  <2>2. CASE p \notin linked
    BY <1>5, <2>2 DEF Write
  <2> QED BY <2>1, <2>2
<1>6. ASSUME NEW p \in Operator, OpenFails(p) \/ DdFails(p) \/ Drop(p) \/ Provide(p) PROVE Installing(o)'
  BY <1>6 DEF OpenFails, DdFails, Drop, Provide
<1>7. ASSUME NEW p \in Operator, DdEnds(p) PROVE Installing(o)'
  <2>1. CASE p = o /\ driver[o] = "send"
    <3>1. data[build[o]] \subseteq 1 .. Chunks /\ fed[o] = Chunks
      BY <1>7, <2>1 DEF DirOK, DdEnds, EndOfInput
    <3>2. o \notin raced /\ build' = build /\ data' = data /\ order' = order /\ old' = old /\ list' = list
      BY <1>7, <2>1 DEF DdEnds
    <3>3. Whole(build[o])
      BY <2>1, <3>1, <3>2
    <3>4. /\ remote' = [remote EXCEPT ![o] = "chmod"] /\ linked' = linked \ {o}
          /\ driver' = [driver EXCEPT ![o] = "verify"]
      BY <1>7, <2>1 DEF DdEnds
    <3>5. Writers(build[o])' = {}
      BY <2>1, <3>2, <3>4
    <3> QED BY <2>1, <3>2, <3>3, <3>4, <3>5
  <2>2. CASE ~(p = o /\ driver[o] = "send")
    BY <1>7, <2>2 DEF DdEnds
  <2> QED BY <2>1, <2>2
<1>8. ASSUME NEW p \in Operator, Chmod(p) PROVE Installing(o)'
  BY <1>8 DEF Chmod
<1>9. ASSUME NEW p \in Operator, Sum(p) PROVE Installing(o)'
  BY <1>9 DEF Sum
<1>10. ASSUME NEW p \in Operator, GcLists(p) PROVE Installing(o)'
  BY <1>10 DEF GcLists, Deletable, GcOK
<1>11. ASSUME NEW p \in Operator, GcEnds(p) PROVE Installing(o)'
  BY <1>11 DEF GcEnds, GcOK
<1>12. ASSUME NEW p \in Operator, GcRemoves(p) PROVE Installing(o)'
  <2>1. PICK f \in list[p] :
            /\ order' = Without(order, f.version) /\ old' = old \ {f.version}
            /\ exec' = exec \ {f.version} /\ data' = [data EXCEPT ![f.version] = {}]
            /\ linked' = {q \in linked : build[q] # f.version}
            /\ list' = [list EXCEPT ![p] = @ \ {f}]
    BY <1>12 DEF GcRemoves
  <2>2. Range(order') = Range(order) \ {f.version}
    BY <2>1, WithoutOne DEF DirOK
  <2>3. data \in [Version -> SUBSET (1 .. Chunks)] /\ list \in [Operator -> SUBSET File]
    BY DEF DirOK, GcOK
  <2>4. UNCHANGED <<build, driver, remote, fed, raced>>
    BY <1>12 DEF GcRemoves
  <2>5. CASE driver[o] \in {"send", "verify", "reconnect"}
    <3>1. o \notin raced /\ f.version # build[o] /\ build[o] \in Version
      BY <2>1, <2>4, <2>5
    <3> QED BY <2>1, <2>2, <2>3, <2>4, <2>5, <3>1
  <2>6. CASE driver[o] \notin {"send", "verify", "reconnect"}
    BY <2>4, <2>6
  <2> QED BY <2>5, <2>6
<1>13. CASE Day
  BY <1>13 DEF Day
<1>14. CASE UNCHANGED vars
  BY <1>14 DEF vars
<1> QED BY <1>1, <1>2, <1>3, <1>4, <1>5, <1>6, <1>7, <1>8, <1>9, <1>10, <1>11, <1>12, <1>13, <1>14
        DEF Next, Connect, Install, Gc
LEMMA LinkedStep ==
    ASSUME TypeOK, InStep, LinkedInv, [Next]_vars
    PROVE  LinkedInv'
<1> USE TypeParts DEF ProcOK, InStep, LinkedInv, Present, Ends, Goes, Stays, Runs, NoHello,
                      dirVars, driverVars, historyVars, gcVars
<1>1. ASSUME NEW p \in Operator, Start(p) \/ ConnectFails(p) \/ BinaryFails(p) \/ Hello(p) \/ Close(p)
      PROVE  LinkedInv'
  BY <1>1 DEF Start, ConnectFails, BinaryFails, Hello, Close
<1>2. ASSUME NEW p \in Operator, AgentStarts(p) \/ StoreFails(p) \/ AgentExits(p)
      PROVE  LinkedInv'
  BY <1>2 DEF AgentStarts, Runnable, StoreFails, AgentExits
<1>3. ASSUME NEW p \in Operator, Open(p) PROVE LinkedInv'
  <2>1. Range(order') = Range(order) \cup {build[p]}
    BY <1>3, TouchAdds DEF Open
  <2> QED BY <1>3, <2>1 DEF Open
<1>4. ASSUME NEW p \in Operator, Write(p) PROVE LinkedInv'
  <2>1. CASE p \in linked
    <3>1. Range(order') = Range(order) \cup {build[p]}
      BY <1>4, <2>1, TouchAdds DEF Write
    <3> QED BY <1>4, <3>1 DEF Write
  <2>2. CASE p \notin linked
    BY <1>4, <2>2 DEF Write
  <2> QED BY <2>1, <2>2
<1>5. ASSUME NEW p \in Operator, OpenFails(p) \/ DdEnds(p) \/ DdFails(p) \/ Drop(p) \/ Provide(p)
      PROVE  LinkedInv'
  BY <1>5 DEF OpenFails, DdEnds, DdFails, Drop, Provide
<1>6. ASSUME NEW p \in Operator, Chmod(p) \/ Sum(p) PROVE LinkedInv'
  BY <1>6 DEF Chmod, Sum
<1>7. ASSUME NEW p \in Operator, GcLists(p) \/ GcEnds(p) PROVE LinkedInv'
  BY <1>7 DEF GcLists, GcEnds
<1>8. ASSUME NEW p \in Operator, GcRemoves(p) PROVE LinkedInv'
  <2>1. PICK f \in list[p] :
            /\ order' = Without(order, f.version) /\ old' = old \ {f.version}
            /\ exec' = exec \ {f.version} /\ data' = [data EXCEPT ![f.version] = {}]
            /\ linked' = {q \in linked : build[q] # f.version}
            /\ list' = [list EXCEPT ![p] = @ \ {f}]
    BY <1>8 DEF GcRemoves
  <2>2. Range(order') = Range(order) \ {f.version}
    BY <2>1, WithoutOne DEF DirOK
  <2> QED BY <1>8, <2>1, <2>2 DEF GcRemoves
<1>9. CASE Day \/ UNCHANGED vars
  BY <1>9 DEF Day, vars
<1> QED BY <1>1, <1>2, <1>3, <1>4, <1>5, <1>6, <1>7, <1>8, <1>9 DEF Next, Connect, Install, Gc
-----------------------------------------------------------------------------
(* A file is completed by who truncated it last, or known as cut short.    *)
LEMMA CutStep ==
    ASSUME TypeOK, InStep, LinkedInv, CutInv, [Next]_vars
    PROVE  CutInv'
<1> USE TypeParts
<1> SUFFICES ASSUME NEW v \in Version, Present(v)', ~Whole(v)', v \notin cut'
             PROVE  \E q \in Operator : Sending(q, v)'
  BY DEF CutInv
<1>0. ASSUME Present(v), ~Whole(v), v \notin cut,
             \A q \in Operator : Sending(q, v) => Sending(q, v)'
      PROVE  \E q \in Operator : Sending(q, v)'
  BY <1>0 DEF CutInv
<1> USE DEF ProcOK, InStep, Sending, Present, Whole,
            Ends, Goes, Stays, Runs, NoHello, dirVars, driverVars, historyVars, gcVars
<1>1. ASSUME NEW p \in Operator, Connect(p)
      PROVE  \E q \in Operator : Sending(q, v)'
  <2>1. UNCHANGED dirVars /\ UNCHANGED <<cut, fed>>
    BY <1>1 DEF Connect, Start, ConnectFails, AgentStarts, BinaryFails, StoreFails, Hello, Close, AgentExits
  <2>2. \A q \in Operator : driver[q] = "send" => driver'[q] = "send" /\ build'[q] = build[q]
    <3>1. CASE Start(p) \/ ConnectFails(p) \/ AgentStarts(p) \/ BinaryFails(p)
      BY <3>1 DEF Start, ConnectFails, AgentStarts, BinaryFails, Connecting
    <3>2. CASE StoreFails(p) \/ Hello(p) \/ Close(p) \/ AgentExits(p)
      BY <3>2 DEF StoreFails, Hello, Close, AgentExits
    <3> QED BY <1>1, <3>1, <3>2 DEF Connect
  <2>3. \A q \in Operator : driver[q] = "send" /\ q \in linked => q \in linked'
    BY <1>1 DEF Connect, Start, ConnectFails, AgentStarts, BinaryFails, StoreFails, Hello, Close, AgentExits
  <2> QED BY <1>0, <2>1, <2>2, <2>3
<1>2. ASSUME NEW p \in Operator, Open(p)
      PROVE  \E q \in Operator : Sending(q, v)'
  <2>1. Range(order') = Range(order) \cup {build[p]}
    BY <1>2, TouchAdds DEF Open
  <2>2. CASE v = build[p]
    <3>1. p \in cache /\ remote[p] = "none" /\ fed' = fed /\ build' = build
      BY <1>2, <2>2 DEF Open
    <3>2. driver'[p] = "send" /\ p \in linked' /\ fed'[p] = 0
      BY <1>2, <3>1 DEF Open
    <3> QED BY <2>2, <3>1, <3>2
  <2>3. CASE v # build[p]
    BY <1>0, <1>2, <2>1, <2>3 DEF Open, DirOK
  <2> QED BY <2>2, <2>3
<1>3. ASSUME NEW p \in Operator, Write(p)
      PROVE  \E q \in Operator : Sending(q, v)'
  <2>1. CASE p \in linked
    <3>1. /\ Range(order') = Range(order) \cup {build[p]}
          /\ data' = [data EXCEPT ![build[p]] = @ \cup {fed[p] + 1}]
          /\ data \in [Version -> SUBSET (1 .. Chunks)]
          /\ driver[p] = "send" /\ fed' = [fed EXCEPT ![p] = @ + 1]
          /\ UNCHANGED <<build, driver, linked, cut>>
      BY <1>3, <2>1, TouchAdds DEF Write, DirOK
    <3>2. CASE Sending(p, v)
      <4>1. data'[v] = data[v] \cup {fed[p] + 1} /\ fed'[p] = fed[p] + 1 /\ fed[p] \in Nat
        BY <3>1, <3>2
      <4>2. 1 .. fed'[p] \subseteq data'[v]
        BY <3>2, <4>1
      <4> QED BY <3>1, <3>2, <4>2
    <3>3. CASE ~Sending(p, v)
      <4>1. \A q \in Operator : Sending(q, v) => Sending(q, v)'
        BY <3>1, <3>3
      <4>2. CASE v = build[p]
        <5>1. Present(v)
          BY <2>1, <4>2 DEF LinkedInv
        <5>2. data'[v] = data[v] \cup {fed[p] + 1}
          BY <3>1, <4>2
        <5>3. data'[v] \subseteq 1 .. Chunks /\ ~Whole(v)
          <6>1. fed[p] + 1 \in 1 .. Chunks
            BY <1>3, SetupAssumption DEF Write
          <6>2. data[v] \subseteq 1 .. Chunks
            BY <3>1
          <6> QED BY <5>2, <6>1, <6>2
        <5> QED BY <1>0, <3>1, <4>1, <5>1, <5>3
      <4>3. CASE v # build[p]
        BY <1>0, <3>1, <4>1, <4>3
      <4> QED BY <4>2, <4>3
    <3> QED BY <3>2, <3>3
  <2>2. CASE p \notin linked
    BY <1>0, <1>3, <2>2 DEF Write
  <2> QED BY <2>1, <2>2
<1>4. ASSUME NEW p \in Operator, OpenFails(p) \/ DdFails(p) \/ Drop(p) \/ Provide(p)
      PROVE  \E q \in Operator : Sending(q, v)'
  <2>1. CASE OpenFails(p)
    BY <1>0, <2>1 DEF OpenFails
  <2>2. CASE DdFails(p)
    BY <1>0, <2>2 DEF DdFails
  <2>3. CASE Drop(p)
    BY <1>0, <2>3 DEF Drop
  <2>4. CASE Provide(p)
    BY <1>0, <2>4 DEF Provide
  <2> QED BY <1>4, <2>1, <2>2, <2>3, <2>4
<1>5. ASSUME NEW p \in Operator, DdEnds(p)
      PROVE  \E q \in Operator : Sending(q, v)'
  <2>1. UNCHANGED dirVars /\ UNCHANGED cut
    BY <1>5 DEF DdEnds
  <2>2. ~Sending(p, v)
    <3>1. SUFFICES ASSUME Sending(p, v) PROVE FALSE
      OBVIOUS
    <3>2. fed[p] = Chunks /\ 1 .. Chunks \subseteq data[v] /\ data' = data
      BY <1>5, <3>1 DEF DdEnds, EndOfInput
    <3>3. data[v] \subseteq 1 .. Chunks
      BY DEF DirOK
    <3> QED BY <3>2, <3>3
  <2>3. \A q \in Operator : Sending(q, v) => Sending(q, v)'
    BY <1>5, <2>1, <2>2 DEF DdEnds
  <2> QED BY <1>0, <2>1, <2>3
<1>6. ASSUME NEW p \in Operator, Chmod(p)
      PROVE  \E q \in Operator : Sending(q, v)'
  BY <1>0, <1>6 DEF Chmod
<1>7. ASSUME NEW p \in Operator, Sum(p)
      PROVE  \E q \in Operator : Sending(q, v)'
  <2>1. UNCHANGED dirVars /\ UNCHANGED <<build, fed, linked>>
    BY <1>7 DEF Sum
  <2>2. \A q \in Operator : driver[q] = "send" => driver'[q] = "send"
    BY <1>7 DEF Sum
  <2>3. v \in cut => v \in cut'
    <3>1. SUFFICES ASSUME v \in cut, v \notin cut' PROVE FALSE
      OBVIOUS
    <3>2. v = build[p] /\ driver'[p] = "reconnect"
      BY <1>7, <3>1 DEF Sum
    <3>3. driver[p] = "verify"
      BY <1>7, <3>2 DEF Sum
    <3>4. Whole(v)
      BY <1>7, <3>2, <3>3 DEF Sum
    <3> QED BY <2>1, <3>4
  <2> QED BY <1>0, <2>1, <2>2, <2>3
<1>8. ASSUME NEW p \in Operator, GcLists(p) \/ GcEnds(p)
      PROVE  \E q \in Operator : Sending(q, v)'
  BY <1>0, <1>8 DEF GcLists, GcEnds
<1>9. ASSUME NEW p \in Operator, GcRemoves(p)
      PROVE  \E q \in Operator : Sending(q, v)'
  <2>1. PICK f \in list[p] :
            /\ order' = Without(order, f.version) /\ old' = old \ {f.version}
            /\ exec' = exec \ {f.version} /\ data' = [data EXCEPT ![f.version] = {}]
            /\ linked' = {q \in linked : build[q] # f.version}
            /\ list' = [list EXCEPT ![p] = @ \ {f}]
    BY <1>9 DEF GcRemoves
  <2>2. v \in Range(order) /\ v # f.version
    BY <2>1, WithoutOne DEF DirOK
  <2>3. data'[v] = data[v] /\ UNCHANGED <<build, driver, fed, cut>>
    BY <1>9, <2>1, <2>2 DEF DirOK, GcRemoves
  <2> QED BY <1>0, <2>1, <2>2, <2>3
<1>10. CASE Day
  BY <1>0, <1>10 DEF Day
<1>11. CASE UNCHANGED vars
  BY <1>0, <1>11 DEF vars
<1> QED BY <1>1, <1>2, <1>3, <1>4, <1>5, <1>6, <1>7, <1>8, <1>9, <1>10, <1>11 DEF Next, Install, Gc

LEMMA SetupInit ==
    ASSUME Init
    PROVE  SetupInv
<1>1. order \in Seq(Version) /\ IsInjective(order)
  <2>1. PICK S \in SUBSET Version : order \in SetToSeqs(S)
    BY DEF Init, SetToAllKPermutations
  <2>2. Cardinality(S) \in Nat
    BY SetupAssumption, FS_Subset, FS_CardinalityType
  <2> QED BY <2>1, <2>2 DEF SetToSeqs, IsInjective
<1>2. Range(order) \subseteq Version
  BY <1>1 DEF Range
<1>3. DirOK
  BY <1>1 DEF Init, DirOK
<1>4. ProcOK
  BY SetupAssumption DEF Init, ProcOK
<1>5. GcOK
  BY DEF Init, GcOK
<1>6. InStep /\ LinkedInv /\ InstallInv /\ CutInv
  BY <1>2 DEF Init, InStep, LinkedInv, InstallInv, Installing, CutInv, Present, Whole
<1> QED BY <1>3, <1>4, <1>5, <1>6, TypeParts DEF SetupInv

(* Where the drivers and their processes are, which files are safe from    *)
(* whom, and which can be left broken, is inductive together.              *)
THEOREM SetupInvariant == Spec => []SetupInv
<1>1. Init => SetupInv
  BY SetupInit
<1>2. SetupInv /\ [Next]_vars => SetupInv'
  <2> SUFFICES ASSUME SetupInv, [Next]_vars PROVE SetupInv'
    OBVIOUS
  <2>1. DirOK' /\ ProcOK' /\ GcOK'
    BY DirStep, ProcStep, GcStep DEF SetupInv
  <2>2. TypeOK'
    BY <2>1 DEF TypeOK, DirOK, ProcOK, GcOK
  <2>3. InStep' /\ LinkedInv' /\ InstallInv' /\ CutInv'
    BY InStepStep, LinkedStep, InstallStep, CutStep DEF SetupInv
  <2> QED BY <2>2, <2>3 DEF SetupInv
<1> QED BY <1>1, <1>2, PTL DEF Spec

(* Type correctness: the gc never lists the agent's own binary, and the    *)
(* size it subtracts is always part of the total it computed.              *)
THEOREM TypeCorrect == Spec => []TypeOK
<1>1. SetupInv => TypeOK
  BY DEF SetupInv
<1> QED BY <1>1, SetupInvariant, PTL

(* A binary that install verified can be run by the connect that follows,  *)
(* whoever installs and collects garbage in between, unless somebody       *)
(* installed over it or a gc had listed it before.                         *)
THEOREM VerifiedBinariesRun == Spec => []VerifiedRuns
<1>1. SetupInv => VerifiedRuns
  BY DEF SetupInv, InstallInv, Installing, Owned, VerifiedRuns, Runnable
<1> QED BY <1>1, SetupInvariant, PTL

(* A host whose agent cannot be started, and is not taken for one without  *)
(* an agent either, got that way by an install that was cut short.         *)
THEOREM LockedOutByCuts == Spec => OnlyCutShort
<1>1. SetupInv /\ [Next]_vars =>
          [\A o \in Operator :
              outcome[o] # "ProtocolError" /\ outcome'[o] = "ProtocolError" => build[o] \in cut]_vars
  <2> SUFFICES ASSUME SetupInv, [Next]_vars, NEW o \in Operator,
                      outcome[o] # "ProtocolError", outcome'[o] = "ProtocolError"
               PROVE  build[o] \in cut
    OBVIOUS
  <2> USE TypeParts DEF SetupInv, ProcOK, Ends, Goes, Stays, Runs, driverVars
  <2>1. ASSUME NEW p \in Operator, BinaryFails(p)
        PROVE  build[o] \in cut
    <3>1. PICK code \in ExitCodes(build[p]) : NoHello(p, code)
      BY <2>1 DEF BinaryFails
    <3>2. p = o /\ code # 1
      BY <3>1 DEF NoHello
    <3>3. Present(build[o]) /\ ~Whole(build[o]) /\ Writers(build[o]) = {}
      BY <3>1, <3>2 DEF ExitCodes
    <3>4. ~\E q \in Operator : Sending(q, build[o])
      BY <3>3 DEF Sending, Writers, InStep
    <3> QED BY <3>3, <3>4 DEF CutInv
  <2>2. ASSUME NEW p \in Operator, Connect(p), ~BinaryFails(p)
        PROVE  FALSE
    BY <2>2 DEF Connect, Start, ConnectFails, AgentStarts, StoreFails, NoHello, Hello, Close, AgentExits
  <2>3. ASSUME NEW p \in Operator, Install(p)
        PROVE  FALSE
    <3>1. CASE Open(p)
      BY <3>1 DEF Open
    <3>2. CASE OpenFails(p) \/ Write(p) \/ DdEnds(p) \/ DdFails(p)
      BY <3>2 DEF OpenFails, Write, DdEnds, DdFails
    <3>3. CASE Chmod(p) \/ Sum(p) \/ Drop(p) \/ Provide(p)
      BY <3>3 DEF Chmod, Sum, Drop, Provide
    <3> QED BY <2>3, <3>1, <3>2, <3>3 DEF Install
  <2>4. ASSUME NEW p \in Operator, Gc(p)
        PROVE  FALSE
    BY <2>4 DEF Gc, GcLists, GcRemoves, GcEnds
  <2>5. CASE Day \/ UNCHANGED vars
    BY <2>5 DEF Day, vars
  <2> QED BY <2>1, <2>2, <2>3, <2>4, <2>5 DEF Next
<1> QED BY <1>1, SetupInvariant, PTL DEF Spec, OnlyCutShort
=============================================================================
