---------------------------- MODULE KvmVmsProofs ----------------------------
(***************************************************************************)
(* What LibvirtBackend and HarvesterBackend keep to, for any number of     *)
(* nodes, hosts, runs and faults.                                          *)
(***************************************************************************)
EXTENDS KvmVms, FiniteSetTheorems, FunctionTheorems, SequenceTheorems, WellFoundedInduction, TLAPS

(***************************************************************************)
(* The order of a worker's calls                                           *)
(***************************************************************************)
\* The steps of a worker come in this order; a reboot is asked for by several.
Rank(op) ==
    CASE op = "keep?" -> 1
      [] op = "locate" -> 2
      [] op = "unregister" -> 3
      [] op \in {"destroy", "stop"} -> 4
      [] op \in {"undefine", "delete"} -> 5
      [] op = "select" -> 6
      [] op = "allocate" -> 7
      [] op \in {"copy", "answer"} -> 8
      [] op = "customize" -> 9
      [] op = "push" -> 10
      [] op = "stage" -> 11
      [] op = "seed" -> 12
      [] op \in {"install", "install-iso", "apply"} -> 13
      [] op = "virsh-destroy" -> 14
      [] op = "edit" -> 15
      [] op = "virsh-start" -> 16
      [] op = "virsh-reboot" -> 17
      [] op = "register" -> 18
      [] OTHER -> 19
Before(x, y) == Rank(x) < Rank(y) \/ y = "virsh-reboot" \/ (Rank(x) = 19 /\ Rank(y) = 19)

\* Every call there is.
Rebooting == {"online", "probe", "virsh-reboot", "listen", "rebooted?", "virsh-shutdown", "stopped?", "start-again", "reset"}
AllKinds == Rebooting \cup
    {"keep?", "locate", "unregister", "destroy", "undefine", "select", "allocate", "push", "register", "stop", "delete",
     "apply", "restart", "copy", "customize", "stage", "seed", "install", "answer", "install-iso", "virsh-destroy",
     "edit", "virsh-start"}

\* The calls that follow a call, by what they are for.
Makers == {"install", "install-iso", "apply"}
MakeOf(l) == IF l.kind = "harvester" THEN {"apply"}
             ELSE IF l.method \in {"autoinstall", "location"} THEN {"install-iso"} ELSE {"install"}
FilesOf(l) == IF l.kind = "libvirt" /\ l.method = "virt_customize" THEN {"copy", "customize"}
              ELSE IF l.kind = "libvirt" /\ l.method = "cloud-init" THEN {"stage", "seed"} ELSE {}
RemoveOf(l) == IF l.kind = "libvirt" THEN "undefine" ELSE "delete"
SelectOf(l) == IF l.kind = "libvirt" THEN {"select"} ELSE {}
Must(l, op) ==
    CASE op = "keep?" -> MakeOf(l) \cup FilesOf(l) \cup SelectOf(l) \cup {"register", "unregister", RemoveOf(l)}
      [] op \in {"locate", "unregister", "destroy", "stop"} ->
            MakeOf(l) \cup FilesOf(l) \cup SelectOf(l) \cup {"register", RemoveOf(l)}
      [] op \in {"undefine", "delete"} -> MakeOf(l) \cup FilesOf(l) \cup SelectOf(l) \cup {"register"}
      [] op = "select" -> MakeOf(l) \cup FilesOf(l) \cup {"register"}
      [] op \in {"allocate", "answer", "customize", "push", "stage", "seed"} -> MakeOf(l)
      [] op = "copy" -> MakeOf(l) \cup (IF l.method = "virt_customize" THEN {"customize"} ELSE {})
      [] op \in Makers -> {"register"} \cup (IF l.method = "autoinstall" THEN {"edit"} ELSE {})
                          \cup (IF l.method \in {"autoinstall", "location"} THEN {"virsh-start"} ELSE {})
      [] op = "virsh-destroy" -> {"virsh-start"}
      [] op \in {"probe", "rebooted?"} -> {"reset"}
      [] op = "stopped?" -> {"start-again", "reset"}
      [] OTHER -> {}

\* The calls left, and what holds of them: they are in order, and what a call needs follows it.
Left(s) == {s[i] : i \in 1..Len(s)}
Ordered(s) == \A i, j \in 1..Len(s) : i < j => Before(s[i], s[j])
\* What a call needs follows it in s, or is one of w.
Follows(l, s, w) == \A i \in 1..Len(s) : \A o \in Must(l, s[i]) : o \in w \/ \E j \in 1..Len(s) : i < j /\ s[j] = o
Shape(l, s) == s \in Seq(AllKinds) /\ Ordered(s) /\ Follows(l, s, {}) /\ Left(s) \subseteq Left(Program(l))

(***************************************************************************)
(* Sequences of calls                                                      *)
(***************************************************************************)
\* Every nonempty set of numbers has a least one.
LEMMA Least == ASSUME NEW S, S \subseteq Nat, S # {} PROVE \E m \in S : \A k \in S : m <= k
<1>1. PICK R : IsWellFoundedOn(R, Nat) /\ R = {ss \in Nat \X Nat : ss[1] < ss[2]}
  <2> DEFINE R == {ss \in Nat \X Nat : ss[1] < ss[2]}
  <2>1. R = OpToRel(<, Nat)
    BY Zenon DEF OpToRel
  <2>2. IsWellFoundedOn(R, Nat)
    BY <2>1, NatLessThanWellFounded, Zenon
  <2> QED
    BY <2>2
<1>2. PICK m \in S : \A k \in S : ~(<<k, m>> \in R)
  BY <1>1, WFMin
<1>3. ASSUME NEW k \in S PROVE m <= k
  <2>1. k \in Nat /\ m \in Nat /\ <<k, m>> \in Nat \X Nat /\ <<k, m>>[1] = k /\ <<k, m>>[2] = m
    OBVIOUS
  <2>2. ~(k < m)
    BY <1>1, <1>2, <2>1
  <2> QED
    BY <2>1, <2>2
<1> QED
  BY <1>3

\* What is left of a sequence of calls after its first k.
LEMMA Suffix ==
    ASSUME NEW S, NEW s \in Seq(S), NEW k \in Nat \ {0}, NEW t, t = SubSeq(s, k + 1, Len(s))
    PROVE  /\ t \in Seq(S) /\ Len(s) \in Nat /\ Len(t) = IF k < Len(s) THEN Len(s) - k ELSE 0
           /\ \A i \in 1..Len(t) : i + k \in 1..Len(s) /\ t[i] = s[i + k]
           /\ \A i \in (k + 1)..Len(s) : i - k \in 1..Len(t) /\ t[i - k] = s[i]
<1>1. Len(s) \in Nat /\ \A i \in k + 1..Len(s) : s[i] \in S
  BY LenProperties, ElementOfSeq
<1>2. /\ t \in Seq(S) /\ Len(t) = IF k + 1 <= Len(s) THEN Len(s) - (k + 1) + 1 ELSE 0
      /\ \A i \in 1..Len(s) - (k + 1) + 1 : t[i] = s[k + 1 + i - 1]
  BY <1>1, SubSeqProperties
<1>3. Len(t) = IF k < Len(s) THEN Len(s) - k ELSE 0
  BY <1>1, <1>2
<1>4. ASSUME NEW i \in 1..Len(t) PROVE i + k \in 1..Len(s) /\ t[i] = s[i + k]
  <2>1. i \in 1..Len(s) - (k + 1) + 1 /\ k + 1 + i - 1 = i + k /\ i + k \in 1..Len(s)
    BY <1>1, <1>3
  <2> QED
    BY <1>2, <2>1
<1>5. ASSUME NEW i \in (k + 1)..Len(s) PROVE i - k \in 1..Len(t) /\ t[i - k] = s[i]
  <2>1. i - k \in 1..Len(t) /\ (i - k) + k = i
    BY <1>1, <1>3
  <2> QED
    BY <1>4, <2>1
<1> QED
  BY <1>1, <1>2, <1>3, <1>4, <1>5

\* After the k-th call come only calls that may follow it, with those it needs among them.
Rest(l, s, k, t) == Shape(l, s) /\ k \in 1..Len(s) /\ t = SubSeq(s, k + 1, Len(s))

\* The calls that follow the one at place k: each ranks later, and every call the code makes after that one is
\* among them.
LEMMA After ==
    ASSUME NEW l, NEW s, NEW k, NEW t, Rest(l, s, k, t)
    PROVE  /\ Shape(l, t) /\ Left(t) \subseteq Left(s) /\ s[k] \in Left(s) /\ (t = <<>> <=> Left(t) = {})
           /\ (Len(s) = k <=> Left(t) = {})
           /\ \A o \in Left(t) : Before(s[k], o)
           /\ Must(l, s[k]) \subseteq Left(t)
           /\ k = 1 => Left(s) = {s[1]} \cup Left(t)
<1> USE DEF Rest
<1>1. s \in Seq(AllKinds) /\ k \in Nat \ {0} /\ Len(s) \in Nat
  BY LenProperties DEF Shape
<1>2. /\ t \in Seq(AllKinds) /\ Len(t) = IF k < Len(s) THEN Len(s) - k ELSE 0
      /\ \A i \in 1..Len(t) : i + k \in 1..Len(s) /\ t[i] = s[i + k]
      /\ \A i \in (k + 1)..Len(s) : i - k \in 1..Len(t) /\ t[i - k] = s[i]
  BY <1>1, Suffix
<1>3. Len(t) \in Nat /\ (Len(s) = k <=> Len(t) = 0) /\ (t = <<>> <=> Len(t) = 0)
  <2>1. Len(t) \in Nat /\ (Len(s) = k <=> Len(t) = 0)
    BY <1>1, <1>2
  <2> QED
    BY <1>2, <2>1, EmptySeq
<1>4. (Len(t) = 0 <=> Left(t) = {})
  <2>1. Len(t) # 0 => 1 \in 1..Len(t)
    BY <1>3
  <2>2. Len(t) = 0 => 1..Len(t) = {}
    OBVIOUS
  <2> QED
    BY <2>1, <2>2 DEF Left
<1>5. Ordered(t)
  <2> SUFFICES ASSUME NEW i \in 1..Len(t), NEW j \in 1..Len(t), i < j PROVE Before(t[i], t[j])
    BY DEF Ordered
  <2>1. i + k \in 1..Len(s) /\ j + k \in 1..Len(s) /\ i + k < j + k
    BY <1>1, <1>2
  <2> QED
    BY <1>2, <2>1 DEF Shape, Ordered
<1>6. Follows(l, t, {})
  <2> SUFFICES ASSUME NEW i \in 1..Len(t), NEW o \in Must(l, t[i]) PROVE \E j \in 1..Len(t) : i < j /\ t[j] = o
    BY DEF Follows
  <2>1. i + k \in 1..Len(s) /\ t[i] = s[i + k]
    BY <1>2
  <2>2. PICK j \in 1..Len(s) : i + k < j /\ s[j] = o
    BY <2>1 DEF Shape, Follows
  <2>3. j \in (k + 1)..Len(s) /\ i < j - k
    BY <1>1, <1>3, <2>1, <2>2
  <2> QED
    BY <1>2, <2>2, <2>3
<1>7. \A o \in Left(t) : o \in Left(s) /\ Before(s[k], o)
  <2> SUFFICES ASSUME NEW i \in 1..Len(t) PROVE t[i] \in Left(s) /\ Before(s[k], t[i])
    BY DEF Left
  <2>1. i + k \in 1..Len(s) /\ t[i] = s[i + k] /\ k < i + k
    BY <1>1, <1>2, <1>3
  <2> QED
    BY <2>1 DEF Left, Shape, Ordered
<1>8. ASSUME NEW o \in Must(l, s[k]) PROVE o \in Left(t)
  <2>1. PICK j \in 1..Len(s) : k < j /\ s[j] = o
    BY DEF Shape, Follows
  <2>2. j \in (k + 1)..Len(s)
    BY <1>1, <2>1
  <2> QED
    BY <1>2, <2>1, <2>2 DEF Left
<1>9. ASSUME k = 1, NEW o \in Left(s) PROVE o = s[1] \/ o \in Left(t)
  <2>1. PICK i \in 1..Len(s) : o = s[i]
    BY <1>9 DEF Left
  <2>2. i = 1 \/ i \in (k + 1)..Len(s)
    BY <1>1, <1>9
  <2> QED
    BY <1>2, <2>1, <2>2 DEF Left
<1>10. s[k] \in Left(s)
  BY DEF Left
<1> QED
  BY <1>2, <1>3, <1>4, <1>5, <1>6, <1>7, <1>8, <1>9, <1>10 DEF Shape

\* The first call op that is left.
LEMMA FirstCall ==
    ASSUME NEW l, NEW s, Shape(l, s), NEW op \in Left(s)
    PROVE  \E i \in DOMAIN s : s[i] = op /\ (\A j \in 1..(i - 1) : s[j] # op) /\ i \in 1..Len(s)
<1>1. s \in Seq(AllKinds) /\ Len(s) \in Nat /\ DOMAIN s = 1..Len(s)
  BY LenProperties DEF Shape
<1> DEFINE S == {i \in 1..Len(s) : s[i] = op}
<1>2. S \subseteq Nat /\ S # {}
  BY <1>1 DEF Left
<1>3. PICK i \in S : \A k \in S : i <= k
  BY <1>2, Least
<1>4. \A j \in 1..(i - 1) : s[j] # op
  <2>1. \A j \in 1..(i - 1) : j \in 1..Len(s) /\ ~(i <= j)
    BY <1>1
  <2> QED
    BY <1>3, <2>1
<1> QED
  BY <1>1, <1>3, <1>4

(***************************************************************************)
(* The calls of destroy_vm() and provision_vm()                            *)
(***************************************************************************)
\* Calls in order; what they need is among them, or in w.
Chunk(l, s, w) == s \in Seq(AllKinds) /\ Ordered(s) /\ Follows(l, s, w)

\* Two chunks, one after the other.
Joined(l, s, w, t, v, z) ==
    /\ Chunk(l, s, w) /\ Chunk(l, t, v) /\ \A x \in Left(s), y \in Left(t) : Before(x, y)
    /\ w \subseteq Left(t) \cup z /\ v \subseteq z

\* Two pieces of a list of calls, the second coming after the first, joined.
LEMMA ChunkConcat ==
    ASSUME NEW l, NEW s, NEW t, NEW w, NEW v, NEW z, Joined(l, s, w, t, v, z)
    PROVE  Chunk(l, s \o t, z) /\ Left(s \o t) = Left(s) \cup Left(t)
<1> USE DEF Joined
<1> DEFINE u == s \o t
<1>1. /\ Len(s) \in Nat /\ Len(t) \in Nat /\ Len(u) = Len(s) + Len(t) /\ u \in Seq(AllKinds)
      /\ \A i \in 1..Len(s) + Len(t) : u[i] = IF i <= Len(s) THEN s[i] ELSE t[i - Len(s)]
  BY ConcatProperties, LenProperties DEF Chunk
<1> HIDE DEF u
<1>2. \A i \in 1..Len(s) : i \in 1..Len(u) /\ u[i] = s[i]
  BY <1>1
<1>3. \A i \in 1..Len(t) : Len(s) + i \in 1..Len(u) /\ u[Len(s) + i] = t[i]
  <2> TAKE i \in 1..Len(t)
  <2>1. Len(s) + i \in 1..Len(s) + Len(t) /\ ~(Len(s) + i <= Len(s)) /\ (Len(s) + i) - Len(s) = i
    BY <1>1
  <2> QED
    BY <1>1, <2>1
<1>4. \A i \in 1..Len(u) : (i <= Len(s) /\ i \in 1..Len(s) /\ u[i] = s[i])
                           \/ (i > Len(s) /\ i - Len(s) \in 1..Len(t) /\ u[i] = t[i - Len(s)])
  BY <1>1
<1>5. Ordered(u)
  <2> SUFFICES ASSUME NEW i \in 1..Len(u), NEW j \in 1..Len(u), i < j PROVE Before(u[i], u[j])
    BY DEF Ordered
  <2>1. CASE j <= Len(s)
    <3>1. i \in 1..Len(s) /\ j \in 1..Len(s) /\ u[i] = s[i] /\ u[j] = s[j]
      BY <1>1, <1>2, <2>1
    <3> QED
      BY <3>1 DEF Chunk, Ordered
  <2>2. CASE i > Len(s)
    <3>1. i - Len(s) \in 1..Len(t) /\ j - Len(s) \in 1..Len(t) /\ i - Len(s) < j - Len(s)
          /\ u[i] = t[i - Len(s)] /\ u[j] = t[j - Len(s)]
      BY <1>1, <1>4, <2>2
    <3> QED
      BY <3>1 DEF Chunk, Ordered
  <2>3. CASE i <= Len(s) /\ j > Len(s)
    <3>1. i \in 1..Len(s) /\ u[i] = s[i]
      BY <1>1, <1>4, <2>3
    <3>2. j - Len(s) \in 1..Len(t) /\ u[j] = t[j - Len(s)]
      BY <1>1, <1>4, <2>3
    <3>3. u[i] \in Left(s) /\ u[j] \in Left(t)
      BY <3>1, <3>2 DEF Left
    <3> QED
      BY <3>3
  <2> QED
    BY <1>1, <2>1, <2>2, <2>3
<1>6. Follows(l, u, z)
  <2> SUFFICES ASSUME NEW i \in 1..Len(u), NEW o \in Must(l, u[i]), o \notin z
               PROVE  \E j \in 1..Len(u) : i < j /\ u[j] = o
    BY DEF Follows
  <2>1. CASE i <= Len(s)
    <3>1. i \in 1..Len(s) /\ u[i] = s[i]
      BY <1>4, <2>1, <1>1
    <3>2. o \in w \/ \E j \in 1..Len(s) : i < j /\ s[j] = o
      BY <3>1 DEF Chunk, Follows
    <3>3. CASE o \in w
      <4>1. PICK j \in 1..Len(t) : t[j] = o
        <5>1. o \in Left(t)
          BY <3>3
        <5> QED
          BY <5>1 DEF Left
      <4>2. Len(s) + j \in 1..Len(u) /\ u[Len(s) + j] = o /\ i < Len(s) + j
        BY <1>1, <1>3, <3>1, <4>1
      <4> QED
        BY <4>2
    <3> QED
      BY <1>2, <3>2, <3>3
  <2>2. CASE i > Len(s)
    <3>1. i - Len(s) \in 1..Len(t) /\ u[i] = t[i - Len(s)]
      BY <1>1, <1>4, <2>2
    <3>2. PICK j \in 1..Len(t) : i - Len(s) < j /\ t[j] = o
      BY <3>1 DEF Chunk, Follows
    <3>3. i < Len(s) + j
      BY <1>1, <3>1, <3>2
    <3> QED
      BY <1>3, <3>2, <3>3
  <2> QED
    BY <1>1, <2>1, <2>2
<1>7. Left(u) = Left(s) \cup Left(t)
  <2>1. \A o \in Left(u) : o \in Left(s) \cup Left(t)
    BY <1>4 DEF Left
  <2>2. \A o \in Left(s) \cup Left(t) : o \in Left(u)
    BY <1>2, <1>3 DEF Left
  <2> QED
    BY <2>1, <2>2
<1> QED
  BY <1>1, <1>5, <1>6, <1>7 DEF Chunk, u

\* A lab is one of six.
IsLab(l) == /\ l.kind \in {"libvirt", "harvester"} /\ (l.kind = "harvester" => l.method = "cloud-init")
            /\ l.method \in {"ignition", "virt_customize", "autoinstall", "location", "cloud-init"} /\ l.keep \in BOOLEAN

\* The calls of each kind of lab.
FileCalls(method) == IF method = "virt_customize" THEN {"copy", "customize", "push"}
                     ELSE IF method = "cloud-init" THEN {"copy", "push", "stage", "seed"}
                     ELSE IF method = "ignition" THEN {"copy", "push"} ELSE {"answer", "push"}
CreateCalls(method) == IF method = "autoinstall" THEN {"install-iso", "virsh-destroy", "edit", "virsh-start"}
                       ELSE IF method = "location" THEN {"install-iso", "virsh-start"}
                       ELSE IF method = "cloud-init" THEN {"install", "virsh-reboot"} ELSE {"install"}
Calls(l) ==
    (IF l.keep THEN {"keep?"} ELSE {}) \cup
    (IF l.kind = "libvirt"
     THEN {"locate", "unregister", "destroy", "undefine", "select", "allocate", "register"} \cup Rebooting
          \cup FileCalls(l.method) \cup CreateCalls(l.method)
     ELSE {"unregister", "stop", "delete", "allocate", "push", "apply", "register", "online", "restart"})

\* Chunks of one to four calls.
LEMMA OneCall ==
    ASSUME NEW l, NEW a \in AllKinds, NEW w, Must(l, a) \subseteq w
    PROVE  Chunk(l, <<a>>, w) /\ Left(<<a>>) = {a}
<1> DEFINE s == <<a>>
<1>1. s \in Seq(AllKinds) /\ Len(s) = 1 /\ s[1] = a
  OBVIOUS
<1> HIDE DEF s
<1>2. \A i \in 1..Len(s) : i = 1
  BY <1>1
<1> QED
  BY <1>1, <1>2 DEF Chunk, Ordered, Follows, Left, s

\* A list of two calls in their order.
LEMMA TwoCalls ==
    ASSUME NEW l, NEW a \in AllKinds, NEW b \in AllKinds, NEW w, Before(a, b),
           Must(l, a) \subseteq w \cup {b}, Must(l, b) \subseteq w
    PROVE  Chunk(l, <<a, b>>, w) /\ Left(<<a, b>>) = {a, b}
<1> DEFINE s == <<a, b>>
<1>1. s \in Seq(AllKinds) /\ Len(s) = 2 /\ s[1] = a /\ s[2] = b
  OBVIOUS
<1> HIDE DEF s
<1>2. \A i \in 1..Len(s) : i = 1 \/ i = 2
  BY <1>1
<1>3. Ordered(s)
  BY <1>1, <1>2 DEF Ordered
<1>4. Follows(l, s, w)
  BY <1>1, <1>2 DEF Follows
<1>5. Left(s) = {a, b}
  BY <1>1, <1>2 DEF Left
<1> QED
  BY <1>1, <1>3, <1>4, <1>5 DEF Chunk, s

\* A list of three calls in their order.
LEMMA ThreeCalls ==
    ASSUME NEW l, NEW a \in AllKinds, NEW b \in AllKinds, NEW c \in AllKinds, NEW w,
           Before(a, b), Before(a, c), Before(b, c),
           Must(l, a) \subseteq w \cup {b, c}, Must(l, b) \subseteq w \cup {c}, Must(l, c) \subseteq w
    PROVE  Chunk(l, <<a, b, c>>, w) /\ Left(<<a, b, c>>) = {a, b, c}
<1> DEFINE s == <<a, b, c>>
<1>1. s \in Seq(AllKinds) /\ Len(s) = 3 /\ s[1] = a /\ s[2] = b /\ s[3] = c
  OBVIOUS
<1> HIDE DEF s
<1>2. \A i \in 1..Len(s) : i = 1 \/ i = 2 \/ i = 3
  BY <1>1
<1>3. Ordered(s)
  BY <1>1, <1>2 DEF Ordered
<1>4. Follows(l, s, w)
  BY <1>1, <1>2 DEF Follows
<1>5. Left(s) = {a, b, c}
  BY <1>1, <1>2 DEF Left
<1> QED
  BY <1>1, <1>3, <1>4, <1>5 DEF Chunk, s

\* A list of four calls in their order.
LEMMA FourCalls ==
    ASSUME NEW l, NEW a \in AllKinds, NEW b \in AllKinds, NEW c \in AllKinds, NEW d \in AllKinds, NEW w,
           Before(a, b), Before(a, c), Before(a, d), Before(b, c), Before(b, d), Before(c, d),
           Must(l, a) \subseteq w \cup {b, c, d}, Must(l, b) \subseteq w \cup {c, d},
           Must(l, c) \subseteq w \cup {d}, Must(l, d) \subseteq w
    PROVE  Chunk(l, <<a, b, c, d>>, w) /\ Left(<<a, b, c, d>>) = {a, b, c, d}
<1> DEFINE s == <<a, b, c, d>>
<1>1. s \in Seq(AllKinds) /\ Len(s) = 4 /\ s[1] = a /\ s[2] = b /\ s[3] = c /\ s[4] = d
  OBVIOUS
<1> HIDE DEF s
<1>2. \A i \in 1..Len(s) : i = 1 \/ i = 2 \/ i = 3 \/ i = 4
  BY <1>1
<1>3. Ordered(s)
  BY <1>1, <1>2 DEF Ordered
<1>4. Follows(l, s, w)
  BY <1>1, <1>2 DEF Follows
<1>5. Left(s) = {a, b, c, d}
  BY <1>1, <1>2 DEF Left
<1> QED
  BY <1>1, <1>3, <1>4, <1>5 DEF Chunk, s

\* The place of each call.
LEMMA Ranks ==
    /\ Rank("keep?") = 1 /\ Rank("locate") = 2 /\ Rank("unregister") = 3 /\ Rank("destroy") = 4 /\ Rank("stop") = 4
    /\ Rank("undefine") = 5 /\ Rank("delete") = 5 /\ Rank("select") = 6 /\ Rank("allocate") = 7 /\ Rank("copy") = 8
    /\ Rank("answer") = 8 /\ Rank("customize") = 9 /\ Rank("push") = 10 /\ Rank("stage") = 11 /\ Rank("seed") = 12
    /\ Rank("install") = 13 /\ Rank("install-iso") = 13 /\ Rank("apply") = 13 /\ Rank("virsh-destroy") = 14
    /\ Rank("edit") = 15 /\ Rank("virsh-start") = 16 /\ Rank("virsh-reboot") = 17 /\ Rank("register") = 18
    /\ Rank("online") = 19 /\ Rank("probe") = 19 /\ Rank("listen") = 19 /\ Rank("rebooted?") = 19
    /\ Rank("virsh-shutdown") = 19 /\ Rank("stopped?") = 19 /\ Rank("start-again") = 19 /\ Rank("reset") = 19
    /\ Rank("restart") = 19
BY DEF Rank

\* What follows each call.
LEMMA Musts ==
    ASSUME NEW l
    PROVE  /\ Must(l, "keep?") = MakeOf(l) \cup FilesOf(l) \cup SelectOf(l) \cup {"register", "unregister", RemoveOf(l)}
           /\ \A o \in {"locate", "unregister", "destroy", "stop"} :
                Must(l, o) = MakeOf(l) \cup FilesOf(l) \cup SelectOf(l) \cup {"register", RemoveOf(l)}
           /\ \A o \in {"undefine", "delete"} : Must(l, o) = MakeOf(l) \cup FilesOf(l) \cup SelectOf(l) \cup {"register"}
           /\ Must(l, "select") = MakeOf(l) \cup FilesOf(l) \cup {"register"}
           /\ \A o \in {"allocate", "answer", "customize", "push", "stage", "seed"} : Must(l, o) = MakeOf(l)
           /\ Must(l, "copy") = MakeOf(l) \cup (IF l.method = "virt_customize" THEN {"customize"} ELSE {})
           /\ \A o \in Makers : Must(l, o) = {"register"} \cup (IF l.method = "autoinstall" THEN {"edit"} ELSE {})
                          \cup (IF l.method \in {"autoinstall", "location"} THEN {"virsh-start"} ELSE {})
           /\ Must(l, "virsh-destroy") = {"virsh-start"} /\ Must(l, "edit") = {} /\ Must(l, "virsh-start") = {}
           /\ \A o \in {"virsh-reboot", "register", "online", "listen", "virsh-shutdown", "start-again", "reset", "restart"} :
                Must(l, o) = {}
           /\ Must(l, "probe") = {"reset"} /\ Must(l, "rebooted?") = {"reset"}
           /\ Must(l, "stopped?") = {"start-again", "reset"}
BY DEF Must, Makers

\* A call of a lower rank comes before one of a higher.
LEMMA InOrder ==
    ASSUME NEW S, NEW T, NEW a \in Nat, NEW b \in Nat, a < b,
           \A x \in S : Rank(x) \in Nat /\ Rank(x) <= a, \A y \in T : Rank(y) \in Nat /\ b <= Rank(y)
    PROVE  \A x \in S, y \in T : Before(x, y)
<1> TAKE x \in S, y \in T
<1>1. Rank(x) \in Nat /\ Rank(y) \in Nat /\ Rank(x) <= a /\ b <= Rank(y)
  OBVIOUS
<1>2. Rank(x) < Rank(y)
  BY <1>1
<1> QED
  BY <1>2 DEF Before

\* The files of create_vm().
LEMMA FilesChunk ==
    ASSUME NEW l, IsLab(l), l.kind = "libvirt"
    PROVE  /\ Chunk(l, LibvirtFiles(l.method), MakeOf(l)) /\ FilesOf(l) \subseteq Left(LibvirtFiles(l.method))
           /\ \A o \in Left(LibvirtFiles(l.method)) : Rank(o) \in 8..12
           /\ Left(LibvirtFiles(l.method)) = FileCalls(l.method)
<1> DEFINE M == MakeOf(l)
<1>1. /\ "copy" \in AllKinds /\ "push" \in AllKinds /\ "customize" \in AllKinds /\ "stage" \in AllKinds
      /\ "seed" \in AllKinds /\ "answer" \in AllKinds
  BY DEF AllKinds
<1>2. \A o \in {"answer", "customize", "push", "stage", "seed"} : Must(l, o) \subseteq M
  BY Musts
<1>3. Must(l, "copy") \subseteq M \cup {"customize"} /\ (l.method # "virt_customize" => Must(l, "copy") \subseteq M)
  BY Musts
<1> HIDE DEF M
<1>4. CASE l.method = "ignition"
  <2>1. LibvirtFiles(l.method) = <<"copy", "push">> /\ FilesOf(l) = {} /\ FileCalls(l.method) = {"copy", "push"}
    BY <1>4 DEF LibvirtFiles, FilesOf, FileCalls
  <2>2. Chunk(l, <<"copy", "push">>, M) /\ Left(<<"copy", "push">>) = {"copy", "push"}
    <3>1. Must(l, "copy") \subseteq M \cup {"push"} /\ Must(l, "push") \subseteq M
      BY <1>2, <1>3, <1>4
    <3>2. Before("copy", "push")
      BY Ranks DEF Before
    <3> QED
      BY <1>1, <3>1, <3>2, TwoCalls, Zenon
  <2> QED
    BY <2>1, <2>2, Ranks DEF M
<1>5. CASE l.method = "virt_customize"
  <2>1. /\ LibvirtFiles(l.method) = <<"copy", "customize", "push">> /\ FilesOf(l) = {"copy", "customize"}
        /\ FileCalls(l.method) = {"copy", "customize", "push"}
    BY <1>5 DEF LibvirtFiles, FilesOf, FileCalls
  <2>2. Chunk(l, <<"copy", "customize", "push">>, M) /\ Left(<<"copy", "customize", "push">>) = {"copy", "customize", "push"}
    <3>1. Before("copy", "customize") /\ Before("copy", "push") /\ Before("customize", "push")
      BY Ranks DEF Before
    <3>2. Must(l, "copy") \subseteq M \cup {"customize", "push"} /\ Must(l, "customize") \subseteq M \cup {"push"}
          /\ Must(l, "push") \subseteq M
      BY <1>2, <1>3
    <3> QED
      BY <1>1, <3>1, <3>2, ThreeCalls
  <2> QED
    BY <2>1, <2>2, Ranks DEF M
<1>6. CASE l.method = "cloud-init"
  <2>1. /\ LibvirtFiles(l.method) = <<"copy", "push", "stage", "seed">> /\ FilesOf(l) = {"stage", "seed"}
        /\ FileCalls(l.method) = {"copy", "push", "stage", "seed"}
    BY <1>6 DEF LibvirtFiles, FilesOf, FileCalls
  <2>2. /\ Chunk(l, <<"copy", "push", "stage", "seed">>, M)
        /\ Left(<<"copy", "push", "stage", "seed">>) = {"copy", "push", "stage", "seed"}
    <3>1. /\ Before("copy", "push") /\ Before("copy", "stage") /\ Before("copy", "seed")
          /\ Before("push", "stage") /\ Before("push", "seed") /\ Before("stage", "seed")
      BY Ranks DEF Before
    <3>2. /\ Must(l, "copy") \subseteq M \cup {"push", "stage", "seed"} /\ Must(l, "push") \subseteq M \cup {"stage", "seed"}
          /\ Must(l, "stage") \subseteq M \cup {"seed"} /\ Must(l, "seed") \subseteq M
      BY <1>2, <1>3, <1>6
    <3> QED
      BY <1>1, <3>1, <3>2, FourCalls
  <2> QED
    BY <2>1, <2>2, Ranks DEF M
<1>7. CASE l.method \in {"autoinstall", "location"}
  <2>1. LibvirtFiles(l.method) = <<"answer", "push">> /\ FilesOf(l) = {} /\ FileCalls(l.method) = {"answer", "push"}
    BY <1>7 DEF LibvirtFiles, FilesOf, FileCalls
  <2>2. Chunk(l, <<"answer", "push">>, M) /\ Left(<<"answer", "push">>) = {"answer", "push"}
    BY <1>1, <1>2, TwoCalls, Ranks DEF Before
  <2> QED
    BY <2>1, <2>2, Ranks DEF M
<1> QED
  BY <1>4, <1>5, <1>6, <1>7 DEF IsLab

\* The commands of create_vm().
LEMMA CreateChunk ==
    ASSUME NEW l, IsLab(l), l.kind = "libvirt"
    PROVE  /\ Chunk(l, LibvirtCreate(l.method), {"register"}) /\ MakeOf(l) \subseteq Left(LibvirtCreate(l.method))
           /\ \A o \in Left(LibvirtCreate(l.method)) : Rank(o) \in 13..17
           /\ Left(LibvirtCreate(l.method)) = CreateCalls(l.method)
<1>1. /\ "install" \in AllKinds /\ "install-iso" \in AllKinds /\ "virsh-destroy" \in AllKinds /\ "edit" \in AllKinds
      /\ "virsh-start" \in AllKinds /\ "virsh-reboot" \in AllKinds
  BY DEF AllKinds, Rebooting
<1>2. \A o \in Makers : Must(l, o) = {"register"} \cup (IF l.method = "autoinstall" THEN {"edit"} ELSE {})
                          \cup (IF l.method \in {"autoinstall", "location"} THEN {"virsh-start"} ELSE {})
  BY Musts
<1>3. /\ Must(l, "virsh-destroy") = {"virsh-start"} /\ Must(l, "edit") = {} /\ Must(l, "virsh-start") = {}
      /\ Must(l, "virsh-reboot") = {}
  BY Musts
<1>4. CASE l.method \in {"ignition", "virt_customize"}
  <2>1. LibvirtCreate(l.method) = <<"install">> /\ MakeOf(l) = {"install"} /\ CreateCalls(l.method) = {"install"}
    BY <1>4 DEF LibvirtCreate, MakeOf, CreateCalls, ImageInstall
  <2>2. Must(l, "install") = {"register"}
    BY <1>2, <1>4 DEF Makers
  <2>3. Chunk(l, <<"install">>, {"register"}) /\ Left(<<"install">>) = {"install"}
    BY <1>1, <2>2, OneCall
  <2> QED
    BY <2>1, <2>3, Ranks
<1>5. CASE l.method = "cloud-init"
  <2>1. /\ LibvirtCreate(l.method) = <<"install", "virsh-reboot">> /\ MakeOf(l) = {"install"}
        /\ CreateCalls(l.method) = {"install", "virsh-reboot"}
    BY <1>5 DEF LibvirtCreate, MakeOf, CreateCalls, CloudInitInstall
  <2>2. Must(l, "install") = {"register"}
    BY <1>2, <1>5 DEF Makers
  <2>3. /\ Chunk(l, <<"install", "virsh-reboot">>, {"register"})
        /\ Left(<<"install", "virsh-reboot">>) = {"install", "virsh-reboot"}
    BY <1>1, <1>3, <2>2, TwoCalls, Ranks DEF Before
  <2> QED
    BY <2>1, <2>3, Ranks
<1>6. CASE l.method = "autoinstall"
  <2>1. /\ LibvirtCreate(l.method) = <<"install-iso", "virsh-destroy", "edit", "virsh-start">> /\ MakeOf(l) = {"install-iso"}
        /\ CreateCalls(l.method) = {"install-iso", "virsh-destroy", "edit", "virsh-start"}
    BY <1>6 DEF LibvirtCreate, MakeOf, CreateCalls, IsoInstall
  <2>2. Must(l, "install-iso") = {"register", "edit", "virsh-start"}
    BY <1>2, <1>6 DEF Makers
  <2>3. /\ Chunk(l, <<"install-iso", "virsh-destroy", "edit", "virsh-start">>, {"register"})
        /\ Left(<<"install-iso", "virsh-destroy", "edit", "virsh-start">>) = {"install-iso", "virsh-destroy", "edit", "virsh-start"}
    <3>1. /\ Before("install-iso", "virsh-destroy") /\ Before("install-iso", "edit") /\ Before("install-iso", "virsh-start")
          /\ Before("virsh-destroy", "edit") /\ Before("virsh-destroy", "virsh-start") /\ Before("edit", "virsh-start")
      BY Ranks DEF Before
    <3> QED
      BY <1>1, <1>3, <2>2, <3>1, FourCalls
  <2> QED
    BY <2>1, <2>3, Ranks
<1>7. CASE l.method = "location"
  <2>1. /\ LibvirtCreate(l.method) = <<"install-iso", "virsh-start">> /\ MakeOf(l) = {"install-iso"}
        /\ CreateCalls(l.method) = {"install-iso", "virsh-start"}
    BY <1>7 DEF LibvirtCreate, MakeOf, CreateCalls, IsoInstall
  <2>2. Must(l, "install-iso") = {"register", "virsh-start"}
    BY <1>2, <1>7 DEF Makers
  <2>3. /\ Chunk(l, <<"install-iso", "virsh-start">>, {"register"})
        /\ Left(<<"install-iso", "virsh-start">>) = {"install-iso", "virsh-start"}
    BY <1>1, <1>3, <2>2, TwoCalls, Ranks DEF Before
  <2> QED
    BY <2>1, <2>3, Ranks
<1> QED
  BY <1>4, <1>5, <1>6, <1>7 DEF IsLab

\* The calls of reboot_vm().
LEMMA RebootChunk ==
    ASSUME NEW l
    PROVE  /\ Chunk(l, LibvirtReboot, {}) /\ Left(LibvirtReboot) = Rebooting \ {"online"}
           /\ Chunk(l, HarvesterReboot, {}) /\ Left(HarvesterReboot) = {"restart"}
<1>1. Chunk(l, HarvesterReboot, {}) /\ Left(HarvesterReboot) = {"restart"}
  <2>1. "restart" \in AllKinds /\ Must(l, "restart") = {} /\ HarvesterReboot = <<"restart">>
    BY Musts DEF AllKinds, HarvesterReboot
  <2> QED
    BY <2>1, OneCall
<1> DEFINE s == LibvirtReboot
<1>2. /\ s \in Seq(AllKinds) /\ Len(s) = 9 /\ s[1] = "probe" /\ s[2] = "virsh-reboot" /\ s[3] = "listen"
      /\ s[4] = "rebooted?" /\ s[5] = "virsh-shutdown" /\ s[6] = "listen" /\ s[7] = "stopped?"
      /\ s[8] = "start-again" /\ s[9] = "reset"
  <2>1. Rebooting \subseteq AllKinds
    BY DEF AllKinds
  <2>2. /\ "probe" \in AllKinds /\ "virsh-reboot" \in AllKinds /\ "listen" \in AllKinds /\ "rebooted?" \in AllKinds
        /\ "virsh-shutdown" \in AllKinds /\ "stopped?" \in AllKinds /\ "start-again" \in AllKinds /\ "reset" \in AllKinds
    BY <2>1 DEF Rebooting
  <2> QED
    BY <2>2 DEF LibvirtReboot
<1> HIDE DEF s
<1>3. \A i \in 1..Len(s) : i = 1 \/ i = 2 \/ i = 3 \/ i = 4 \/ i = 5 \/ i = 6 \/ i = 7 \/ i = 8 \/ i = 9
  BY <1>2
<1>4. \A i \in 1..Len(s) : s[i] = "virsh-reboot" \/ Rank(s[i]) = 19
  BY <1>2, <1>3, Ranks
<1>5. Ordered(s)
  <2> SUFFICES ASSUME NEW i \in 1..Len(s), NEW j \in 1..Len(s), i < j PROVE Before(s[i], s[j])
    BY DEF Ordered
  <2>1. Rank(s[i]) \in 17..19 /\ (s[j] = "virsh-reboot" \/ Rank(s[j]) = 19)
    BY <1>4, Ranks
  <2>2. Rank(s[i]) = 17 \/ Rank(s[i]) = 19
    BY <1>4, Ranks
  <2> QED
    BY <2>1, <2>2 DEF Before
<1>6. Follows(l, s, {})
  <2> SUFFICES ASSUME NEW i \in 1..Len(s), NEW o \in Must(l, s[i]) PROVE \E j \in 1..Len(s) : i < j /\ s[j] = o
    BY DEF Follows
  <2>1. \A e \in {"virsh-reboot", "listen", "virsh-shutdown", "start-again", "reset"} : Must(l, e) = {}
    BY Musts
  <2>2. /\ Must(l, "probe") = {"reset"} /\ Must(l, "rebooted?") = {"reset"}
        /\ Must(l, "stopped?") = {"start-again", "reset"}
    BY Musts
  <2>3. (i = 1 \/ i = 4 \/ i = 7) /\ (o = "reset" \/ (i = 7 /\ o = "start-again"))
    <3>1. /\ s[2] \in {"virsh-reboot", "listen", "virsh-shutdown", "start-again", "reset"}
          /\ s[3] \in {"virsh-reboot", "listen", "virsh-shutdown", "start-again", "reset"}
          /\ s[5] \in {"virsh-reboot", "listen", "virsh-shutdown", "start-again", "reset"}
          /\ s[6] \in {"virsh-reboot", "listen", "virsh-shutdown", "start-again", "reset"}
          /\ s[8] \in {"virsh-reboot", "listen", "virsh-shutdown", "start-again", "reset"}
          /\ s[9] \in {"virsh-reboot", "listen", "virsh-shutdown", "start-again", "reset"}
      BY <1>2
    <3>2. i # 2 /\ i # 3 /\ i # 5 /\ i # 6 /\ i # 8 /\ i # 9
      BY <2>1, <3>1
    <3>3. Must(l, s[1]) = {"reset"} /\ Must(l, s[4]) = {"reset"} /\ Must(l, s[7]) = {"start-again", "reset"}
      BY <1>2, <2>2
    <3>4. i = 1 \/ i = 4 \/ i = 7
      BY <1>3, <3>2
    <3>5. i = 1 \/ i = 4 => Must(l, s[i]) = {"reset"}
      BY <3>3
    <3>6. i = 7 => Must(l, s[i]) = {"start-again", "reset"}
      BY <3>3
    <3> QED
      BY <3>4, <3>5, <3>6
  <2>4. 9 \in 1..Len(s) /\ 8 \in 1..Len(s)
    BY <1>2
  <2> QED
    BY <1>2, <2>3, <2>4
<1>7. Left(s) = Rebooting \ {"online"}
  <2>1. \A o \in Left(s) : o \in Rebooting \ {"online"}
    BY <1>2, <1>3 DEF Left, Rebooting
  <2>2. /\ 1 \in 1..Len(s) /\ 2 \in 1..Len(s) /\ 3 \in 1..Len(s) /\ 4 \in 1..Len(s) /\ 5 \in 1..Len(s)
        /\ 7 \in 1..Len(s) /\ 8 \in 1..Len(s) /\ 9 \in 1..Len(s)
    BY <1>2
  <2>3. s[1] \in Left(s) /\ s[2] \in Left(s) /\ s[3] \in Left(s) /\ s[4] \in Left(s) /\ s[5] \in Left(s)
        /\ s[7] \in Left(s) /\ s[8] \in Left(s) /\ s[9] \in Left(s)
    BY <2>2 DEF Left
  <2>4. \A o \in Rebooting \ {"online"} : o \in Left(s)
    BY <1>2, <2>3 DEF Rebooting
  <2> QED
    BY <2>1, <2>4
<1> QED
  BY <1>1, <1>2, <1>5, <1>6, <1>7 DEF Chunk, s

\* The calls of destroy_vm(), and the question whether to keep the machine.
LEMMA DeleteChunk ==
    ASSUME NEW l, IsLab(l), NEW w, w = MakeOf(l) \cup FilesOf(l) \cup SelectOf(l) \cup {"register"}
    PROVE  /\ l.kind = "libvirt" => /\ Chunk(l, LibvirtDelete, w)
                                    /\ Left(LibvirtDelete) = {"locate", "unregister", "destroy", "undefine"}
           /\ l.kind = "harvester" => /\ Chunk(l, HarvesterDelete, w)
                                      /\ Left(HarvesterDelete) = {"unregister", "stop", "delete"}
           /\ Chunk(l, <<"keep?">>, w \cup {"unregister", RemoveOf(l)}) /\ Left(<<"keep?">>) = {"keep?"}
<1>1. /\ "keep?" \in AllKinds /\ "locate" \in AllKinds /\ "unregister" \in AllKinds /\ "destroy" \in AllKinds
      /\ "undefine" \in AllKinds /\ "stop" \in AllKinds /\ "delete" \in AllKinds
  BY DEF AllKinds
<1>2. /\ Must(l, "keep?") = w \cup {"unregister", RemoveOf(l)}
      /\ \A o \in {"locate", "unregister", "destroy", "stop"} : Must(l, o) = w \cup {RemoveOf(l)}
      /\ \A o \in {"undefine", "delete"} : Must(l, o) = w
  BY Musts
<1>3. Chunk(l, <<"keep?">>, w \cup {"unregister", RemoveOf(l)}) /\ Left(<<"keep?">>) = {"keep?"}
  BY <1>1, <1>2, OneCall
<1>4. ASSUME l.kind = "libvirt"
      PROVE  /\ Chunk(l, LibvirtDelete, w)
             /\ Left(LibvirtDelete) = {"locate", "unregister", "destroy", "undefine"}
  <2>1. LibvirtDelete = <<"locate", "unregister", "destroy", "undefine">> /\ RemoveOf(l) = "undefine"
    BY <1>4 DEF LibvirtDelete, RemoveOf
  <2>2. /\ Before("locate", "unregister") /\ Before("locate", "destroy") /\ Before("locate", "undefine")
        /\ Before("unregister", "destroy") /\ Before("unregister", "undefine") /\ Before("destroy", "undefine")
    BY Ranks DEF Before
  <2>3. /\ Must(l, "locate") \subseteq w \cup {"unregister", "destroy", "undefine"}
        /\ Must(l, "unregister") \subseteq w \cup {"destroy", "undefine"}
        /\ Must(l, "destroy") \subseteq w \cup {"undefine"} /\ Must(l, "undefine") \subseteq w
    BY <1>2, <2>1
  <2>4. /\ Chunk(l, <<"locate", "unregister", "destroy", "undefine">>, w)
        /\ Left(<<"locate", "unregister", "destroy", "undefine">>) = {"locate", "unregister", "destroy", "undefine"}
    BY <1>1, <2>2, <2>3, FourCalls
  <2> QED
    BY <2>1, <2>4
<1>5. ASSUME l.kind = "harvester"
      PROVE  Chunk(l, HarvesterDelete, w) /\ Left(HarvesterDelete) = {"unregister", "stop", "delete"}
  <2>1. HarvesterDelete = <<"unregister", "stop", "delete">> /\ RemoveOf(l) = "delete"
    BY <1>5 DEF HarvesterDelete, RemoveOf
  <2>2. Before("unregister", "stop") /\ Before("unregister", "delete") /\ Before("stop", "delete")
    BY Ranks DEF Before
  <2>3. /\ Must(l, "unregister") \subseteq w \cup {"stop", "delete"}
        /\ Must(l, "stop") \subseteq w \cup {"delete"} /\ Must(l, "delete") \subseteq w
    BY <1>2, <2>1
  <2> QED
    BY <1>1, <2>1, <2>2, <2>3, ThreeCalls, SMTT(30)
<1> QED
  BY <1>3, <1>4, <1>5

\* Provisioning: its calls come in order, and after those of destroy_vm().
LEMMA ProvisionChunk ==
    ASSUME NEW l, IsLab(l)
    PROVE  /\ Chunk(l, Provision(l), {}) /\ \A o \in Left(Provision(l)) : Rank(o) \in 6..19
           /\ MakeOf(l) \cup FilesOf(l) \cup SelectOf(l) \cup {"register"} \subseteq Left(Provision(l))
           /\ Left(Provision(l)) =
                IF l.kind = "libvirt"
                THEN {"select", "allocate", "register"} \cup Rebooting \cup FileCalls(l.method) \cup CreateCalls(l.method)
                ELSE {"allocate", "push", "apply", "register", "online", "restart"}
<1> DEFINE M == MakeOf(l)
           F == FilesOf(l)
           ro == <<"register", "online">>
           rb == IF l.kind = "libvirt" THEN LibvirtReboot ELSE HarvesterReboot
           o1 == <<"online">>
           X == IF l.kind = "libvirt" THEN <<"select", "allocate">> \o LibvirtFiles(l.method) \o LibvirtCreate(l.method)
                                      ELSE <<"allocate">> \o HarvesterCreate
           XS == IF l.kind = "libvirt" THEN {"select", "allocate"} \cup FileCalls(l.method) \cup CreateCalls(l.method)
                                       ELSE {"allocate", "push", "apply"}
<1>1. Provision(l) = ((X \o ro) \o rb) \o o1
  BY DEF Provision
<1>2. /\ "select" \in AllKinds /\ "allocate" \in AllKinds /\ "register" \in AllKinds /\ "online" \in AllKinds
      /\ "push" \in AllKinds /\ "apply" \in AllKinds
  BY DEF AllKinds, Rebooting
<1>3. Chunk(l, o1, {}) /\ Left(o1) = {"online"}
  BY <1>2, OneCall, Musts
<1>4. Chunk(l, ro, {}) /\ Left(ro) = {"register", "online"}
  <2>1. Must(l, "register") = {} /\ Must(l, "online") = {}
    BY Musts
  <2>2. Before("register", "online")
    BY Ranks DEF Before
  <2> QED
    BY <1>2, <2>1, <2>2, TwoCalls
<1>5. /\ Chunk(l, rb, {}) /\ Left(rb) = IF l.kind = "libvirt" THEN Rebooting \ {"online"} ELSE {"restart"}
      /\ \A o \in Left(rb) : o = "virsh-reboot" \/ Rank(o) = 19
  <2>1. \A o \in Rebooting : o = "virsh-reboot" \/ Rank(o) = 19
    BY Ranks DEF Rebooting
  <2> QED
    BY <2>1, RebootChunk, Ranks
<1>6. ASSUME l.kind = "libvirt"
      PROVE  Chunk(l, X, {"register"}) /\ Left(X) = XS /\ F \cup M \cup SelectOf(l) \subseteq Left(X) /\ \A o \in Left(X) : Rank(o) \in 6..17
  <2> DEFINE sa == <<"select", "allocate">>
             fs == LibvirtFiles(l.method)
             cs == LibvirtCreate(l.method)
  <2>1. Chunk(l, sa, M \cup F \cup {"register"}) /\ Left(sa) = {"select", "allocate"}
    <3>1. Must(l, "select") = M \cup F \cup {"register"} /\ Must(l, "allocate") = M
      BY Musts
    <3>2. Before("select", "allocate")
      BY Ranks DEF Before
    <3> QED
      BY <1>2, <3>1, <3>2, TwoCalls
  <2>2. /\ Chunk(l, fs, M) /\ F \subseteq Left(fs) /\ Left(fs) = FileCalls(l.method) /\ \A o \in Left(fs) : Rank(o) \in 8..12
    BY <1>6, FilesChunk
  <2>3. /\ Chunk(l, cs, {"register"}) /\ M \subseteq Left(cs) /\ Left(cs) = CreateCalls(l.method)
        /\ \A o \in Left(cs) : Rank(o) \in 13..17
    BY <1>6, CreateChunk
  <2>4. \A o \in {"select", "allocate"} : Rank(o) \in 6..7
    BY Ranks
  <2> HIDE DEF sa, fs, cs, M, F
  <2>5. Chunk(l, sa \o fs, M \cup {"register"}) /\ Left(sa \o fs) = Left(sa) \cup Left(fs)
    <3>1. \A x \in Left(sa), y \in Left(fs) : Before(x, y)
      <4>1. \A x \in Left(sa) : Rank(x) \in Nat /\ Rank(x) <= 7
        BY <2>1, <2>4
      <4>2. \A y \in Left(fs) : Rank(y) \in Nat /\ 8 <= Rank(y)
        BY <2>2
      <4> QED
        BY <4>1, <4>2, InOrder
    <3>2. M \cup F \cup {"register"} \subseteq Left(fs) \cup (M \cup {"register"}) /\ M \subseteq M \cup {"register"}
      BY <2>2
    <3>3. Chunk(l, sa, M \cup F \cup {"register"}) /\ Chunk(l, fs, M)
      BY <2>1, <2>2
    <3>4. Joined(l, sa, M \cup F \cup {"register"}, fs, M, M \cup {"register"})
      BY <3>1, <3>2, <3>3 DEF Joined
    <3> QED
      BY <3>4, ChunkConcat
  <2>6. Chunk(l, (sa \o fs) \o cs, {"register"}) /\ Left((sa \o fs) \o cs) = (Left(sa) \cup Left(fs)) \cup Left(cs)
    <3>1. \A x \in Left(sa \o fs), y \in Left(cs) : Before(x, y)
      <4>1. \A x \in Left(sa \o fs) : Rank(x) \in Nat /\ Rank(x) <= 12
        BY <2>1, <2>2, <2>4, <2>5
      <4>2. \A y \in Left(cs) : Rank(y) \in Nat /\ 13 <= Rank(y)
        BY <2>3
      <4> QED
        BY <4>1, <4>2, InOrder
    <3>2. M \cup {"register"} \subseteq Left(cs) \cup {"register"} /\ {"register"} \subseteq {"register"}
      BY <2>3
    <3>3. Chunk(l, sa \o fs, M \cup {"register"}) /\ Chunk(l, cs, {"register"})
      BY <2>3, <2>5
    <3>4. Chunk(l, (sa \o fs) \o cs, {"register"}) /\ Left((sa \o fs) \o cs) = Left(sa \o fs) \cup Left(cs)
      <4>1. Joined(l, sa \o fs, M \cup {"register"}, cs, {"register"}, {"register"})
        BY <3>1, <3>2, <3>3 DEF Joined
      <4> QED
        BY <4>1, ChunkConcat
    <3> QED
      BY <2>5, <3>4
  <2>7. X = (sa \o fs) \o cs
    BY <1>6 DEF sa, fs, cs
  <2>8. SelectOf(l) = {"select"}
    BY <1>6 DEF SelectOf
  <2>9. \A o \in Left(X) : Rank(o) \in 6..17
    <3>1. Left(X) = ({"select", "allocate"} \cup Left(fs)) \cup Left(cs)
      BY <2>1, <2>6, <2>7
    <3> HIDE DEF X
    <3> QED
      BY <2>2, <2>3, <2>4, <3>1
  <2> QED
    BY <1>6, <2>1, <2>2, <2>3, <2>6, <2>7, <2>8, <2>9
<1>7. ASSUME l.kind = "harvester"
      PROVE  Chunk(l, X, {"register"}) /\ Left(X) = XS /\ F \cup M \cup SelectOf(l) \subseteq Left(X) /\ \A o \in Left(X) : Rank(o) \in 6..17
  <2>1. F = {} /\ M = {"apply"} /\ SelectOf(l) = {} /\ l.method = "cloud-init"
    BY <1>7 DEF FilesOf, MakeOf, SelectOf, IsLab
  <2>2. Must(l, "allocate") = M /\ Must(l, "push") = M /\ Must(l, "apply") = {"register"}
    BY <2>1, Musts DEF Makers
  <2>3. Chunk(l, <<"allocate">>, M) /\ Left(<<"allocate">>) = {"allocate"}
    BY <1>2, <2>2, OneCall
  <2>4. Chunk(l, <<"push", "apply">>, {"register"}) /\ Left(<<"push", "apply">>) = {"push", "apply"}
    <3>1. Before("push", "apply")
      BY Ranks DEF Before
    <3> QED
      BY <1>2, <2>1, <2>2, <3>1, TwoCalls
  <2>5. \A x \in Left(<<"allocate">>), y \in Left(<<"push", "apply">>) : Before(x, y)
    BY <2>3, <2>4, Ranks DEF Before
  <2>6. /\ Chunk(l, <<"allocate">> \o <<"push", "apply">>, {"register"})
        /\ Left(<<"allocate">> \o <<"push", "apply">>) = {"allocate"} \cup {"push", "apply"}
    <3>1. Joined(l, <<"allocate">>, M, <<"push", "apply">>, {"register"}, {"register"})
      BY <2>1, <2>3, <2>4, <2>5 DEF Joined
    <3> QED
      BY <2>3, <2>4, <3>1, ChunkConcat
  <2>7. X = <<"allocate">> \o <<"push", "apply">>
    BY <1>7 DEF HarvesterCreate
  <2> QED
    <3>1. Left(X) = {"allocate", "push", "apply"} /\ Chunk(l, X, {"register"})
      BY <2>6, <2>7
    <3>2. XS = {"allocate", "push", "apply"}
      BY <1>7
    <3> HIDE DEF X
    <3>3. \A o \in Left(X) : Rank(o) \in 6..17
      BY <3>1, Ranks
    <3> QED
      BY <2>1, <3>1, <3>2, <3>3
<1>8. Chunk(l, X, {"register"}) /\ Left(X) = XS /\ F \cup M \cup SelectOf(l) \subseteq Left(X) /\ \A o \in Left(X) : Rank(o) \in 6..17
  BY <1>6, <1>7 DEF IsLab
<1> HIDE DEF X, ro, rb, o1, M, F
<1>9. Chunk(l, X \o ro, {}) /\ Left(X \o ro) = Left(X) \cup {"register", "online"}
  <2>1. \A x \in Left(X), y \in Left(ro) : Before(x, y)
    <3>1. \A x \in Left(X) : Rank(x) \in Nat /\ Rank(x) <= 17
      BY <1>8
    <3>2. \A y \in Left(ro) : Rank(y) \in Nat /\ 18 <= Rank(y)
      BY <1>4, Ranks
    <3> QED
      BY <3>1, <3>2, InOrder
  <2> QED
    <3>1. {"register"} \subseteq Left(ro) \cup {} /\ {} \subseteq {}
      BY <1>4
    <3>2. Chunk(l, X \o ro, {}) /\ Left(X \o ro) = Left(X) \cup Left(ro)
      <4>1. Joined(l, X, {"register"}, ro, {}, {})
        BY <1>4, <1>8, <2>1, <3>1 DEF Joined
      <4> QED
        BY <4>1, ChunkConcat
    <3> QED
      BY <1>4, <3>2
<1>10. Chunk(l, (X \o ro) \o rb, {}) /\ Left((X \o ro) \o rb) = (Left(X) \cup {"register", "online"}) \cup Left(rb)
  <2>1. \A x \in Left(X \o ro), y \in Left(rb) : Before(x, y)
    <3> TAKE x \in Left(X \o ro), y \in Left(rb)
    <3>1. Rank(x) \in Nat /\ Rank(x) <= 19
      BY <1>8, <1>9, Ranks
    <3>2. y = "virsh-reboot" \/ Rank(y) = 19
      BY <1>5
    <3> QED
      BY <3>1, <3>2 DEF Before
  <2> QED
    <3>1. Joined(l, X \o ro, {}, rb, {}, {})
      BY <1>5, <1>9, <2>1 DEF Joined
    <3> QED
      BY <1>9, <3>1, ChunkConcat
<1>11. /\ Chunk(l, ((X \o ro) \o rb) \o o1, {})
       /\ Left(((X \o ro) \o rb) \o o1) = ((Left(X) \cup {"register", "online"}) \cup Left(rb)) \cup {"online"}
  <2>1. \A x \in Left((X \o ro) \o rb), y \in Left(o1) : Before(x, y)
    <3> TAKE x \in Left((X \o ro) \o rb), y \in Left(o1)
    <3>1. Rank(x) \in Nat /\ Rank(x) <= 19
      BY <1>5, <1>8, <1>10, Ranks
    <3>2. Rank(y) = 19
      BY <1>3, Ranks
    <3> QED
      BY <3>1, <3>2 DEF Before
  <2> QED
    <3>1. {} \subseteq Left(o1) \cup {} /\ {} \subseteq {}
      OBVIOUS
    <3>2. /\ Chunk(l, ((X \o ro) \o rb) \o o1, {})
          /\ Left(((X \o ro) \o rb) \o o1) = Left((X \o ro) \o rb) \cup Left(o1)
      <4>1. Joined(l, (X \o ro) \o rb, {}, o1, {}, {})
        BY <1>3, <1>10, <2>1, <3>1 DEF Joined
      <4> QED
        BY <4>1, ChunkConcat
    <3> QED
      BY <1>3, <1>10, <3>2
<1>12. \A o \in Left(Provision(l)) : Rank(o) \in 6..19
  BY <1>1, <1>5, <1>8, <1>11, Ranks
<1>13. "online" \in Rebooting
  BY DEF Rebooting
<1>14. Left(Provision(l)) =
                IF l.kind = "libvirt"
                THEN {"select", "allocate", "register"} \cup Rebooting \cup FileCalls(l.method) \cup CreateCalls(l.method)
                ELSE {"allocate", "push", "apply", "register", "online", "restart"}
  BY <1>1, <1>5, <1>8, <1>11, <1>13
<1> QED
  BY <1>1, <1>8, <1>11, <1>12, <1>14 DEF M, F

\* The calls of a worker are in order, and each has those that it needs after it.
LEMMA ProgramShape ==
    ASSUME NEW l, IsLab(l)
    PROVE  Shape(l, Program(l)) /\ Left(Program(l)) = Calls(l) /\ Program(l) # <<>>
<1> DEFINE w == MakeOf(l) \cup FilesOf(l) \cup SelectOf(l) \cup {"register"}
           ks == IF l.keep THEN <<"keep?">> ELSE <<>>
           ds == IF l.kind = "libvirt" THEN LibvirtDelete ELSE HarvesterDelete
           DS == IF l.kind = "libvirt" THEN {"locate", "unregister", "destroy", "undefine"} ELSE {"unregister", "stop", "delete"}
           KS == IF l.keep THEN {"keep?"} ELSE {}
<1>1. Program(l) = (ks \o ds) \o Provision(l)
  BY DEF Program
<1>2. Chunk(l, ds, w) /\ Left(ds) = DS
  BY DeleteChunk DEF IsLab
<1>3. Chunk(l, ks, w \cup {"unregister", RemoveOf(l)}) /\ Left(ks) = KS
  <2>1. CASE l.keep
    BY <2>1, DeleteChunk
  <2>2. CASE ~l.keep
    <3>1. ks = <<>> /\ Len(<<>>) = 0 /\ <<>> \in Seq(AllKinds) /\ 1..0 = {}
      BY <2>2
    <3> HIDE DEF ks, w
    <3>2. Left(ks) = {}
      BY <3>1 DEF Left
    <3>3. Ordered(ks) /\ Follows(l, ks, w \cup {"unregister", RemoveOf(l)})
      BY <3>1 DEF Ordered, Follows
    <3> QED
      BY <2>2, <3>1, <3>2, <3>3 DEF Chunk
  <2> QED
    BY <2>1, <2>2
<1>4. /\ Chunk(l, Provision(l), {}) /\ \A o \in Left(Provision(l)) : Rank(o) \in 6..19
      /\ w \subseteq Left(Provision(l))
      /\ Left(Provision(l)) =
                IF l.kind = "libvirt"
                THEN {"select", "allocate", "register"} \cup Rebooting \cup FileCalls(l.method) \cup CreateCalls(l.method)
                ELSE {"allocate", "push", "apply", "register", "online", "restart"}
  BY ProvisionChunk
<1>5. {"unregister", RemoveOf(l)} \subseteq DS
  BY DEF RemoveOf
<1>6. (\A o \in DS : Rank(o) \in 2..5) /\ (\A o \in KS : Rank(o) = 1)
  BY Ranks
<1> HIDE DEF ks, ds, w
<1>7. Chunk(l, ks \o ds, w) /\ Left(ks \o ds) = KS \cup DS
  <2>1. \A x \in Left(ks), y \in Left(ds) : Before(x, y)
    <3>1. \A x \in Left(ks) : Rank(x) \in Nat /\ Rank(x) <= 1
      BY <1>3, <1>6
    <3>2. \A y \in Left(ds) : Rank(y) \in Nat /\ 2 <= Rank(y)
      BY <1>2, <1>6
    <3> QED
      BY <3>1, <3>2, InOrder
  <2>2. w \cup {"unregister", RemoveOf(l)} \subseteq Left(ds) \cup w /\ w \subseteq w
    BY <1>2, <1>5
  <2> HIDE DEF KS, DS
  <2>3. Chunk(l, ks \o ds, w) /\ Left(ks \o ds) = Left(ks) \cup Left(ds)
    <3>1. Joined(l, ks, w \cup {"unregister", RemoveOf(l)}, ds, w, w)
      BY <1>2, <1>3, <2>1, <2>2 DEF Joined
    <3> QED
      BY <3>1, ChunkConcat
  <2> QED
    BY <1>2, <1>3, <2>3
<1>8. Chunk(l, (ks \o ds) \o Provision(l), {}) /\ Left((ks \o ds) \o Provision(l)) = Left(ks \o ds) \cup Left(Provision(l))
  <2>1. \A x \in Left(ks \o ds), y \in Left(Provision(l)) : Before(x, y)
    <3>1. \A x \in Left(ks \o ds) : Rank(x) \in Nat /\ Rank(x) <= 5
      BY <1>6, <1>7
    <3>2. \A y \in Left(Provision(l)) : Rank(y) \in Nat /\ 6 <= Rank(y)
      BY <1>4
    <3> QED
      BY <3>1, <3>2, InOrder
  <2>2. w \subseteq Left(Provision(l)) \cup {} /\ {} \subseteq {}
    BY <1>4
  <2> HIDE DEF KS, DS
  <2> QED
    <3>1. Joined(l, ks \o ds, w, Provision(l), {}, {})
      BY <1>4, <1>7, <2>1, <2>2 DEF Joined
    <3> QED
      BY <3>1, ChunkConcat
<1>9. Left(Program(l)) = KS \cup DS \cup Left(Provision(l))
  BY <1>1, <1>7, <1>8
<1>10. Left(Program(l)) = Calls(l)
  BY <1>4, <1>9 DEF Calls
<1>11. Program(l) # <<>>
  <2>1. "register" \in Left(Program(l))
    BY <1>9, <1>4 DEF w
  <2>2. Len(<<>>) = 0 /\ 1..0 = {}
    OBVIOUS
  <2> QED
    BY <2>1, <2>2 DEF Left
<1> QED
  BY <1>1, <1>8, <1>10, <1>11 DEF Chunk, Shape

(***************************************************************************)
(* The machines and the workers: what always holds                         *)
(***************************************************************************)
WorkOK == work \in [Nodes -> [todo : Seq(AllKinds), host : Hosts \cup {NoHost}, end : {"none", "ok", "failed"}]]
Shapes == \A n \in Nodes : Shape(lab, work[n].todo)
\* A worker has not ended yet; without --parallel there is one at a time.
Turns ==
    /\ lab.parallel \/ \A m, n \in Nodes : Busy(m) /\ Busy(n) => m = n
    /\ \A n \in Nodes : Busy(n) => n \notin queue /\ work[n].end = "none"
\* A host has one machine of a name.
OnePerHost == \A d, e \in domains : d.host = e.host /\ d.name = e.name => d = e
MachineType == [host : Hosts, name : Nodes, addr : 0..Size, seed : Nodes \cup {"image", "none", "nobody"},
                boot : {"disk", "installer"}, on : BOOLEAN, up : BOOLEAN,
                pend : SUBSET {"reboot", "shutdown"}, ev : BOOLEAN]
MachinesGood == domains \subseteq MachineType /\ OnePerHost /\ IsFiniteSet(domains)
WorkersGood == WorkOK /\ Shapes /\ Turns
StateOK ==
    /\ lab \in Labs /\ reach \subseteq Hosts /\ queue \subseteq Nodes /\ missed \subseteq Nodes /\ upset \subseteq Nodes
    /\ disks \in [Hosts \X Nodes -> Nodes \cup {"none", "image"}]
    /\ tmp \in [Hosts -> Nodes \cup {"nobody"}] /\ isos \in [Hosts \X Nodes -> Nodes \cup {"nobody"}]
    /\ dns \in [Nodes -> 0..Size] /\ def \in [Nodes -> 0..Size] /\ past \subseteq 1..Size
    /\ starts \in 0..lab.starts /\ faults \in 0..MaxFaults
Sound == StateOK /\ MachinesGood /\ WorkersGood

\* Worker n has the calls t left, and talks to host h; the others are as they were.
Becomes(n, t, h, e) ==
    /\ WorkOK' /\ (\A k \in Nodes \ {n} : work'[k] = work[k])
    /\ work'[n].todo = t /\ work'[n].host = h /\ work'[n].end = e
\* It makes the call op, and these calls follow it.
Goes(n, op, t, h) ==
    /\ Shape(lab, t) /\ op \in Left(work[n].todo) /\ Left(t) \subseteq Left(work[n].todo)
    /\ (\A o \in Left(t) : Before(op, o)) /\ Must(lab, op) \subseteq Left(t)
    /\ Becomes(n, t, h, IF t = <<>> THEN "ok" ELSE "none")

\* The run's settings are among those the setup.conf of the model allows.
LEMMA LabIsLab == ASSUME lab \in Labs PROVE IsLab(lab) /\ lab.caller \in {"setup_lab", "setup_vm"} /\ lab.parallel \in BOOLEAN
BY KvmVmsAssumption DEF IsLab

\* The empty list of calls.
LEMMA NoCalls == ASSUME NEW l PROVE Shape(l, <<>>) /\ Left(<<>>) = {}
<1> DEFINE s == <<>>
<1>1. s \in Seq(AllKinds) /\ Len(s) = 0 /\ 1..0 = {}
  OBVIOUS
<1> HIDE DEF s
<1>2. 1..Len(s) = {}
  BY <1>1
<1>3. Left(s) = {} /\ Ordered(s) /\ Follows(l, s, {})
  BY <1>2 DEF Left, Ordered, Follows
<1>4. Shape(l, s) /\ Left(s) = {}
  BY <1>1, <1>3 DEF Shape
<1> QED
  BY <1>4 DEF s

\* A worker makes calls as long as it has any left.
LEMMA BusyLeft == ASSUME NEW l, NEW s, Shape(l, s) PROVE s = <<>> <=> Left(s) = {}
<1>1. Len(s) \in Nat /\ s \in Seq(AllKinds)
  BY LenProperties DEF Shape
<1>2. CASE s = <<>>
  BY <1>2, NoCalls
<1>3. CASE s # <<>>
  <2>1. 1 \in 1..Len(s)
    BY <1>1, <1>3, EmptySeq
  <2> QED
    BY <1>3, <2>1 DEF Left
<1> QED
  BY <1>2, <1>3

\* The worker's record, and the call it makes.
LEMMA Called ==
    ASSUME Sound, NEW n \in Nodes, NEW op, At(n, op)
    PROVE  /\ Busy(n) /\ work[n].end = "none" /\ op \in Left(work[n].todo) /\ op \in Calls(lab) /\ n \notin queue
           /\ 1 \in 1..Len(work[n].todo) /\ work[n].todo[1] = op /\ Len(work[n].todo) \in Nat
           /\ Shape(lab, work[n].todo) /\ IsLab(lab)
<1>1. Shape(lab, work[n].todo) /\ IsLab(lab) /\ Busy(n) /\ work[n].todo[1] = op
  BY LabIsLab DEF Sound, WorkersGood, StateOK, Shapes, At
<1>2. Len(work[n].todo) \in Nat /\ work[n].todo \in Seq(AllKinds)
  BY <1>1, LenProperties DEF Shape
<1>3. 1 \in 1..Len(work[n].todo)
  BY <1>1, <1>2, EmptySeq DEF Busy
<1>4. op \in Left(work[n].todo)
  BY <1>1, <1>3 DEF Left
<1>5. op \in Calls(lab)
  BY <1>1, <1>4, ProgramShape DEF Shape
<1> QED
  BY <1>1, <1>2, <1>3, <1>4, <1>5 DEF Sound, WorkersGood, Turns

\* The record of a worker after some calls.
LEMMA RecordOf ==
    ASSUME WorkOK, NEW n \in Nodes, NEW t \in Seq(AllKinds), NEW e \in {"none", "ok", "failed"},
           work' = [work EXCEPT ![n].todo = t, ![n].end = e]
    PROVE  Becomes(n, t, On(n), e)
<1> DEFINE r == [work[n] EXCEPT !.todo = t, !.end = e]
<1>1. work[n] \in [todo : Seq(AllKinds), host : Hosts \cup {NoHost}, end : {"none", "ok", "failed"}]
  BY DEF WorkOK
<1>2. r \in [todo : Seq(AllKinds), host : Hosts \cup {NoHost}, end : {"none", "ok", "failed"}]
      /\ r.todo = t /\ r.host = work[n].host /\ r.end = e
  BY <1>1
<1>3. work' = [work EXCEPT ![n] = r]
  BY DEF WorkOK
<1> HIDE DEF r
<1> QED
  BY <1>2, <1>3 DEF WorkOK, On, Becomes

\* A worker's record after its list and its host are set.
LEMMA RecordHost ==
    ASSUME WorkOK, NEW n \in Nodes, NEW t \in Seq(AllKinds), NEW h \in Hosts \cup {NoHost},
           work' = [work EXCEPT ![n].todo = t, ![n].host = h]
    PROVE  Becomes(n, t, h, work[n].end)
<1> DEFINE r == [work[n] EXCEPT !.todo = t, !.host = h]
<1>1. work[n] \in [todo : Seq(AllKinds), host : Hosts \cup {NoHost}, end : {"none", "ok", "failed"}]
  BY DEF WorkOK
<1>2. r \in [todo : Seq(AllKinds), host : Hosts \cup {NoHost}, end : {"none", "ok", "failed"}]
      /\ r.todo = t /\ r.host = h /\ r.end = work[n].end
  BY <1>1
<1>3. work' = [work EXCEPT ![n] = r]
  BY DEF WorkOK
<1> HIDE DEF r
<1> QED
  BY <1>2, <1>3 DEF WorkOK, Becomes

\* The record of a worker that ends.
LEMMA RecordEnd ==
    ASSUME WorkOK, NEW n \in Nodes, NEW t \in Seq(AllKinds), NEW h \in Hosts \cup {NoHost}, NEW e \in {"none", "ok", "failed"},
           work' = [work EXCEPT ![n] = [todo |-> t, host |-> h, end |-> e]]
    PROVE  Becomes(n, t, h, e)
BY DEF WorkOK, Becomes

\* A worker's record after it raised.
LEMMA DeadRecord ==
    ASSUME WorkOK, NEW n \in Nodes, Dies(n)
    PROVE  Becomes(n, <<>>, NoHost, "failed")
<1>0. <<>> \in Seq(AllKinds)
  OBVIOUS
<1>1. [Idle EXCEPT !.end = "failed"] \in [todo : Seq(AllKinds), host : Hosts \cup {NoHost}, end : {"none", "ok", "failed"}]
      /\ [Idle EXCEPT !.end = "failed"].todo = <<>> /\ [Idle EXCEPT !.end = "failed"].host = NoHost
      /\ [Idle EXCEPT !.end = "failed"].end = "failed"
  BY <1>0 DEF Idle
<1> QED
  BY <1>1 DEF Dies, WorkOK, Becomes

\* After k calls, of which the last is op.
LEMMA DidCalls ==
    ASSUME Sound, NEW n \in Nodes, Busy(n), NEW k \in 1..Len(work[n].todo), NEW op, work[n].todo[k] = op, Did(n, k)
    PROVE  \E t : Goes(n, op, t, On(n)) /\ (k = 1 => Left(work[n].todo) = {op} \cup Left(t))
<1> DEFINE s == work[n].todo
           t == SubSeq(s, k + 1, Len(s))
<1>1. Shape(lab, s) /\ work[n].end = "none" /\ WorkOK /\ k \in 1..Len(s)
  BY DEF Sound, WorkersGood, Shapes, Turns
<1>0. t = SubSeq(s, k + 1, Len(s))
  OBVIOUS
<1> HIDE DEF t, s
<1>2. /\ Shape(lab, t) /\ Left(t) \subseteq Left(s) /\ s[k] \in Left(s) /\ (t = <<>> <=> Left(t) = {})
      /\ (Len(s) = k <=> Left(t) = {}) /\ (\A o \in Left(t) : Before(s[k], o)) /\ Must(lab, s[k]) \subseteq Left(t)
      /\ (k = 1 => Left(s) = {s[1]} \cup Left(t))
  <2>1. Rest(lab, s, k, t)
    BY <1>1, <1>0 DEF Rest
  <2> QED
    BY <2>1, After
<1> USE DEF s
<1>3. work' = [work EXCEPT ![n].todo = t, ![n].end = IF t = <<>> THEN "ok" ELSE "none"]
  <2>1. work' = [work EXCEPT ![n].todo = t, ![n].end = IF Len(work[n].todo) = k THEN "ok" ELSE work[n].end]
    BY <1>1, <1>0 DEF Did, WorkOK
  <2> QED
    BY <1>1, <1>2, <2>1
<1>4. Becomes(n, t, On(n), IF t = <<>> THEN "ok" ELSE "none")
  <2>1. t \in Seq(AllKinds)
    BY <1>2 DEF Shape
  <2> QED
    BY <1>1, <1>3, <2>1, RecordOf
<1>5. Goes(n, op, t, On(n)) /\ (k = 1 => Left(work[n].todo) = {op} \cup Left(t))
  BY <1>2, <1>4 DEF Goes
<1> QED
  BY <1>5

\* A worker that made the first call of its list goes on with the rest.
LEMMA DidOne ==
    ASSUME Sound, NEW n \in Nodes, NEW op, At(n, op), Did(n, 1)
    PROVE  \E t : Goes(n, op, t, On(n)) /\ Left(work[n].todo) = {op} \cup Left(t)
BY Called, DidCalls

\* Upto() finds the place of a call in the list.
LEMMA UptoIsCall ==
    ASSUME Sound, NEW n \in Nodes, NEW op \in Left(work[n].todo)
    PROVE  Upto(n, op) \in 1..Len(work[n].todo) /\ work[n].todo[Upto(n, op)] = op
<1>1. Shape(lab, work[n].todo)
  BY DEF Sound, WorkersGood, Shapes
<1>2. \E i \in DOMAIN work[n].todo : work[n].todo[i] = op /\ \A j \in 1..(i - 1) : work[n].todo[j] # op
  BY <1>1, FirstCall
<1>3. DOMAIN work[n].todo = 1..Len(work[n].todo)
  BY <1>1, LenProperties DEF Shape
<1> QED
  BY <1>2, <1>3 DEF Upto

\* A worker that skips to the call op goes on with what follows op.
LEMMA DidUpto ==
    ASSUME Sound, NEW n \in Nodes, Busy(n), NEW op \in Left(work[n].todo), Did(n, Upto(n, op))
    PROVE  \E t : Goes(n, op, t, On(n))
BY UptoIsCall, DidCalls

\* After a call that finds a host, when there are calls left.
LEMMA TookHost ==
    ASSUME Sound, NEW n \in Nodes, NEW op, At(n, op), Must(lab, op) # {}, NEW h \in Hosts \cup {NoHost},
           work' = [work EXCEPT ![n].todo = Tail(@), ![n].host = h]
    PROVE  \E t : Goes(n, op, t, h) /\ Left(work[n].todo) = {op} \cup Left(t)
<1> DEFINE s == work[n].todo
           t == SubSeq(s, 1 + 1, Len(s))
<1>1. Shape(lab, s) /\ work[n].end = "none" /\ WorkOK /\ 1 \in 1..Len(s) /\ s[1] = op /\ s \in Seq(AllKinds)
  BY Called DEF Sound, WorkersGood, Shape
<1>0. t = SubSeq(s, 1 + 1, Len(s))
  OBVIOUS
<1> HIDE DEF t, s
<1>2. /\ Shape(lab, t) /\ Left(t) \subseteq Left(s) /\ s[1] \in Left(s) /\ (t = <<>> <=> Left(t) = {})
      /\ (\A o \in Left(t) : Before(s[1], o)) /\ Must(lab, s[1]) \subseteq Left(t)
      /\ Left(s) = {s[1]} \cup Left(t)
  <2>1. Rest(lab, s, 1, t)
    BY <1>1, <1>0 DEF Rest
  <2> QED
    BY <2>1, After
<1>3. Tail(s) = t
  <2>1. s # <<>>
    BY DEF At, Busy, s
  <2>2. Tail(s) = SubSeq(s, 2, Len(s))
    BY <1>1, <2>1, TailIsSubSeq
  <2> QED
    BY <1>0, <2>2
<1> USE DEF s
<1>4. work' = [work EXCEPT ![n].todo = t, ![n].host = h]
  BY <1>1, <1>3 DEF WorkOK
<1>5. Becomes(n, t, h, work[n].end)
  <2>1. t \in Seq(AllKinds)
    BY <1>2 DEF Shape
  <2> QED
    BY <1>1, <1>4, <2>1, RecordHost
<1>6. t # <<>>
  BY <1>1, <1>2
<1>7. Goes(n, op, t, h)
  BY <1>1, <1>2, <1>5, <1>6 DEF Goes
<1> QED
  BY <1>1, <1>2, <1>7

(***************************************************************************)
(* What each call does                                                     *)
(***************************************************************************)
\* Worker n makes its next call, op, and the calls t are left.
Call(n, op, t) == At(n, op) /\ Goes(n, op, t, On(n)) /\ Left(work[n].todo) = {op} \cup Left(t)
\* What most calls leave alone.
KeptStay == lab' = lab /\ starts' = starts /\ queue' = queue /\ reach' = reach /\ past' = past
FilesStay == disks' = disks /\ tmp' = tmp /\ isos' = isos
AddressesStay == dns' = dns /\ def' = def
MarksStay == faults' = faults /\ missed' = missed /\ upset' = upset
RestStays == KeptStay /\ FilesStay /\ AddressesStay /\ MarksStay

\* A call to the machine of n on the worker's host: nothing is there, or d becomes e.
Swaps(d, e) == d \in domains /\ domains' = (domains \ {d}) \cup {e}
Same(d, e) == e \in MachineType /\ e.host = d.host /\ e.name = d.name /\ e.seed = d.seed /\ e.addr = d.addr

\* A worker that made its call op and did not raise.
LEMMA CallDone ==
    ASSUME Sound, NEW n \in Nodes, NEW op, At(n, op), Did(n, 1)
    PROVE  \E t : Call(n, op, t)
BY DidOne DEF Call

\* What becomes of a machine.
LEMMA OffOf ==
    ASSUME NEW d \in MachineType
    PROVE  /\ Same(d, Off(d)) /\ Off(d).on = FALSE /\ Off(d).up = FALSE /\ Off(d).pend = {} /\ Off(d).boot = d.boot
<1>1. PICK b \in BOOLEAN : b = Heard(d)
  BY DEF Heard, At, Busy
<1>2. Off(d) = [d EXCEPT !.on = FALSE, !.up = FALSE, !.pend = {}, !.ev = b]
  BY <1>1 DEF Off
<1> QED
  BY <1>2 DEF MachineType, Same

\* virsh start leaves a running machine alone, and switches on one that is off.
LEMMA StartOf ==
    ASSUME NEW d \in MachineType, NEW e, e = IF d.on THEN d ELSE [d EXCEPT !.on = TRUE]
    PROVE  Same(d, e) /\ e.on = TRUE /\ e.up = d.up /\ e.pend = d.pend /\ e.boot = d.boot
BY DEF MachineType, Same

\* set_boot_disk_only() changes nothing but where the machine boots from.
LEMMA BootOf ==
    ASSUME NEW d \in MachineType, NEW e, e = [d EXCEPT !.boot = "disk"]
    PROVE  Same(d, e) /\ e.on = d.on /\ e.up = d.up /\ e.pend = d.pend /\ e.boot = "disk"
BY DEF MachineType, Same

\* A request is noted only by a machine that is up.
LEMMA AskOf ==
    ASSUME NEW d \in MachineType, NEW what \in {"reboot", "shutdown"}, NEW e, e = Ask(d, what)
    PROVE  Same(d, e) /\ e.on = d.on /\ e.up = d.up /\ e.pend \subseteq d.pend \cup {what} /\ e.boot = d.boot
<1>1. CASE d.on
  <2>1. e = [d EXCEPT !.pend = d.pend \cup {what}]
    BY <1>1 DEF Ask
  <2>2. d.pend \cup {what} \in SUBSET {"reboot", "shutdown"}
    BY DEF MachineType
  <2> QED
    BY <2>1, <2>2 DEF MachineType, Same
<1>2. CASE ~d.on
  BY <1>2 DEF Ask, MachineType, Same
<1> QED
  BY <1>1, <1>2

\* A domain event is heard or is not: nothing else of the machine changes.
LEMMA HeardOf ==
    ASSUME NEW d \in MachineType, NEW e, NEW b \in BOOLEAN, e = [d EXCEPT !.ev = b]
    PROVE  Same(d, e) /\ e.on = d.on /\ e.up = d.up /\ e.pend = d.pend /\ e.boot = d.boot
BY DEF MachineType, Same

\* A guest comes up or hangs: nothing else of the machine changes.
LEMMA UpOf ==
    ASSUME NEW d \in MachineType, NEW e, NEW b \in BOOLEAN, e = [d EXCEPT !.up = b]
    PROVE  Same(d, e) /\ e.on = d.on /\ e.up = b /\ e.pend = d.pend /\ e.boot = d.boot
BY DEF MachineType, Same

\* A call that only the worker notices.
LEMMA QuietlyDoes ==
    ASSUME Sound, NEW n \in Nodes, AnswerFile(n) \/ PushFiles(n)
    PROVE  \E op \in {"answer", "push"} : \E t : Call(n, op, t) /\ On(n) \in reach /\ domains' = domains /\ RestStays
<1>1. PICK op \in {"answer", "push"} : Quietly(n, op, 1)
  BY DEF AnswerFile, PushFiles
<1>2. /\ At(n, op) /\ Did(n, 1) /\ On(n) \in reach /\ domains' = domains /\ RestStays
  BY <1>1 DEF Quietly, Command, run, net, files, env, RestStays, KeptStay, FilesStay, AddressesStay, MarksStay
<1> QED
  BY <1>2, CallDone

\* What the test for an existing machine does: reuse it, fail on an unreachable host, or go on.
LEMMA KeepDoes ==
    ASSUME Sound, NEW n \in Nodes, Keep(n)
    PROVE  /\ At(n, "keep?") /\ domains' = domains /\ KeptStay /\ FilesStay /\ AddressesStay /\ missed' = missed
           /\ (faults' = faults \/ (faults < MaxFaults /\ faults' = faults + 1))
           /\ \/ \E h \in Hosts :
                   /\ Reusable(h, n) /\ Becomes(n, <<>>, h, "ok")
                   /\ upset' = IF \E d \in Has(h, n) : "shutdown" \in d.pend THEN upset ELSE upset \ {n}
              \/ (\E t : Call(n, "keep?", t)) /\ upset' = upset
<1>1. /\ At(n, "keep?") /\ domains' = domains /\ KeptStay /\ FilesStay /\ AddressesStay /\ missed' = missed
      /\ (faults' = faults \/ (faults < MaxFaults /\ faults' = faults + 1))
  BY DEF Keep, Unanswered, run, net, files, KeptStay, FilesStay, AddressesStay
<1>2. CASE Did(n, 1) /\ upset' = upset
  BY <1>1, <1>2, CallDone
<1>3. CASE \E h \in Hosts :
             /\ Reusable(h, n) /\ work' = [work EXCEPT ![n] = [todo |-> <<>>, host |-> h, end |-> "ok"]]
             /\ upset' = IF \E d \in Has(h, n) : "shutdown" \in d.pend THEN upset ELSE upset \ {n}
  <2>1. PICK h \in Hosts :
             /\ Reusable(h, n) /\ work' = [work EXCEPT ![n] = [todo |-> <<>>, host |-> h, end |-> "ok"]]
             /\ upset' = IF \E d \in Has(h, n) : "shutdown" \in d.pend THEN upset ELSE upset \ {n}
    BY <1>3
  <2>2. <<>> \in Seq(AllKinds) /\ WorkOK /\ h \in Hosts \cup {NoHost} /\ "ok" \in {"none", "ok", "failed"}
    BY DEF Sound, WorkersGood
  <2>3. Becomes(n, <<>>, h, "ok")
    BY <2>1, <2>2, RecordEnd
  <2> QED
    BY <1>1, <2>1, <2>3
<1> QED
  BY <1>2, <1>3 DEF Keep

\* The machine's host is the first of those that answered that has it.
Searched(n, answered) ==
    /\ missed' = missed \cup {k \in {n} : \E h \in Hosts \ answered : Has(h, n) # {}}
    /\ \/ (\A h \in answered : Has(h, n) = {}) /\ \E t : Goes(n, "undefine", t, On(n))
       \/ \E h \in answered : \E t : Has(h, n) # {} /\ Goes(n, "locate", t, h) /\ Left(work[n].todo) = {"locate"} \cup Left(t)

\* What the search of the hosts for a machine of this name does.
LEMMA LocateDoes ==
    ASSUME Sound, NEW n \in Nodes, Locate(n)
    PROVE  /\ At(n, "locate") /\ domains' = domains /\ KeptStay /\ FilesStay /\ AddressesStay /\ upset' = upset
           /\ (faults' = faults \/ (faults < MaxFaults /\ faults' = faults + 1))
           /\ \E answered \in SUBSET reach : Searched(n, answered)
<1>1. /\ At(n, "locate") /\ domains' = domains /\ KeptStay /\ FilesStay /\ AddressesStay /\ upset' = upset
      /\ (faults' = faults \/ (faults < MaxFaults /\ faults' = faults + 1))
  BY DEF Locate, Unanswered, run, net, files, KeptStay, FilesStay, AddressesStay
<1>2. /\ Busy(n) /\ Shape(lab, work[n].todo) /\ 1 \in 1..Len(work[n].todo) /\ work[n].todo[1] = "locate" /\ "locate" \in Calls(lab)
      /\ IsLab(lab)
  BY <1>1, Called
<1>3. lab.kind = "libvirt"
  BY <1>2 DEF Calls, IsLab
<1>4. {"undefine", "register"} \subseteq Must(lab, "locate") /\ Must(lab, "locate") # {}
  BY <1>3, Musts DEF RemoveOf
<1>5. PICK A \in SUBSET reach : LocateAmong(n, A)
  <2>1. \/ LocateAmong(n, reach)
        \/ \E h \in reach : LocateAmong(n, reach \ {h})
    BY DEF Locate
  <2> QED
    BY <2>1
<1>6. missed' = missed \cup {k \in {n} : \E h \in Hosts \ A : Has(h, n) # {}}
  BY <1>5 DEF LocateAmong
<1>7. CASE (\A h \in A : Has(h, n) = {}) /\ Did(n, Upto(n, "undefine"))
  <2>1. "undefine" \in Left(work[n].todo)
    BY <1>2, <1>4 DEF Shape, Follows, Left
  <2> QED
    BY <1>1, <1>2, <1>6, <1>7, <2>1, DidUpto DEF Searched
<1>8. CASE \E h \in {h \in A : Has(h, n) # {}} : work' = [work EXCEPT ![n].todo = Tail(@), ![n].host = h]
  <2>1. PICK h \in {h \in A : Has(h, n) # {}} : work' = [work EXCEPT ![n].todo = Tail(@), ![n].host = h]
    BY <1>8
  <2>2. h \in Hosts \cup {NoHost}
    BY <1>5, <2>1 DEF Sound, StateOK
  <2>3. \E t : Goes(n, "locate", t, h) /\ Left(work[n].todo) = {"locate"} \cup Left(t)
    BY <1>1, <1>4, <2>1, <2>2, TookHost
  <2> QED
    BY <1>1, <1>6, <2>1, <2>3 DEF Searched
<1> QED
  BY <1>5, <1>7, <1>8 DEF LocateAmong

\* What select_kvm_host() does: raise, or choose a host with room.
LEMMA SelectDoes ==
    ASSUME Sound, NEW n \in Nodes, Select(n)
    PROVE  /\ At(n, "select") /\ domains' = domains /\ RestStays
           /\ \/ Becomes(n, <<>>, NoHost, "failed")
              \/ \E h \in Fitting : \E t : Goes(n, "select", t, h) /\ Left(work[n].todo) = {"select"} \cup Left(t)
<1>1. At(n, "select") /\ domains' = domains /\ RestStays
  BY DEF Select, run, net, files, env, RestStays, KeptStay, FilesStay, AddressesStay, MarksStay
<1>2. "register" \in Must(lab, "select")
  BY Musts
<1>3. CASE Dies(n)
  BY <1>1, <1>3, DeadRecord DEF Sound, WorkersGood
<1>4. CASE \E h \in Fitting : work' = [work EXCEPT ![n].todo = Tail(@), ![n].host = h]
  <2>1. PICK h \in Fitting : work' = [work EXCEPT ![n].todo = Tail(@), ![n].host = h]
    BY <1>4
  <2>2. h \in Hosts \cup {NoHost} /\ Must(lab, "select") # {}
    BY <1>2, <2>1 DEF Sound, StateOK, Fitting
  <2>3. \E t : Goes(n, "select", t, h) /\ Left(work[n].todo) = {"select"} \cup Left(t)
    BY <1>1, <2>1, <2>2, TookHost
  <2> QED
    BY <1>1, <2>1, <2>3
<1> QED
  BY <1>3, <1>4 DEF Select

\* What the wait for the machine's port does.
LEMMA OnlineDoes ==
    ASSUME Sound, NEW n \in Nodes, Online(n)
    PROVE  /\ At(n, "online") /\ domains' = domains /\ RestStays
           /\ Becomes(n, <<>>, NoHost, "failed") \/ \E t : Call(n, "online", t)
<1>1. At(n, "online") /\ domains' = domains /\ RestStays
  BY DEF Online, run, net, files, env, RestStays, KeptStay, FilesStay, AddressesStay, MarksStay
<1>2. CASE Dies(n)
  BY <1>1, <1>2, DeadRecord DEF Sound, WorkersGood
<1>3. CASE Did(n, 1)
  BY <1>1, <1>3, CallDone
<1> QED
  BY <1>2, <1>3 DEF Online

\* What the removal of the DNS records of n does.
LEMMA UnregisterDoes ==
    ASSUME Sound, NEW n \in Nodes, Unregister(n)
    PROVE  /\ \E t : Call(n, "unregister", t)
           /\ dns' = [dns EXCEPT ![n] = 0] /\ def' = def /\ domains' = domains /\ KeptStay /\ FilesStay /\ MarksStay
<1>1. /\ At(n, "unregister") /\ Did(n, 1)
      /\ dns' = [dns EXCEPT ![n] = 0] /\ def' = def /\ domains' = domains /\ KeptStay /\ FilesStay /\ MarksStay
  BY DEF Unregister, run, files, env, KeptStay, FilesStay, MarksStay
<1> QED
  BY <1>1, CallDone

\* What the registration of the DNS records of n does.
LEMMA RegisterDoes ==
    ASSUME Sound, NEW n \in Nodes, Register(n)
    PROVE  /\ \E t : Call(n, "register", t)
           /\ dns' = [dns EXCEPT ![n] = def[n]] /\ def' = def /\ domains' = domains /\ KeptStay /\ FilesStay /\ MarksStay
<1>1. /\ At(n, "register") /\ Did(n, 1)
      /\ dns' = [dns EXCEPT ![n] = def[n]] /\ def' = def /\ domains' = domains /\ KeptStay /\ FilesStay /\ MarksStay
  BY DEF Register, run, files, env, KeptStay, FilesStay, MarksStay
<1> QED
  BY <1>1, CallDone

\* What the allocation of an address of setup_vm.py does.
LEMMA AllocateIpDoes ==
    ASSUME Sound, NEW n \in Nodes, AllocateIp(n)
    PROVE  /\ At(n, "allocate") /\ dns' = dns /\ domains' = domains /\ KeptStay /\ FilesStay /\ MarksStay
           /\ \/ def' = def /\ \E t : Call(n, "allocate", t)
              \/ /\ def[n] = 0
                 /\ \E seen \in Seen : def' = [def EXCEPT ![n] = Allocate(n, [k \in Nodes |-> 0], seen)]
                 /\ Becomes(n, <<>>, NoHost, "failed") \/ ((\E t : Call(n, "allocate", t)) /\ def'[n] # 0)
<1>1. At(n, "allocate") /\ dns' = dns /\ domains' = domains /\ KeptStay /\ FilesStay /\ MarksStay
  BY DEF AllocateIp, run, files, env, KeptStay, FilesStay, MarksStay
<1>2. Did(n, 1) => \E t : Call(n, "allocate", t)
  BY <1>1, CallDone
<1>3. Dies(n) => Becomes(n, <<>>, NoHost, "failed")
  BY DeadRecord DEF Sound, WorkersGood
<1>4. CASE def[n] # 0
  BY <1>1, <1>2, <1>4 DEF AllocateIp
<1>5. CASE def[n] = 0
  <2>1. PICK seen \in Seen : LET a == Allocate(n, [k \in Nodes |-> 0], seen)
                             IN  def' = [def EXCEPT ![n] = a] /\ IF a = 0 THEN Dies(n) ELSE Did(n, 1)
    BY <1>5 DEF AllocateIp
  <2>2. def'[n] = Allocate(n, [k \in Nodes |-> 0], seen)
    BY <2>1 DEF Sound, StateOK
  <2> QED
    BY <1>1, <1>2, <1>3, <1>5, <2>1, <2>2
<1> QED
  BY <1>4, <1>5

\* A command to the worker's host; it leaves everything but machines as it is.
Command1(n, op, t) == Call(n, op, t) /\ On(n) \in reach /\ RestStays
\* The machine d becomes e, with what the call has made of it.
Switched(d, e, on) == Swaps(d, e) /\ Same(d, e) /\ e.on = on /\ e.boot = d.boot /\ e.pend \subseteq d.pend /\ e.up \in {FALSE, d.up}

\* A machine of n on the worker's host.
LEMMA MineTyped == ASSUME Sound, NEW n, NEW d \in Mine(n) PROVE d \in domains /\ d \in MachineType /\ d.host = On(n) /\ d.name = n
BY DEF Sound, MachinesGood, Mine, Has

\* What a destroy of the machine does.
LEMMA DestroyDoes ==
    ASSUME Sound, NEW n \in Nodes, Destroy(n)
    PROVE  \E op \in {"destroy", "stop", "virsh-destroy"} : \E t :
             /\ Command1(n, op, t)
             /\ (Mine(n) = {} /\ domains' = domains) \/ \E d \in Mine(n) : \E e : Switched(d, e, FALSE) /\ e.up = FALSE /\ e.pend = {}
<1>1. PICK op \in {"destroy", "stop", "virsh-destroy"} : ToDomain(n, op, Off)
  BY DEF Destroy
<1>2. /\ At(n, op) /\ Did(n, 1) /\ On(n) \in reach /\ RestStays
      /\ (Mine(n) = {} /\ domains' = domains) \/ \E d \in Mine(n) : domains' = (domains \ {d}) \cup {Off(d)}
  BY <1>1 DEF ToDomain, Command, Change, run, net, files, env, RestStays, KeptStay, FilesStay, AddressesStay, MarksStay
<1>3. PICK t : Command1(n, op, t)
  BY <1>2, CallDone DEF Command1
<1>4. ASSUME NEW d \in Mine(n), domains' = (domains \ {d}) \cup {Off(d)}
      PROVE  \E e : Switched(d, e, FALSE) /\ e.up = FALSE /\ e.pend = {}
  BY <1>4, MineTyped, OffOf DEF Switched, Swaps
<1> QED
  BY <1>2, <1>3, <1>4

\* What virsh start does.
LEMMA StartDomainDoes ==
    ASSUME Sound, NEW n \in Nodes, StartDomain(n)
    PROVE  \E op \in {"virsh-start", "start-again"} : \E t :
             /\ Command1(n, op, t)
             /\ (Mine(n) = {} /\ domains' = domains) \/ \E d \in Mine(n) : \E e : Switched(d, e, TRUE)
<1>1. \E op \in {"virsh-start", "start-again"} :
      /\ At(n, op) /\ Did(n, 1) /\ On(n) \in reach /\ RestStays
      /\ (Mine(n) = {} /\ domains' = domains)
         \/ \E d \in Mine(n) : domains' = (domains \ {d}) \cup {IF d.on THEN d ELSE [d EXCEPT !.on = TRUE]}
  BY DEF StartDomain, ToDomain, Command, Change, run, net, files, env, RestStays, KeptStay, FilesStay, AddressesStay, MarksStay
<1>2. PICK op \in {"virsh-start", "start-again"} :
      /\ At(n, op) /\ Did(n, 1) /\ On(n) \in reach /\ RestStays
      /\ (Mine(n) = {} /\ domains' = domains)
         \/ \E d \in Mine(n) : domains' = (domains \ {d}) \cup {IF d.on THEN d ELSE [d EXCEPT !.on = TRUE]}
  BY <1>1
<1>3. PICK t : Command1(n, op, t)
  BY <1>2, CallDone DEF Command1
<1>4. ASSUME NEW d \in Mine(n), domains' = (domains \ {d}) \cup {IF d.on THEN d ELSE [d EXCEPT !.on = TRUE]}
      PROVE  \E e : Switched(d, e, TRUE)
  BY <1>4, MineTyped, StartOf DEF Switched, Swaps
<1> QED
  BY <1>2, <1>3, <1>4

\* What the edit of the boot order does.
LEMMA EditBootDoes ==
    ASSUME Sound, NEW n \in Nodes, EditBoot(n)
    PROVE  \E t : /\ Command1(n, "edit", t)
                  /\ \/ Mine(n) = {} /\ domains' = domains
                     \/ \E d \in Mine(n) : \E e : /\ Swaps(d, e) /\ Same(d, e) /\ e.on = d.on /\ e.boot = "disk" /\ e.pend = d.pend
                                                  /\ e.up = d.up
<1>1. /\ At(n, "edit") /\ Did(n, 1) /\ On(n) \in reach /\ RestStays
      /\ (Mine(n) = {} /\ domains' = domains) \/ \E d \in Mine(n) : domains' = (domains \ {d}) \cup {[d EXCEPT !.boot = "disk"]}
  BY DEF EditBoot, ToDomain, Command, Change, run, net, files, env, RestStays, KeptStay, FilesStay, AddressesStay, MarksStay
<1>2. PICK t : Command1(n, "edit", t)
  BY <1>1, CallDone DEF Command1
<1>3. ASSUME NEW d \in Mine(n), domains' = (domains \ {d}) \cup {[d EXCEPT !.boot = "disk"]}
      PROVE  \E e : Swaps(d, e) /\ Same(d, e) /\ e.on = d.on /\ e.boot = "disk" /\ e.pend = d.pend /\ e.up = d.up
  BY <1>3, MineTyped, BootOf DEF Swaps
<1> QED
  BY <1>1, <1>2, <1>3

\* A request to the machine, a look at its events, a reset: it is as it was but for what it was asked.
LEMMA TouchDoes ==
    ASSUME Sound, NEW n \in Nodes, AskReboot(n) \/ Listen(n) \/ Reset(n)
    PROVE  \E op \in {"virsh-reboot", "listen", "reset", "restart"} : \E t :
             /\ Command1(n, op, t)
             /\ \/ Mine(n) = {} /\ domains' = domains
                \/ \E d \in Mine(n) : \E e : /\ Swaps(d, e) /\ Same(d, e) /\ e.on = d.on /\ e.boot = d.boot
                                             /\ e.pend \subseteq d.pend \cup {"reboot"} /\ e.up \in {FALSE, d.up}
<1>1. CASE AskReboot(n)
  <2>1. /\ At(n, "virsh-reboot") /\ Did(n, 1) /\ On(n) \in reach /\ RestStays
        /\ (Mine(n) = {} /\ domains' = domains) \/ \E d \in Mine(n) : domains' = (domains \ {d}) \cup {Ask(d, "reboot")}
    BY <1>1 DEF AskReboot, ToDomain, Command, Change, run, net, files, env, RestStays, KeptStay, FilesStay, AddressesStay, MarksStay
  <2>2. PICK t : Command1(n, "virsh-reboot", t)
    BY <2>1, CallDone DEF Command1
  <2>3. ASSUME NEW d \in Mine(n), domains' = (domains \ {d}) \cup {Ask(d, "reboot")}
        PROVE  \E e : /\ Swaps(d, e) /\ Same(d, e) /\ e.on = d.on /\ e.boot = d.boot
                      /\ e.pend \subseteq d.pend \cup {"reboot"} /\ e.up \in {FALSE, d.up}
    BY <2>3, MineTyped, AskOf DEF Swaps
  <2> QED
    BY <2>1, <2>2, <2>3
<1>2. CASE Listen(n)
  <2>1. /\ At(n, "listen") /\ Did(n, 1) /\ On(n) \in reach /\ RestStays
        /\ (Mine(n) = {} /\ domains' = domains) \/ \E d \in Mine(n) : domains' = (domains \ {d}) \cup {[d EXCEPT !.ev = FALSE]}
    BY <1>2 DEF Listen, ToDomain, Command, Change, run, net, files, env, RestStays, KeptStay, FilesStay, AddressesStay, MarksStay
  <2>2. PICK t : Command1(n, "listen", t)
    BY <2>1, CallDone DEF Command1
  <2>3. ASSUME NEW d \in Mine(n), domains' = (domains \ {d}) \cup {[d EXCEPT !.ev = FALSE]}
        PROVE  \E e : /\ Swaps(d, e) /\ Same(d, e) /\ e.on = d.on /\ e.boot = d.boot
                      /\ e.pend \subseteq d.pend \cup {"reboot"} /\ e.up \in {FALSE, d.up}
    BY <2>3, MineTyped, HeardOf DEF Swaps
  <2> QED
    BY <2>1, <2>2, <2>3
<1>3. CASE Reset(n)
  <2>1. \E op \in {"reset", "restart"} :
        /\ At(n, op) /\ Did(n, 1) /\ On(n) \in reach /\ RestStays
        /\ (Mine(n) = {} /\ domains' = domains) \/ \E d \in Mine(n) : domains' = (domains \ {d}) \cup {[d EXCEPT !.up = FALSE]}
    BY <1>3 DEF Reset, ToDomain, Command, Change, run, net, files, env, RestStays, KeptStay, FilesStay, AddressesStay, MarksStay
  <2>2. PICK op \in {"reset", "restart"} :
        /\ At(n, op) /\ Did(n, 1) /\ On(n) \in reach /\ RestStays
        /\ (Mine(n) = {} /\ domains' = domains) \/ \E d \in Mine(n) : domains' = (domains \ {d}) \cup {[d EXCEPT !.up = FALSE]}
    BY <2>1
  <2>3. PICK t : Command1(n, op, t)
    BY <2>2, CallDone DEF Command1
  <2>4. ASSUME NEW d \in Mine(n), domains' = (domains \ {d}) \cup {[d EXCEPT !.up = FALSE]}
        PROVE  \E e : /\ Swaps(d, e) /\ Same(d, e) /\ e.on = d.on /\ e.boot = d.boot
                      /\ e.pend \subseteq d.pend \cup {"reboot"} /\ e.up \in {FALSE, d.up}
    BY <2>4, MineTyped, UpOf DEF Swaps
  <2> QED
    BY <2>2, <2>3, <2>4
<1> QED
  BY <1>1, <1>2, <1>3

\* What virsh shutdown does.
LEMMA AskShutdownDoes ==
    ASSUME Sound, NEW n \in Nodes, AskShutdown(n)
    PROVE  \E t : /\ Call(n, "virsh-shutdown", t) /\ On(n) \in reach /\ KeptStay /\ FilesStay /\ AddressesStay
                  /\ faults' = faults /\ missed' = missed /\ upset' = upset \cup {n}
                  /\ \/ Mine(n) = {} /\ domains' = domains
                     \/ \E d \in Mine(n) : \E e : /\ Swaps(d, e) /\ Same(d, e) /\ e.on = d.on /\ e.boot = d.boot /\ e.up = d.up
                                                  /\ e.pend \subseteq d.pend \cup {"shutdown"}
<1>1. /\ At(n, "virsh-shutdown") /\ Did(n, 1) /\ On(n) \in reach /\ KeptStay /\ FilesStay /\ AddressesStay
      /\ faults' = faults /\ missed' = missed /\ upset' = upset \cup {n}
      /\ (Mine(n) = {} /\ domains' = domains) \/ \E d \in Mine(n) : domains' = (domains \ {d}) \cup {Ask(d, "shutdown")}
  BY DEF AskShutdown, Command, Change, run, net, files, KeptStay, FilesStay, AddressesStay
<1>2. PICK t : Call(n, "virsh-shutdown", t)
  BY <1>1, CallDone
<1>3. ASSUME NEW d \in Mine(n), domains' = (domains \ {d}) \cup {Ask(d, "shutdown")}
      PROVE  \E e : /\ Swaps(d, e) /\ Same(d, e) /\ e.on = d.on /\ e.boot = d.boot /\ e.up = d.up
                    /\ e.pend \subseteq d.pend \cup {"shutdown"}
  BY <1>3, MineTyped, AskOf DEF Swaps
<1> QED
  BY <1>1, <1>2, <1>3

\* What a call needs is among those that are left.
LEMMA FollowsCall ==
    ASSUME Sound, NEW n \in Nodes, NEW op, At(n, op)
    PROVE  Busy(n) /\ op \in Left(work[n].todo) /\ Must(lab, op) \subseteq Left(work[n].todo)
<1>1. /\ Busy(n) /\ op \in Left(work[n].todo) /\ 1 \in 1..Len(work[n].todo) /\ work[n].todo[1] = op
      /\ Shape(lab, work[n].todo)
  BY Called
<1> QED
  BY <1>1 DEF Shape, Follows, Left

\* A guest that answers at the name of n is asked to reboot; it need not be that of n.
LEMMA ProbeDoes ==
    ASSUME Sound, NEW n \in Nodes, Probe(n)
    PROVE  /\ At(n, "probe") /\ RestStays
           /\ \/ (\E t : Call(n, "probe", t)) /\ domains' = domains
              \/ \E t, d, e : /\ Goes(n, "reset", t, On(n)) /\ Swaps(d, e) /\ Same(d, e) /\ e.on = d.on /\ e.boot = d.boot
                              /\ e.pend \subseteq d.pend \cup {"reboot"} /\ e.up = d.up
<1> DEFINE there == {x \in Ups : x.addr = dns[n]}
<1>1. At(n, "probe") /\ RestStays
  BY DEF Probe, run, net, files, env, RestStays, KeptStay, FilesStay, AddressesStay, MarksStay
<1>2. CASE Did(n, 1) /\ domains' = domains
  BY <1>1, <1>2, CallDone
<1>3. CASE Did(n, Upto(n, "reset")) /\ \E x \in there : Change(x, Ask(x, "reboot"))
  <2>0. Must(lab, "probe") = {"reset"}
    BY Musts
  <2>1. "reset" \in Left(work[n].todo) /\ Busy(n)
    BY <1>1, <2>0, FollowsCall
  <2>2. PICK t : Goes(n, "reset", t, On(n))
    BY <1>3, <2>1, DidUpto
  <2>3. PICK d \in there : domains' = (domains \ {d}) \cup {Ask(d, "reboot")}
    BY <1>3 DEF Change
  <2>4. d \in domains /\ d \in MachineType
    BY <2>3 DEF Ups, Sound, MachinesGood
  <2> DEFINE e == Ask(d, "reboot")
  <2>5. Swaps(d, e) /\ Same(d, e) /\ e.on = d.on /\ e.boot = d.boot /\ e.pend \subseteq d.pend \cup {"reboot"} /\ e.up = d.up
    BY <2>3, <2>4, AskOf DEF Swaps
  <2> QED
    BY <1>1, <2>2, <2>5
<1> QED
  BY <1>2, <1>3 DEF Probe

\* A command to the worker's host that changes files or machines.
Command2(n, op, t) == Call(n, op, t) /\ On(n) \in reach /\ KeptStay /\ AddressesStay /\ MarksStay

\* What virsh undefine does: it takes a machine that is off out of the registry, and the disk with it.
LEMMA UndefineDoes ==
    ASSUME Sound, NEW n \in Nodes, Undefine(n)
    PROVE  \E t : /\ Command2(n, "undefine", t) /\ tmp' = tmp /\ isos' = isos
                  /\ domains' = domains \ {d \in Mine(n) : ~d.on}
                  /\ disks' = disks \/ disks' = [disks EXCEPT ![<<On(n), n>>] = "none"]
<1>1. /\ At(n, "undefine") /\ Did(n, 1) /\ On(n) \in reach /\ KeptStay /\ AddressesStay /\ MarksStay /\ tmp' = tmp /\ isos' = isos
      /\ domains' = domains \ {d \in Mine(n) : ~d.on}
      /\ disks' = disks \/ disks' = [disks EXCEPT ![<<On(n), n>>] = "none"]
  BY DEF Undefine, Command, run, net, env, KeptStay, AddressesStay, MarksStay
<1> QED
  BY <1>1, CallDone DEF Command2

\* What the deletion of the VirtualMachine object does.
LEMMA DeleteDoes ==
    ASSUME Sound, NEW n \in Nodes, Delete(n)
    PROVE  \E t : Command1(n, "delete", t) /\ domains' = domains \ Mine(n)
<1>1. /\ At(n, "delete") /\ Did(n, 1) /\ On(n) \in reach /\ RestStays /\ domains' = domains \ Mine(n)
  BY DEF Delete, Command, run, net, files, env, KeptStay, FilesStay, AddressesStay, MarksStay, RestStays
<1> QED
  BY <1>1, CallDone DEF Command1

\* What the copy of the base image does.
LEMMA CopyImageDoes ==
    ASSUME Sound, NEW n \in Nodes, CopyImage(n)
    PROVE  \E t : /\ Command2(n, "copy", t) /\ domains' = domains /\ tmp' = tmp /\ isos' = isos
                  /\ disks' = [disks EXCEPT ![<<On(n), n>>] = "image"]
<1>1. /\ At(n, "copy") /\ Did(n, 1) /\ On(n) \in reach /\ KeptStay /\ AddressesStay /\ MarksStay
      /\ domains' = domains /\ tmp' = tmp /\ isos' = isos /\ disks' = [disks EXCEPT ![<<On(n), n>>] = "image"]
  BY DEF CopyImage, Command, run, net, env, KeptStay, AddressesStay, MarksStay
<1> QED
  BY <1>1, CallDone DEF Command2

\* What virt-customize does to the disk that is there.
LEMMA CustomizeDoes ==
    ASSUME Sound, NEW n \in Nodes, Customize(n)
    PROVE  \E t : /\ Command2(n, "customize", t) /\ domains' = domains /\ tmp' = tmp /\ isos' = isos
                  /\ disks' = [disks EXCEPT ![<<On(n), n>>] = IF @ = "none" THEN @ ELSE n]
<1>1. /\ At(n, "customize") /\ Did(n, 1) /\ On(n) \in reach /\ KeptStay /\ AddressesStay /\ MarksStay
      /\ domains' = domains /\ tmp' = tmp /\ isos' = isos /\ disks' = [disks EXCEPT ![<<On(n), n>>] = IF @ = "none" THEN @ ELSE n]
  BY DEF Customize, Command, run, net, env, KeptStay, AddressesStay, MarksStay
<1> QED
  BY <1>1, CallDone DEF Command2

\* What the copy of the configuration to the shared directory of the host does.
LEMMA StageDoes ==
    ASSUME Sound, NEW n \in Nodes, Stage(n)
    PROVE  \E t : /\ Command2(n, "stage", t) /\ domains' = domains /\ disks' = disks /\ isos' = isos
                  /\ tmp' = [tmp EXCEPT ![On(n)] = n]
<1>1. /\ At(n, "stage") /\ Did(n, 1) /\ On(n) \in reach /\ KeptStay /\ AddressesStay /\ MarksStay
      /\ domains' = domains /\ disks' = disks /\ isos' = isos /\ tmp' = [tmp EXCEPT ![On(n)] = n]
  BY DEF Stage, Command, run, net, env, KeptStay, AddressesStay, MarksStay
<1> QED
  BY <1>1, CallDone DEF Command2

\* What the build of the seed image from the shared directory does.
LEMMA SeedDoes ==
    ASSUME Sound, NEW n \in Nodes, Seed(n)
    PROVE  \E t : /\ Command2(n, "seed", t) /\ domains' = domains /\ disks' = disks /\ tmp' = tmp
                  /\ isos' = [isos EXCEPT ![<<On(n), n>>] = tmp[On(n)]]
<1>1. /\ At(n, "seed") /\ Did(n, 1) /\ On(n) \in reach /\ KeptStay /\ AddressesStay /\ MarksStay
      /\ domains' = domains /\ disks' = disks /\ tmp' = tmp /\ isos' = [isos EXCEPT ![<<On(n), n>>] = tmp[On(n)]]
  BY DEF Seed, Command, run, net, env, KeptStay, AddressesStay, MarksStay
<1> QED
  BY <1>1, CallDone DEF Command2

\* A machine as create_vm() makes it.
\* There is a new machine e of n.
Makes(n, e) == Mine(n) = {} /\ domains' = domains \cup {e} /\ \E from \in {"disk", "installer"}, running \in BOOLEAN : e = Domain(n, from, running)

\* A machine as create_vm() makes it.
LEMMA NewMachine ==
    ASSUME Sound, NEW n \in Nodes, On(n) \in Hosts, NEW d, Makes(n, d)
    PROVE  /\ d \in MachineType /\ d.host = On(n) /\ d.name = n /\ d.seed = SeedOf(n)
           /\ d.up = FALSE /\ d.pend = {} /\ d.addr = IF SeedOf(n) \in Nodes THEN def[SeedOf(n)] ELSE 0
<1>1. SeedOf(n) \in Nodes \cup {"image", "none", "nobody"}
  <2>1. <<On(n), n>> \in Hosts \X Nodes
    OBVIOUS
  <2>2. isos[<<On(n), n>>] \in Nodes \cup {"nobody"} /\ disks[<<On(n), n>>] \in Nodes \cup {"none", "image"}
    BY <2>1 DEF Sound, StateOK
  <2> QED
    BY <2>2 DEF SeedOf
<1> DEFINE a == IF SeedOf(n) \in Nodes THEN def[SeedOf(n)] ELSE 0
<1>2. a \in 0..Size
  BY KvmVmsAssumption DEF Sound, StateOK
<1>0. PICK from \in {"disk", "installer"}, running \in BOOLEAN : d = Domain(n, from, running)
  BY DEF Makes
<1>3. d = [host |-> On(n), name |-> n, seed |-> SeedOf(n), addr |-> a, boot |-> from, on |-> running, up |-> FALSE,
           pend |-> {}, ev |-> FALSE]
  BY <1>0 DEF Domain
<1> HIDE DEF a
<1>4. d \in MachineType /\ d.host = On(n) /\ d.name = n /\ d.seed = SeedOf(n)
      /\ d.up = FALSE /\ d.pend = {} /\ d.addr = a
  BY <1>0, <1>1, <1>2, <1>3 DEF MachineType
<1> QED
  BY <1>4 DEF a

\* What virt-install --import does: refuse a name that the host has, or make the machine.
LEMMA InstallDoes ==
    ASSUME Sound, NEW n \in Nodes, Install(n)
    PROVE  /\ At(n, "install") /\ On(n) \in reach /\ RestStays
           /\ \/ Mine(n) # {} /\ Becomes(n, <<>>, NoHost, "failed") /\ domains' = domains
              \/ Makes(n, Domain(n, "disk", TRUE)) /\ \E t : Call(n, "install", t)
<1>1. At(n, "install") /\ On(n) \in reach /\ RestStays
  BY DEF Install, Command, run, net, files, env, KeptStay, FilesStay, AddressesStay, MarksStay, RestStays
<1>2. Dies(n) => Becomes(n, <<>>, NoHost, "failed")
  BY DeadRecord DEF Sound, WorkersGood
<1>3. Did(n, 1) => \E t : Call(n, "install", t)
  BY <1>1, CallDone
<1> QED
  BY <1>1, <1>2, <1>3 DEF Install, Makes

\* What virt-install from an installation medium does.
LEMMA InstallIsoDoes ==
    ASSUME Sound, NEW n \in Nodes, InstallIso(n)
    PROVE  /\ At(n, "install-iso") /\ On(n) \in reach /\ KeptStay /\ AddressesStay /\ MarksStay /\ tmp' = tmp /\ isos' = isos
           /\ \/ Mine(n) # {} /\ Becomes(n, <<>>, NoHost, "failed") /\ domains' = domains /\ disks' = disks
              \/ /\ disks' = [disks EXCEPT ![<<On(n), n>>] = n] /\ \E t : Call(n, "install-iso", t)
                 /\ \E running \in BOOLEAN :
                      Makes(n, Domain(n, IF lab.method = "autoinstall" THEN "installer" ELSE "disk", running))
<1>1. At(n, "install-iso") /\ On(n) \in reach /\ KeptStay /\ AddressesStay /\ MarksStay /\ tmp' = tmp /\ isos' = isos
  BY DEF InstallIso, Command, run, net, env, KeptStay, AddressesStay, MarksStay
<1>2. Dies(n) => Becomes(n, <<>>, NoHost, "failed")
  BY DeadRecord DEF Sound, WorkersGood
<1>3. Did(n, 1) => \E t : Call(n, "install-iso", t)
  BY <1>1, CallDone
<1>4. CASE Mine(n) # {}
  BY <1>1, <1>2, <1>4 DEF InstallIso
<1>5. CASE Mine(n) = {}
  <2> DEFINE from == IF lab.method = "autoinstall" THEN "installer" ELSE "disk"
  <2>1. /\ Did(n, 1) /\ disks' = [disks EXCEPT ![<<On(n), n>>] = n]
        /\ \E running \in BOOLEAN : domains' = domains \cup {Domain(n, from, running)}
    BY <1>5 DEF InstallIso
  <2>2. PICK running \in BOOLEAN : domains' = domains \cup {Domain(n, from, running)}
    BY <2>1
  <2>3. Makes(n, Domain(n, from, running))
    BY <1>5, <2>2 DEF Makes
  <2> QED
    BY <1>1, <1>3, <2>1, <2>3
<1> QED
  BY <1>4, <1>5

\* What the application of the VirtualMachine manifest does.
LEMMA ApplyDoes ==
    ASSUME Sound, NEW n \in Nodes, Apply(n)
    PROVE  \E t : /\ Command1(n, "apply", t)
                  /\ (Mine(n) # {} /\ domains' = domains) \/ Makes(n, Domain(n, "disk", TRUE))
<1>1. /\ At(n, "apply") /\ Did(n, 1) /\ On(n) \in reach /\ RestStays
      /\ domains' = IF Mine(n) = {} THEN domains \cup {Domain(n, "disk", TRUE)} ELSE domains
  BY DEF Apply, Command, run, net, files, env, KeptStay, FilesStay, AddressesStay, MarksStay, RestStays
<1>2. PICK t : Command1(n, "apply", t)
  BY <1>1, CallDone DEF Command1
<1>3. (Mine(n) # {} /\ domains' = domains) \/ Makes(n, Domain(n, "disk", TRUE))
  BY <1>1 DEF Makes
<1> QED
  BY <1>2, <1>3

\* What the look at a machine asked to reboot leads to: done, or a hard reset.
LEMMA RebootedDoes ==
    ASSUME Sound, NEW n \in Nodes, Rebooted(n)
    PROVE  \E op \in {"rebooted?", "reset"} : \E t : /\ At(n, "rebooted?") /\ On(n) \in reach /\ domains' = domains /\ RestStays
                                                     /\ Goes(n, op, t, On(n))
<1>1. /\ At(n, "rebooted?") /\ On(n) \in reach /\ domains' = domains /\ RestStays
      /\ Did(n, Upto(n, "reset")) \/ Did(n, 1)
  BY DEF Rebooted, Quietly, Command, run, net, files, env, KeptStay, FilesStay, AddressesStay, MarksStay, RestStays
<1>2. Must(lab, "rebooted?") = {"reset"}
  BY Musts
<1>3. "reset" \in Left(work[n].todo) /\ Busy(n)
  BY <1>1, <1>2, FollowsCall
<1>4. CASE Did(n, 1)
  BY <1>1, <1>4, CallDone DEF Call
<1>5. CASE Did(n, Upto(n, "reset"))
  BY <1>1, <1>3, <1>5, DidUpto
<1> QED
  BY <1>1, <1>4, <1>5

\* After the wait for its end the guest is started again, with or without the reset.
LEMMA StoppedDoes ==
    ASSUME Sound, NEW n \in Nodes, Stopped(n)
    PROVE  \E op \in {"start-again", "reset"} : \E t : /\ At(n, "stopped?") /\ On(n) \in reach /\ domains' = domains /\ RestStays
                                                       /\ Goes(n, op, t, On(n))
<1> DEFINE s == work[n].todo
           k == Upto(n, "reset")
           r == SubSeq(s, k + 1, Len(s))
           t == <<"start-again">> \o r
<1>1. /\ At(n, "stopped?") /\ On(n) \in reach /\ domains' = domains /\ RestStays
      /\ Did(n, Upto(n, "start-again")) \/ work' = [work EXCEPT ![n].todo = <<"start-again">> \o SubSeq(@, k + 1, Len(@))]
  BY DEF Stopped, Command, net, run, files, env, KeptStay, FilesStay, AddressesStay, MarksStay, RestStays
<1>2. Must(lab, "stopped?") = {"start-again", "reset"}
  BY Musts
<1>3. "reset" \in Left(s) /\ "start-again" \in Left(s) /\ Busy(n)
  BY <1>1, <1>2, FollowsCall
<1>4. CASE Did(n, Upto(n, "start-again"))
  BY <1>1, <1>3, <1>4, DidUpto
<1>5. CASE work' = [work EXCEPT ![n].todo = <<"start-again">> \o SubSeq(@, k + 1, Len(@))]
  <2>1. k \in 1..Len(s) /\ s[k] = "reset" /\ Shape(lab, s) /\ work[n].end = "none" /\ WorkOK
    BY <1>3, UptoIsCall DEF Sound, WorkersGood, Shapes, Turns
  <2>2. Rest(lab, s, k, r)
    BY <2>1 DEF Rest
  <2>3. work' = [work EXCEPT ![n].todo = t, ![n].end = "none"]
    BY <1>5, <2>1 DEF WorkOK
  <2> HIDE DEF r, k, s
  <2>4. Shape(lab, r) /\ Left(r) \subseteq Left(s) /\ \A o \in Left(r) : Before("reset", o)
    BY <2>1, <2>2, After
  <2>5. Chunk(lab, <<"start-again">>, {}) /\ Left(<<"start-again">>) = {"start-again"}
    <3>1. Must(lab, "start-again") = {} /\ "start-again" \in AllKinds
      BY Musts DEF AllKinds, Rebooting
    <3> QED
      BY <3>1, OneCall
  <2>6. \A o \in Left(r) : Before("start-again", o)
    BY <2>4, Ranks DEF Before
  <2>7. Joined(lab, <<"start-again">>, {}, r, {}, {})
    BY <2>4, <2>5, <2>6 DEF Joined, Chunk, Shape
  <2>8. Chunk(lab, t, {}) /\ Left(t) = {"start-again"} \cup Left(r)
    BY <2>5, <2>7, ChunkConcat
  <2> HIDE DEF t
  <2>9. Left(t) \subseteq Left(s) /\ Shape(lab, t)
    BY <1>3, <2>1, <2>4, <2>8 DEF Chunk, Shape
  <2>10. \A o \in Left(t) : Before("reset", o)
    BY <2>4, <2>8, Ranks DEF Before
  <2>11. t # <<>>
    BY <2>8, <2>9, BusyLeft
  <2>12. Becomes(n, t, On(n), "none")
    BY <2>1, <2>3, <2>9, RecordOf DEF Shape
  <2>13. Must(lab, "reset") = {}
    BY Musts
  <2>14. Goes(n, "reset", t, On(n))
    BY <1>3, <2>9, <2>10, <2>11, <2>12, <2>13 DEF Goes, s
  <2> QED
    BY <1>1, <2>14
<1> QED
  BY <1>1, <1>4, <1>5

\* A call that fails ends the worker, or is left out.
LEMMA CallFailsDoes ==
    ASSUME Sound, NEW n \in Nodes, CallFails(n)
    PROVE  /\ domains' = domains /\ KeptStay /\ FilesStay /\ AddressesStay /\ upset' = upset \cup {n}
           /\ missed' = missed \cup {k \in {n} : At(n, "destroy") \/ At(n, "undefine") \/ At(n, "delete")}
           /\ faults' = faults \/ (faults < MaxFaults /\ faults' = faults + 1)
           /\ \/ (\E op \in Fatal : At(n, op)) /\ Becomes(n, <<>>, NoHost, "failed")
              \/ \E op \in Ignored : \E t : Call(n, op, t)
<1>1. /\ domains' = domains /\ KeptStay /\ FilesStay /\ AddressesStay /\ upset' = upset \cup {n}
      /\ missed' = missed \cup {k \in {n} : At(n, "destroy") \/ At(n, "undefine") \/ At(n, "delete")}
      /\ faults' = faults \/ (faults < MaxFaults /\ faults' = faults + 1)
  BY DEF CallFails, run, net, files, KeptStay, FilesStay, AddressesStay
<1>2. Dies(n) => Becomes(n, <<>>, NoHost, "failed")
  BY DeadRecord DEF Sound, WorkersGood
<1>3. (\E op \in Fatal : At(n, op) /\ Dies(n)) \/ \E op \in Ignored : At(n, op) /\ Did(n, 1)
  BY DEF CallFails
<1>4. CASE \E op \in Ignored : At(n, op) /\ Did(n, 1)
  BY <1>1, <1>4, CallDone
<1> QED
  BY <1>1, <1>2, <1>3, <1>4

\* What the time limit of the stop of a Harvester machine does.
LEMMA StopTimesOutDoes ==
    ASSUME Sound, NEW n \in Nodes, StopTimesOut(n)
    PROVE  /\ At(n, "stop") /\ domains' = domains /\ FilesStay /\ AddressesStay /\ upset' = upset /\ missed' = missed \cup {n}
           /\ lab' = lab /\ starts' = starts /\ reach' = reach /\ past' = past /\ queue' = (IF lab.parallel THEN queue ELSE {})
           /\ faults < MaxFaults /\ faults' = faults + 1 /\ Becomes(n, <<>>, NoHost, "failed")
<1>1. Dies(n) => Becomes(n, <<>>, NoHost, "failed")
  BY DeadRecord DEF Sound, WorkersGood
<1> QED
  BY <1>1 DEF StopTimesOut, net, files, FilesStay, AddressesStay

\* A worker begins.
LEMMA TakeDoes ==
    ASSUME Sound, NEW n \in Nodes, Take(n)
    PROVE  /\ lab' = lab /\ starts' = starts /\ reach' = reach /\ past' = past /\ domains' = domains
           /\ FilesStay /\ AddressesStay /\ MarksStay /\ n \in queue /\ queue' = queue \ {n}
           /\ lab.parallel \/ \A k \in Nodes : ~Busy(k)
           /\ Becomes(n, Program(lab), IF lab.kind = "libvirt" THEN NoHost ELSE Cluster, "none")
           /\ Shape(lab, Program(lab)) /\ Program(lab) # <<>> /\ Left(Program(lab)) = Calls(lab)
<1>1. Shape(lab, Program(lab)) /\ Program(lab) # <<>> /\ Left(Program(lab)) = Calls(lab)
  BY LabIsLab, ProgramShape DEF Sound, StateOK
<1>2. Program(lab) \in Seq(AllKinds) /\ WorkOK
  BY <1>1 DEF Shape, Sound, WorkersGood
<1>3. Cluster \in Hosts
  BY KvmVmsAssumption DEF Cluster
<1>4. Becomes(n, Program(lab), IF lab.kind = "libvirt" THEN NoHost ELSE Cluster, "none")
  <2> DEFINE h == IF lab.kind = "libvirt" THEN NoHost ELSE Cluster
  <2>1. h \in Hosts \cup {NoHost} /\ "none" \in {"none", "ok", "failed"}
    BY <1>3
  <2>2. work' = [work EXCEPT ![n] = [todo |-> Program(lab), host |-> h, end |-> "none"]]
    BY DEF Take
  <2> HIDE DEF h
  <2>3. Becomes(n, Program(lab), h, "none")
    BY <1>2, <2>1, <2>2, RecordEnd
  <2> QED
    BY <2>3 DEF h
<1> QED
  BY <1>1, <1>4 DEF Take, net, files, env, FilesStay, AddressesStay, MarksStay

\* A run begins.
LEMMA StartsDo ==
    ASSUME Sound, NEW n \in Nodes, StartVm(n)
    PROVE  /\ lab' = lab /\ reach' = reach /\ past' = past /\ domains' = domains /\ FilesStay /\ MarksStay /\ dns' = dns
           /\ work' = work /\ starts > 0 /\ starts' = starts - 1
           /\ lab.caller = "setup_vm" /\ ~Busy(n) /\ n \notin queue /\ (lab.parallel \/ Quiet)
           /\ queue' = queue \cup {n} /\ def' = [def EXCEPT ![n] = 0]
BY DEF StartVm, files, env, FilesStay, MarksStay, Quiet

\* What another start of setup_lab.py does: the addresses, then the queue.
LEMMA StartLabDoes ==
    ASSUME Sound, StartLab
    PROVE  /\ lab' = lab /\ reach' = reach /\ past' = past /\ domains' = domains /\ FilesStay /\ MarksStay /\ dns' = dns
           /\ work' = work /\ starts > 0 /\ starts' = starts - 1 /\ lab.caller = "setup_lab" /\ Quiet
           /\ \/ def' = def /\ queue' = queue
              \/ \E seen \in [Nodes -> Seen] :
                   def' = AllocateAll(seen) /\ queue' = Nodes /\ \A n \in Nodes : AllocateAll(seen)[n] # 0
BY DEF StartLab, files, env, FilesStay, MarksStay

\* Hosts and guests.
LEMMA HostDoes ==
    ASSUME Sound, NEW h \in Hosts, HostDown(h) \/ HostUp(h)
    PROVE  /\ lab' = lab /\ starts' = starts /\ queue' = queue /\ past' = past /\ work' = work /\ domains' = domains
           /\ FilesStay /\ AddressesStay /\ missed' = missed /\ reach' \subseteq Hosts
           /\ faults' = faults \/ (faults < MaxFaults /\ faults' = faults + 1)
           /\ upset' = upset \/ upset' = upset \cup {n \in Nodes : Has(h, n) # {} \/ On(n) = h}
BY DEF HostDown, HostUp, run, net, files, FilesStay, AddressesStay, Sound, StateOK

\* What a guest does to its machine: boot, hang, or follow a request.
LEMMA GuestDoes ==
    ASSUME Sound, NEW d \in domains, Boots(d) \/ Hangs(d) \/ Acts(d)
    PROVE  /\ lab' = lab /\ starts' = starts /\ queue' = queue /\ reach' = reach /\ work' = work
           /\ FilesStay /\ AddressesStay /\ missed' = missed
           /\ faults' = faults \/ (faults < MaxFaults /\ faults' = faults + 1)
           /\ upset' = upset \/ (upset' = upset \cup {d.name})
           /\ \E e : /\ Swaps(d, e) /\ Same(d, e) /\ e.boot = d.boot /\ e.pend \subseteq d.pend
                     /\ e.on = d.on \/ (d.on /\ e.on = FALSE /\ "shutdown" \in d.pend)
                     /\ \/ e.up \in {FALSE, d.up} /\ past' = past
                        \/ d.addr # 0 /\ past' = past \cup {d.addr}
<1>0. d \in MachineType
  BY DEF Sound, MachinesGood
<1>1. CASE Boots(d)
  <2> DEFINE e == [d EXCEPT !.up = TRUE]
  <2>1. Same(d, e) /\ e.on = d.on /\ e.up = TRUE /\ e.pend = d.pend /\ e.boot = d.boot
    BY <1>0, UpOf
  <2>2. Swaps(d, e) /\ d.addr # 0 /\ past' = past \cup {d.addr} /\ faults' = faults /\ upset' = upset
    BY <1>1 DEF Boots, Guest, Change, Swaps
  <2> QED
    BY <1>1, <2>1, <2>2 DEF Boots, Guest, run, net, files, FilesStay, AddressesStay
<1>2. CASE Hangs(d)
  <2> DEFINE e == [d EXCEPT !.up = FALSE]
  <2>1. Same(d, e) /\ e.on = d.on /\ e.up = FALSE /\ e.pend = d.pend /\ e.boot = d.boot
    BY <1>0, UpOf
  <2>2. Swaps(d, e) /\ past' = past /\ faults < MaxFaults /\ faults' = faults + 1 /\ upset' = upset \cup {d.name}
    BY <1>2 DEF Hangs, Guest, Change, Swaps
  <2> QED
    BY <1>2, <2>1, <2>2 DEF Hangs, Guest, run, net, files, FilesStay, AddressesStay
<1>3. CASE d.on /\ "reboot" \in d.pend /\ Guest(d, [d EXCEPT !.up = FALSE, !.pend = @ \ {"reboot"}, !.ev = Heard(d)])
           /\ past' = past /\ faults' = faults /\ upset' = upset
  <2>0. PICK b \in BOOLEAN : b = Heard(d)
    BY DEF Heard, At, Busy
  <2> DEFINE e == [d EXCEPT !.up = FALSE, !.pend = d.pend \ {"reboot"}, !.ev = b]
  <2>1. Same(d, e) /\ e.on = d.on /\ e.up = FALSE /\ e.pend \subseteq d.pend /\ e.boot = d.boot
    BY <1>0 DEF MachineType, Same
  <2>2. Swaps(d, e)
    BY <1>3, <2>0 DEF Guest, Change, Swaps
  <2> QED
    BY <1>3, <2>1, <2>2 DEF Guest, run, net, files, FilesStay, AddressesStay
<1>4. CASE d.on /\ "shutdown" \in d.pend /\ Guest(d, Off(d)) /\ past' = past /\ faults' = faults /\ upset' = upset
  <2> DEFINE e == Off(d)
  <2>1. Same(d, e) /\ e.on = FALSE /\ e.up = FALSE /\ e.pend = {} /\ e.boot = d.boot
    BY <1>0, OffOf
  <2>2. Swaps(d, e)
    BY <1>4 DEF Guest, Change, Swaps
  <2> QED
    BY <1>4, <2>1, <2>2 DEF Guest, run, net, files, FilesStay, AddressesStay
<1> QED
  BY <1>1, <1>2, <1>3, <1>4 DEF Acts

(***************************************************************************)
(* What allocate() returns                                                 *)
(***************************************************************************)
LEMMA CandidateIn == ASSUME NEW n \in Nodes, NEW i \in 1..Size PROVE Candidate(n, i) \in 1..Size
<1>1. Size \in Nat /\ Size > 0 /\ First[n] \in 1..Size
  BY KvmVmsAssumption
<1> DEFINE a == First[n] + i - 2
<1>2. a \in Int
  BY <1>1
<1> HIDE DEF a
<1>3. a % Size \in 0..(Size - 1)
  BY <1>1, <1>2
<1>4. (a % Size) + 1 \in 1..Size
  BY <1>1, <1>3
<1> QED
  BY <1>4 DEF Candidate, a

\* The address of the zone, or none, or one that nobody is known to have.
LEMMA AllocateGives ==
    ASSUME NEW n \in Nodes, NEW d, NEW seen
    PROVE  /\ dns[n] # 0 => Allocate(n, d, seen) = dns[n]
           /\ dns[n] = 0 => \/ Allocate(n, d, seen) = 0
                            \/ /\ Allocate(n, d, seen) \in 1..Size /\ Allocate(n, d, seen) \notin seen
                               /\ \A k \in Nodes \ {n} : Allocate(n, d, seen) # d[k]
                               /\ \A k \in Nodes : Allocate(n, d, seen) # dns[k]
                               /\ \A x \in Ups : Allocate(n, d, seen) # x.addr
<1> DEFINE taken == seen \cup {d[k] : k \in Nodes \ {n}} \cup {dns[k] : k \in Nodes} \cup {x.addr : x \in Ups}
           free == {i \in 1..Size : Candidate(n, i) \notin taken}
           i0 == CHOOSE i \in free : \A j \in free : i <= j
<1>1. CASE dns[n] # 0
  BY <1>1 DEF Allocate
<1>2. CASE dns[n] = 0 /\ free = {}
  BY <1>2 DEF Allocate
<1>3. CASE dns[n] = 0 /\ free # {}
  <2>1. Allocate(n, d, seen) = Candidate(n, i0)
    BY <1>3 DEF Allocate
  <2>2. free \subseteq Nat
    BY KvmVmsAssumption
  <2>3. \E i \in free : \A j \in free : i <= j
    BY <1>3, <2>2, Least
  <2>4. i0 \in free
    BY <2>3
  <2>5. Candidate(n, i0) \in 1..Size /\ Candidate(n, i0) \notin taken
    BY <2>4, CandidateIn
  <2> HIDE DEF i0
  <2> QED
    BY <1>3, <2>1, <2>5
<1> QED
  BY <1>1, <1>2, <1>3

\* allocate_ip() returns an address of the subnet or fails.
LEMMA AllocateType ==
    ASSUME dns \in [Nodes -> 0..Size], NEW n \in Nodes, NEW d, NEW seen
    PROVE  Allocate(n, d, seen) \in 0..Size
<1>1. 0 \in 0..Size /\ 1..Size \subseteq 0..Size
  BY KvmVmsAssumption
<1> QED
  BY <1>1, AllocateGives

\* phase_allocate_ips() in its steps: the function it is defined by exists.
Body(seen, f, i) == IF i = 0 THEN [n \in Nodes |-> 0]
                    ELSE [f[i - 1] EXCEPT ![NodeSeq[i]] = Allocate(NodeSeq[i], f[i - 1], seen[NodeSeq[i]])]
Upon(seen, f, k) == f = [i \in 0..k |-> Body(seen, f, i)]

\* The table of no node.
LEMMA UponStarts == ASSUME NEW seen PROVE \E f : Upon(seen, f, 0)
<1> DEFINE f == [i \in 0..0 |-> [n \in Nodes |-> 0]]
<1>1. \A i \in 0..0 : i = 0
  OBVIOUS
<1>2. \A i \in 0..0 : Body(seen, f, i) = [n \in Nodes |-> 0]
  BY <1>1 DEF Body
<1>3. f = [i \in 0..0 |-> Body(seen, f, i)]
  BY <1>2
<1> QED
  BY <1>3 DEF Upon

\* The table of k nodes gives that of k + 1.
LEMMA UponGrows ==
    ASSUME NEW seen, NEW k \in Nat, NEW f, Upon(seen, f, k)
    PROVE  \E g : Upon(seen, g, k + 1)
<1> DEFINE last == [f[k] EXCEPT ![NodeSeq[k + 1]] = Allocate(NodeSeq[k + 1], f[k], seen[NodeSeq[k + 1]])]
           g == [i \in 0..(k + 1) |-> IF i = k + 1 THEN last ELSE f[i]]
<1>1. \A i \in 0..k : f[i] = Body(seen, f, i) /\ i \in 0..(k + 1) /\ i # k + 1
  BY DEF Upon
<1>2. \A i \in 0..(k + 1) : i \in 0..k \/ i = k + 1
  OBVIOUS
<1> HIDE DEF last
<1>3. (\A i \in 0..k : g[i] = f[i]) /\ g[k + 1] = last
  BY <1>1
<1>4. ASSUME NEW i \in 0..k PROVE Body(seen, g, i) = f[i]
  <2>1. CASE i = 0
    BY <1>1, <2>1 DEF Body
  <2>2. CASE i # 0
    <3>1. i - 1 \in 0..k
      BY <2>2
    <3>2. g[i - 1] = f[i - 1]
      BY <1>3, <3>1
    <3> HIDE DEF g
    <3> QED
      BY <1>1, <2>2, <3>2 DEF Body
  <2> QED
    BY <2>1, <2>2
<1>5. Body(seen, g, k + 1) = last
  <2>1. k + 1 # 0 /\ (k + 1) - 1 = k /\ k \in 0..k
    OBVIOUS
  <2>2. g[k] = f[k]
    BY <1>3, <2>1
  <2> HIDE DEF g
  <2> QED
    BY <2>1, <2>2 DEF Body, last
<1>6. \A i \in 0..(k + 1) : (IF i = k + 1 THEN last ELSE f[i]) = Body(seen, g, i)
  <2> TAKE i \in 0..(k + 1)
  <2>1. CASE i = k + 1
    BY <1>5, <2>1
  <2>2. CASE i # k + 1
    BY <1>2, <1>4, <2>2
  <2> QED
    BY <2>1, <2>2
<1>7. g = [i \in 0..(k + 1) |-> Body(seen, g, i)]
  BY <1>6
<1> QED
  BY <1>7 DEF Upon

\* No number is the first that a set of numbers misses.
LEMMA Every ==
    ASSUME NEW S, 0 \in S, \A k \in Nat : k \in S => k + 1 \in S
    PROVE  Nat \subseteq S
<1> SUFFICES ASSUME Nat \ S # {} PROVE FALSE
  OBVIOUS
<1>1. PICK m \in Nat \ S : \A k \in Nat \ S : m <= k
  BY Least
<1>2. m - 1 \in Nat /\ ~(m <= m - 1)
  BY <1>1
<1>3. m - 1 \in S
  BY <1>1, <1>2
<1>4. (m - 1) + 1 = m
  BY <1>1
<1> QED
  BY <1>1, <1>2, <1>3, <1>4

\* The table that the recursive definition describes exists, for any number of nodes.
LEMMA UponExists == ASSUME NEW seen, NEW k \in Nat PROVE \E f : Upon(seen, f, k)
<1> DEFINE S == {i \in Nat : \E f : Upon(seen, f, i)}
<1>1. 0 \in S
  BY UponStarts
<1>2. \A i \in Nat : i \in S => i + 1 \in S
  BY UponGrows
<1> HIDE DEF S
<1>3. k \in S
  BY <1>1, <1>2, Every
<1> QED
  BY <1>3 DEF S

\* What holds before the first allocation and is kept by each, holds after the last.
LEMMA AllocateAllKeeps ==
    ASSUME NEW seen, NEW S, [n \in Nodes |-> 0] \in S,
           \A d \in S, n \in Nodes : [d EXCEPT ![n] = Allocate(n, d, seen[n])] \in S
    PROVE  AllocateAll(seen) \in S
<1> DEFINE N == Len(NodeSeq)
           g == CHOOSE f : Upon(seen, f, N)
<1>1. N \in Nat /\ \A i \in 1..N : NodeSeq[i] \in Nodes
  BY KvmVmsAssumption, LenProperties, ElementOfSeq
<1>2. AllocateAll(seen) = g[N]
  BY DEF AllocateAll, Upon, Body
<1>3. Upon(seen, g, N)
  BY <1>1, UponExists
<1> HIDE DEF g, N
<1>4. \A i \in 0..N : g[i] = Body(seen, g, i)
  BY <1>3 DEF Upon
<1> DEFINE P == {i \in Nat : i <= N => g[i] \in S}
<1>5. 0 \in P
  <2>1. 0 \in 0..N
    BY <1>1
  <2>2. g[0] = [n \in Nodes |-> 0]
    BY <1>4, <2>1 DEF Body
  <2> QED
    BY <2>2
<1>6. ASSUME NEW i \in Nat, i \in P PROVE i + 1 \in P
  <2> SUFFICES ASSUME i + 1 <= N PROVE g[i + 1] \in S
    OBVIOUS
  <2>1. i + 1 \in 0..N /\ i + 1 # 0 /\ (i + 1) - 1 = i /\ i + 1 \in 1..N /\ i <= N
    BY <1>1
  <2>2. NodeSeq[i + 1] \in Nodes /\ g[i] \in S
    BY <1>1, <1>6, <2>1
  <2>3. g[i + 1] = [g[i] EXCEPT ![NodeSeq[i + 1]] = Allocate(NodeSeq[i + 1], g[i], seen[NodeSeq[i + 1]])]
    BY <1>4, <2>1 DEF Body
  <2> QED
    BY <2>2, <2>3
<1> HIDE DEF P
<1>7. N \in P
  BY <1>1, <1>5, <1>6, Every
<1> QED
  BY <1>1, <1>2, <1>7 DEF P

\* The addresses of a lab are addresses of the subnet.
LEMMA AllocateAllType ==
    ASSUME dns \in [Nodes -> 0..Size], NEW seen
    PROVE  AllocateAll(seen) \in [Nodes -> 0..Size]
<1> DEFINE S == [Nodes -> 0..Size]
<1>1. [n \in Nodes |-> 0] \in S
  BY KvmVmsAssumption
<1>2. ASSUME NEW d \in S, NEW n \in Nodes PROVE [d EXCEPT ![n] = Allocate(n, d, seen[n])] \in S
  BY AllocateType
<1> HIDE DEF S
<1>3. AllocateAll(seen) \in S
  BY <1>1, <1>2, AllocateAllKeeps
<1> QED
  BY <1>3 DEF S

(***************************************************************************)
(* The machines and the workers are sound                                  *)
(***************************************************************************)
\* A worker that goes on, ends or begins leaves the workers in order.
LEMMA WorkersGo ==
    ASSUME Sound, NEW n \in Nodes, NEW t, NEW h, NEW e, Becomes(n, t, h, e), Shape(lab, t), lab' = lab, queue' \subseteq queue,
           t # <<>> => e = "none" /\ n \notin queue' /\ (lab.parallel \/ Busy(n) \/ \A k \in Nodes : ~Busy(k))
    PROVE  WorkersGood'
<1>1. \A k \in Nodes : (k # n => work'[k] = work[k]) /\ work'[n].todo = t /\ work'[n].end = e
  BY DEF Becomes
<1>2. Shapes'
  BY <1>1 DEF Shapes, Sound, WorkersGood
<1>3. \A k \in Nodes : Busy(k)' <=> IF k = n THEN t # <<>> ELSE Busy(k)
  BY <1>1 DEF Busy
<1>4. Turns'
  BY <1>1, <1>3 DEF Turns, Sound, WorkersGood
<1> QED
  BY <1>2, <1>4 DEF WorkersGood, Becomes

\* The workers are well formed after a step that leaves them alone.
LEMMA WorkersStay ==
    ASSUME Sound, work' = work, lab' = lab, \A k \in Nodes : Busy(k) => k \notin queue'
    PROVE  WorkersGood'
<1>1. WorkOK' /\ Shapes'
  BY DEF Sound, WorkersGood, WorkOK, Shapes
<1>2. \A k \in Nodes : Busy(k)' <=> Busy(k)
  BY DEF Busy
<1>3. Turns'
  BY <1>2 DEF Turns, Sound, WorkersGood
<1> QED
  BY <1>1, <1>3 DEF WorkersGood

\* The workers are well formed after one of them goes on.
LEMMA GoesSound ==
    ASSUME Sound, NEW n \in Nodes, NEW op, NEW t, NEW h, Busy(n), Goes(n, op, t, h), lab' = lab, queue' = queue
    PROVE  WorkersGood'
<1>1. n \notin queue
  BY DEF Sound, WorkersGood, Turns
<1>2. Becomes(n, t, h, IF t = <<>> THEN "ok" ELSE "none") /\ Shape(lab, t)
  BY DEF Goes
<1> QED
  BY <1>1, <1>2, WorkersGo

\* The workers are well formed after one of them made a call.
LEMMA CallSound ==
    ASSUME Sound, NEW n \in Nodes, NEW op, NEW t, Call(n, op, t), lab' = lab, queue' = queue
    PROVE  WorkersGood'
BY GoesSound DEF Call, At

\* The workers are well formed after one of them ends.
LEMMA EndSound ==
    ASSUME Sound, NEW n \in Nodes, NEW h, NEW e, Becomes(n, <<>>, h, e), lab' = lab, queue' \subseteq queue
    PROVE  WorkersGood'
BY NoCalls, WorkersGo

\* Machines that are changed, removed or made.
LEMMA SwapSound ==
    ASSUME Sound, NEW d, NEW e, Swaps(d, e), Same(d, e)
    PROVE  MachinesGood'
<1>1. d \in domains /\ domains' = (domains \ {d}) \cup {e} /\ e \in MachineType /\ e.host = d.host /\ e.name = d.name
  BY DEF Swaps, Same
<1>2. IsFiniteSet(domains')
  <2>1. IsFiniteSet(domains)
    BY DEF Sound, MachinesGood
  <2>2. IsFiniteSet(domains \ {d})
    BY <2>1, FS_RemoveElement
  <2> QED
    BY <1>1, <2>2, FS_AddElement
<1>3. OnePerHost'
  BY <1>1 DEF OnePerHost, Sound, MachinesGood
<1> QED
  BY <1>1, <1>2, <1>3 DEF Sound, MachinesGood

\* The registries are well formed after a machine is removed.
LEMMA LessSound == ASSUME Sound, domains' \subseteq domains PROVE MachinesGood'
<1>1. IsFiniteSet(domains')
  BY FS_Subset DEF Sound, MachinesGood
<1> QED
  BY <1>1 DEF Sound, MachinesGood, OnePerHost

\* The registries are well formed after a machine is made: its host had none of that name.
LEMMA MakesSound ==
    ASSUME Sound, NEW n \in Nodes, On(n) \in Hosts, NEW e, Makes(n, e)
    PROVE  MachinesGood' /\ e \in MachineType /\ e.host = On(n) /\ e.name = n
<1>1. e \in MachineType /\ e.host = On(n) /\ e.name = n
  BY NewMachine
<1>2. IsFiniteSet(domains')
  <2>1. IsFiniteSet(domains)
    BY DEF Sound, MachinesGood
  <2> QED
    BY <2>1, FS_AddElement DEF Makes
<1>3. \A d \in domains : ~(d.host = e.host /\ d.name = e.name)
  BY <1>1 DEF Makes, Mine, Has
<1>4. OnePerHost'
  BY <1>1, <1>3 DEF OnePerHost, Sound, MachinesGood, Makes
<1> QED
  BY <1>1, <1>2, <1>4 DEF Sound, MachinesGood, Makes

\* The variables are typed after a step that leaves the marks and the files alone.
LEMMA RestSound == ASSUME Sound, RestStays PROVE StateOK'
BY DEF Sound, StateOK, RestStays, KeptStay, FilesStay, AddressesStay, MarksStay

\* The variables are typed after a step that only counts a fault or leaves a mark.
LEMMA MarksSound ==
    ASSUME Sound, KeptStay, FilesStay, AddressesStay, missed' \subseteq Nodes, upset' \subseteq Nodes,
           faults' = faults \/ (faults < MaxFaults /\ faults' = faults + 1)
    PROVE  StateOK'
<1>1. faults' \in 0..MaxFaults
  BY KvmVmsAssumption DEF Sound, StateOK
<1> QED
  BY <1>1 DEF Sound, StateOK, KeptStay, FilesStay, AddressesStay

\* The calls that change files.
LEMMA FilesSound ==
    ASSUME Sound, NEW n \in Nodes, CopyImage(n) \/ Customize(n) \/ Stage(n) \/ Seed(n)
    PROVE  Sound'
<1>1. ASSUME KeptStay, AddressesStay, MarksStay, disks' \in [Hosts \X Nodes -> Nodes \cup {"none", "image"}],
             tmp' \in [Hosts -> Nodes \cup {"nobody"}], isos' \in [Hosts \X Nodes -> Nodes \cup {"nobody"}]
      PROVE  StateOK'
  BY <1>1 DEF Sound, StateOK, KeptStay, AddressesStay, MarksStay
<1>2. ASSUME NEW op, NEW t, Command2(n, op, t), domains' = domains
      PROVE  WorkersGood' /\ MachinesGood'
  BY <1>2, CallSound, LessSound DEF Command2, KeptStay
<1>3. /\ disks \in [Hosts \X Nodes -> Nodes \cup {"none", "image"}]
      /\ tmp \in [Hosts -> Nodes \cup {"nobody"}] /\ isos \in [Hosts \X Nodes -> Nodes \cup {"nobody"}]
      /\ reach \subseteq Hosts
  BY DEF Sound, StateOK
<1>4. CASE CopyImage(n)
  <2>1. PICK t : /\ Command2(n, "copy", t) /\ domains' = domains /\ tmp' = tmp /\ isos' = isos
                 /\ disks' = [disks EXCEPT ![<<On(n), n>>] = "image"]
    BY <1>4, CopyImageDoes
  <2>2. disks' \in [Hosts \X Nodes -> Nodes \cup {"none", "image"}]
    BY <1>3, <2>1
  <2> QED
    BY <1>1, <1>2, <1>3, <2>1, <2>2 DEF Sound, Command2
<1>5. CASE Customize(n)
  <2>1. PICK t : /\ Command2(n, "customize", t) /\ domains' = domains /\ tmp' = tmp /\ isos' = isos
                 /\ disks' = [disks EXCEPT ![<<On(n), n>>] = IF @ = "none" THEN @ ELSE n]
    BY <1>5, CustomizeDoes
  <2>2. disks' \in [Hosts \X Nodes -> Nodes \cup {"none", "image"}]
    BY <1>3, <2>1
  <2> QED
    BY <1>1, <1>2, <1>3, <2>1, <2>2 DEF Sound, Command2
<1>6. CASE Stage(n)
  <2>1. PICK t : /\ Command2(n, "stage", t) /\ domains' = domains /\ disks' = disks /\ isos' = isos
                 /\ tmp' = [tmp EXCEPT ![On(n)] = n]
    BY <1>6, StageDoes
  <2>2. tmp' \in [Hosts -> Nodes \cup {"nobody"}]
    BY <1>3, <2>1
  <2> QED
    BY <1>1, <1>2, <1>3, <2>1, <2>2 DEF Sound, Command2
<1>7. CASE Seed(n)
  <2>1. PICK t : /\ Command2(n, "seed", t) /\ domains' = domains /\ disks' = disks /\ tmp' = tmp
                 /\ isos' = [isos EXCEPT ![<<On(n), n>>] = tmp[On(n)]]
    BY <1>7, SeedDoes
  <2>2. tmp[On(n)] \in Nodes \cup {"nobody"}
    BY <1>3, <2>1 DEF Command2
  <2>3. isos' \in [Hosts \X Nodes -> Nodes \cup {"nobody"}]
    BY <1>3, <2>1, <2>2
  <2> QED
    BY <1>1, <1>2, <1>3, <2>1, <2>3 DEF Sound, Command2
<1> QED
  BY <1>4, <1>5, <1>6, <1>7

\* The calls that only change a machine, or none.
LEMMA TouchSound ==
    ASSUME Sound, NEW n \in Nodes,
           AnswerFile(n) \/ PushFiles(n) \/ Destroy(n) \/ StartDomain(n) \/ EditBoot(n) \/ AskReboot(n) \/ Listen(n) \/ Reset(n)
           \/ Delete(n)
    PROVE  Sound'
<1>1. ASSUME NEW op, NEW t, Call(n, op, t), RestStays
      PROVE  WorkersGood' /\ StateOK'
  BY <1>1, CallSound, RestSound DEF RestStays, KeptStay
<1>2. ASSUME NEW op, NEW t, Command1(n, op, t)
      PROVE  WorkersGood' /\ StateOK'
  BY <1>1, <1>2 DEF Command1
<1>3. CASE AnswerFile(n) \/ PushFiles(n)
  BY <1>1, <1>3, QuietlyDoes, LessSound DEF Sound
<1>4. CASE Destroy(n)
  BY <1>2, <1>4, DestroyDoes, LessSound, SwapSound DEF Sound, Switched
<1>5. CASE StartDomain(n)
  BY <1>2, <1>5, StartDomainDoes, LessSound, SwapSound DEF Sound, Switched
<1>6. CASE EditBoot(n)
  BY <1>2, <1>6, EditBootDoes, LessSound, SwapSound DEF Sound
<1>7. CASE AskReboot(n) \/ Listen(n) \/ Reset(n)
  BY <1>2, <1>7, TouchDoes, LessSound, SwapSound DEF Sound
<1>8. CASE Delete(n)
  BY <1>2, <1>8, DeleteDoes, LessSound DEF Sound
<1> QED
  BY <1>3, <1>4, <1>5, <1>6, <1>7, <1>8

\* The calls that make or remove a machine.
LEMMA MakeSound ==
    ASSUME Sound, NEW n \in Nodes, Undefine(n) \/ Install(n) \/ InstallIso(n) \/ Apply(n)
    PROVE  Sound'
<1>0. reach \subseteq Hosts /\ disks \in [Hosts \X Nodes -> Nodes \cup {"none", "image"}]
  BY DEF Sound, StateOK
<1>1. ASSUME KeptStay, AddressesStay, MarksStay, tmp' = tmp, isos' = isos, disks' \in [Hosts \X Nodes -> Nodes \cup {"none", "image"}]
      PROVE  StateOK'
  BY <1>1 DEF Sound, StateOK, KeptStay, AddressesStay, MarksStay
<1>2. CASE Undefine(n)
  <2>1. PICK t : /\ Command2(n, "undefine", t) /\ tmp' = tmp /\ isos' = isos
                 /\ domains' = domains \ {d \in Mine(n) : ~d.on}
                 /\ disks' = disks \/ disks' = [disks EXCEPT ![<<On(n), n>>] = "none"]
    BY <1>2, UndefineDoes
  <2>2. disks' \in [Hosts \X Nodes -> Nodes \cup {"none", "image"}]
    BY <1>0, <2>1
  <2>3. WorkersGood' /\ MachinesGood'
    BY <2>1, CallSound, LessSound DEF Command2, KeptStay
  <2> QED
    BY <1>1, <2>1, <2>2, <2>3 DEF Sound, Command2
<1>3. CASE Install(n)
  <2>1. StateOK'
    BY <1>3, InstallDoes, RestSound
  <2>2. WorkersGood'
    BY <1>3, InstallDoes, CallSound, EndSound DEF RestStays, KeptStay
  <2>3. MachinesGood'
    BY <1>0, <1>3, InstallDoes, MakesSound, LessSound
  <2> QED
    BY <2>1, <2>2, <2>3 DEF Sound
<1>4. CASE InstallIso(n)
  <2>1. disks' \in [Hosts \X Nodes -> Nodes \cup {"none", "image"}]
    BY <1>0, <1>4, InstallIsoDoes
  <2>2. StateOK'
    BY <1>1, <1>4, <2>1, InstallIsoDoes
  <2>3. WorkersGood'
    BY <1>4, InstallIsoDoes, CallSound, EndSound DEF KeptStay
  <2>4. MachinesGood'
    BY <1>0, <1>4, InstallIsoDoes, MakesSound, LessSound
  <2> QED
    BY <2>2, <2>3, <2>4 DEF Sound
<1>5. CASE Apply(n)
  <2>1. PICK t : Command1(n, "apply", t) /\ ((Mine(n) # {} /\ domains' = domains) \/ Makes(n, Domain(n, "disk", TRUE)))
    BY <1>5, ApplyDoes
  <2>2. StateOK' /\ WorkersGood'
    BY <2>1, RestSound, CallSound DEF Command1, RestStays, KeptStay
  <2>3. MachinesGood'
    BY <1>0, <2>1, MakesSound, LessSound DEF Command1
  <2> QED
    BY <2>2, <2>3 DEF Sound
<1> QED
  BY <1>2, <1>3, <1>4, <1>5

\* The calls that look for the machine's host, its address or its name.
LEMMA FindSound ==
    ASSUME Sound, NEW n \in Nodes,
           Keep(n) \/ Locate(n) \/ Select(n) \/ Online(n) \/ Unregister(n) \/ Register(n) \/ AllocateIp(n)
    PROVE  Sound'
<1>0. dns \in [Nodes -> 0..Size] /\ def \in [Nodes -> 0..Size] /\ missed \subseteq Nodes /\ upset \subseteq Nodes
      /\ faults \in 0..MaxFaults /\ 0 \in 0..Size
  BY KvmVmsAssumption DEF Sound, StateOK
<1>1. CASE Keep(n)
  <2>1. At(n, "keep?") /\ domains' = domains /\ KeptStay /\ FilesStay /\ AddressesStay /\ missed' = missed
        /\ upset' \subseteq upset /\ (faults' = faults \/ (faults < MaxFaults /\ faults' = faults + 1))
    BY <1>1, KeepDoes
  <2>2. StateOK'
    BY <1>0, <2>1, MarksSound
  <2>3. WorkersGood'
    BY <1>1, <2>1, KeepDoes, CallSound, EndSound DEF KeptStay
  <2> QED
    BY <2>1, <2>2, <2>3, LessSound DEF Sound
<1>2. CASE Locate(n)
  <2>0. PICK A \in SUBSET reach : Searched(n, A)
    BY <1>2, LocateDoes
  <2>1. At(n, "locate") /\ domains' = domains /\ KeptStay /\ FilesStay /\ AddressesStay /\ upset' = upset
        /\ missed' \subseteq missed \cup {n} /\ (faults' = faults \/ (faults < MaxFaults /\ faults' = faults + 1))
    BY <1>2, <2>0, LocateDoes DEF Searched
  <2>2. StateOK'
    BY <1>0, <2>1, MarksSound
  <2>3. WorkersGood'
    BY <2>0, <2>1, GoesSound DEF KeptStay, At, Searched
  <2> QED
    BY <2>1, <2>2, <2>3, LessSound DEF Sound
<1>3. CASE Select(n)
  <2>1. At(n, "select") /\ domains' = domains /\ RestStays
    BY <1>3, SelectDoes
  <2>2. WorkersGood'
    BY <1>3, <2>1, SelectDoes, GoesSound, EndSound DEF RestStays, KeptStay, At
  <2> QED
    BY <2>1, <2>2, LessSound, RestSound DEF Sound
<1>4. CASE Online(n)
  <2>1. At(n, "online") /\ domains' = domains /\ RestStays
    BY <1>4, OnlineDoes
  <2>2. WorkersGood'
    BY <1>4, <2>1, OnlineDoes, CallSound, EndSound DEF RestStays, KeptStay
  <2> QED
    BY <2>1, <2>2, LessSound, RestSound DEF Sound
<1>5. ASSUME KeptStay, FilesStay, MarksStay, dns' \in [Nodes -> 0..Size], def' \in [Nodes -> 0..Size]
      PROVE  StateOK'
  BY <1>5 DEF Sound, StateOK, KeptStay, FilesStay, MarksStay
<1>6. CASE Unregister(n)
  <2>1. PICK t : /\ Call(n, "unregister", t)
                 /\ dns' = [dns EXCEPT ![n] = 0] /\ def' = def /\ domains' = domains /\ KeptStay /\ FilesStay /\ MarksStay
    BY <1>6, UnregisterDoes
  <2>2. dns' \in [Nodes -> 0..Size]
    BY <1>0, <2>1
  <2> QED
    BY <1>0, <1>5, <2>1, <2>2, CallSound, LessSound DEF Sound, KeptStay
<1>7. CASE Register(n)
  <2>1. PICK t : /\ Call(n, "register", t)
                 /\ dns' = [dns EXCEPT ![n] = def[n]] /\ def' = def /\ domains' = domains /\ KeptStay /\ FilesStay /\ MarksStay
    BY <1>7, RegisterDoes
  <2>2. dns' \in [Nodes -> 0..Size]
    BY <1>0, <2>1
  <2> QED
    BY <1>0, <1>5, <2>1, <2>2, CallSound, LessSound DEF Sound, KeptStay
<1>8. CASE AllocateIp(n)
  <2>1. At(n, "allocate") /\ dns' = dns /\ domains' = domains /\ KeptStay /\ FilesStay /\ MarksStay
    BY <1>8, AllocateIpDoes
  <2>2. def' \in [Nodes -> 0..Size]
    BY <1>0, <1>8, AllocateIpDoes, AllocateType
  <2>3. WorkersGood'
    BY <1>8, <2>1, AllocateIpDoes, CallSound, EndSound DEF KeptStay
  <2> QED
    BY <1>0, <1>5, <2>1, <2>2, <2>3, LessSound DEF Sound
<1> QED
  BY <1>1, <1>2, <1>3, <1>4, <1>6, <1>7, <1>8

\* Reboots, and what fails.
LEMMA RebootSound ==
    ASSUME Sound, NEW n \in Nodes,
           Probe(n) \/ AskShutdown(n) \/ Rebooted(n) \/ Stopped(n) \/ CallFails(n) \/ StopTimesOut(n)
    PROVE  Sound'
<1>0. missed \subseteq Nodes /\ upset \subseteq Nodes /\ faults \in 0..MaxFaults
  BY DEF Sound, StateOK
<1>1. CASE Probe(n)
  <2>1. At(n, "probe") /\ RestStays
    BY <1>1, ProbeDoes
  <2>2. WorkersGood'
    BY <1>1, <2>1, ProbeDoes, CallSound, GoesSound DEF RestStays, KeptStay, At
  <2>3. MachinesGood'
    BY <1>1, ProbeDoes, LessSound, SwapSound
  <2> QED
    BY <2>1, <2>2, <2>3, RestSound DEF Sound
<1>2. CASE AskShutdown(n)
  <2>1. KeptStay /\ FilesStay /\ AddressesStay /\ faults' = faults /\ missed' = missed /\ upset' = upset \cup {n}
    BY <1>2, AskShutdownDoes
  <2>2. StateOK'
    BY <1>0, <2>1, MarksSound
  <2>3. WorkersGood'
    BY <1>2, <2>1, AskShutdownDoes, CallSound DEF KeptStay
  <2>4. MachinesGood'
    BY <1>2, AskShutdownDoes, LessSound, SwapSound
  <2> QED
    BY <2>2, <2>3, <2>4 DEF Sound
<1>3. CASE Rebooted(n)
  <2>1. At(n, "rebooted?") /\ domains' = domains /\ RestStays
    BY <1>3, RebootedDoes
  <2>2. WorkersGood'
    BY <1>3, <2>1, RebootedDoes, GoesSound DEF RestStays, KeptStay, At
  <2> QED
    BY <2>1, <2>2, LessSound, RestSound DEF Sound
<1>4. CASE Stopped(n)
  <2>1. At(n, "stopped?") /\ domains' = domains /\ RestStays
    BY <1>4, StoppedDoes
  <2>2. WorkersGood'
    BY <1>4, <2>1, StoppedDoes, GoesSound DEF RestStays, KeptStay, At
  <2> QED
    BY <2>1, <2>2, LessSound, RestSound DEF Sound
<1>5. CASE CallFails(n)
  <2>1. /\ domains' = domains /\ KeptStay /\ FilesStay /\ AddressesStay /\ upset' = upset \cup {n} /\ missed' \subseteq missed \cup {n}
        /\ faults' = faults \/ (faults < MaxFaults /\ faults' = faults + 1)
    BY <1>5, CallFailsDoes
  <2>2. StateOK'
    BY <1>0, <2>1, MarksSound
  <2>3. WorkersGood'
    BY <1>5, <2>1, CallFailsDoes, CallSound, EndSound DEF KeptStay
  <2> QED
    BY <2>1, <2>2, <2>3, LessSound DEF Sound
<1>6. CASE StopTimesOut(n)
  <2>1. /\ domains' = domains /\ FilesStay /\ AddressesStay /\ upset' = upset /\ missed' = missed \cup {n}
        /\ lab' = lab /\ starts' = starts /\ reach' = reach /\ past' = past /\ queue' = (IF lab.parallel THEN queue ELSE {})
        /\ faults < MaxFaults /\ faults' = faults + 1 /\ Becomes(n, <<>>, NoHost, "failed")
    BY <1>6, StopTimesOutDoes
  <2>2. queue' \subseteq queue
    BY <2>1
  <2>3. WorkersGood'
    BY <2>1, <2>2, EndSound
  <2>4. faults' \in 0..MaxFaults
    BY <1>0, <2>1, KvmVmsAssumption
  <2>5. StateOK'
    BY <2>1, <2>2, <2>4 DEF Sound, StateOK, FilesStay, AddressesStay
  <2> QED
    BY <2>1, <2>3, <2>5, LessSound DEF Sound
<1> QED
  BY <1>1, <1>2, <1>3, <1>4, <1>5, <1>6

\* The other steps.
LEMMA StartSound ==
    ASSUME Sound, NEW n \in Nodes, StartVm(n) \/ Take(n)
    PROVE  Sound'
<1>1. CASE StartVm(n)
  <2>1. /\ lab' = lab /\ reach' = reach /\ past' = past /\ domains' = domains /\ FilesStay /\ MarksStay /\ dns' = dns
        /\ work' = work /\ starts > 0 /\ starts' = starts - 1
        /\ lab.caller = "setup_vm" /\ ~Busy(n) /\ n \notin queue /\ (lab.parallel \/ Quiet)
        /\ queue' = queue \cup {n} /\ def' = [def EXCEPT ![n] = 0]
    BY <1>1, StartsDo
  <2>2. \A k \in Nodes : Busy(k) => k \notin queue'
    BY <2>1 DEF Sound, WorkersGood, Turns
  <2>3. WorkersGood'
    BY <2>1, <2>2, WorkersStay
  <2>4. starts \in 0..lab.starts /\ lab.starts \in Nat
    BY KvmVmsAssumption DEF Sound, StateOK
  <2>5. starts' \in 0..lab.starts /\ 0 \in 0..Size
    BY <2>1, <2>4, KvmVmsAssumption
  <2>6. StateOK'
    BY <2>1, <2>5 DEF Sound, StateOK, FilesStay, MarksStay
  <2> QED
    BY <2>1, <2>3, <2>6, LessSound DEF Sound
<1>2. CASE Take(n)
  <2>1. /\ lab' = lab /\ starts' = starts /\ reach' = reach /\ past' = past /\ domains' = domains
        /\ FilesStay /\ AddressesStay /\ MarksStay /\ n \in queue /\ queue' = queue \ {n}
        /\ lab.parallel \/ \A k \in Nodes : ~Busy(k)
        /\ Becomes(n, Program(lab), IF lab.kind = "libvirt" THEN NoHost ELSE Cluster, "none")
        /\ Shape(lab, Program(lab))
    BY <1>2, TakeDoes
  <2>2. WorkersGood'
    BY <2>1, WorkersGo
  <2>3. StateOK'
    BY <2>1 DEF Sound, StateOK, FilesStay, AddressesStay, MarksStay
  <2> QED
    BY <2>1, <2>2, <2>3, LessSound DEF Sound
<1> QED
  BY <1>1, <1>2

\* A start of setup_lab.py keeps the invariant.
LEMMA StartLabSound == ASSUME Sound, StartLab PROVE Sound'
<1>1. /\ lab' = lab /\ reach' = reach /\ past' = past /\ domains' = domains /\ FilesStay /\ MarksStay /\ dns' = dns
      /\ work' = work /\ starts > 0 /\ starts' = starts - 1 /\ lab.caller = "setup_lab" /\ Quiet
      /\ \/ def' = def /\ queue' = queue
         \/ \E seen \in [Nodes -> Seen] :
              def' = AllocateAll(seen) /\ queue' = Nodes /\ \A n \in Nodes : AllocateAll(seen)[n] # 0
  BY StartLabDoes
<1>2. WorkersGood'
  BY <1>1, WorkersStay DEF Quiet
<1>3. starts \in 0..lab.starts /\ lab.starts \in Nat
  BY KvmVmsAssumption DEF Sound, StateOK
<1>4. starts' \in 0..lab.starts
  BY <1>1, <1>3
<1>5. def' \in [Nodes -> 0..Size] /\ queue' \subseteq Nodes
  BY <1>1, AllocateAllType DEF Sound, StateOK
<1>6. StateOK'
  BY <1>1, <1>4, <1>5 DEF Sound, StateOK, FilesStay, MarksStay
<1> QED
  BY <1>1, <1>2, <1>6, LessSound DEF Sound

\* A host that goes down or comes back keeps the invariant.
LEMMA HostSound == ASSUME Sound, NEW h \in Hosts, HostDown(h) \/ HostUp(h) PROVE Sound'
<1>1. /\ lab' = lab /\ starts' = starts /\ queue' = queue /\ past' = past /\ work' = work /\ domains' = domains
      /\ FilesStay /\ AddressesStay /\ missed' = missed /\ reach' \subseteq Hosts
      /\ faults' = faults \/ (faults < MaxFaults /\ faults' = faults + 1)
      /\ upset' = upset \/ upset' = upset \cup {n \in Nodes : Has(h, n) # {} \/ On(n) = h}
  BY HostDoes
<1>2. WorkersGood'
  BY <1>1, WorkersStay DEF Sound, WorkersGood, Turns
<1>3. faults' \in 0..MaxFaults /\ upset' \subseteq Nodes
  BY <1>1, KvmVmsAssumption DEF Sound, StateOK
<1>4. StateOK'
  BY <1>1, <1>3 DEF Sound, StateOK, FilesStay, AddressesStay
<1> QED
  BY <1>1, <1>2, <1>4, LessSound DEF Sound

\* A guest's step keeps the invariant.
LEMMA GuestSound == ASSUME Sound, NEW d \in domains, Boots(d) \/ Hangs(d) \/ Acts(d) PROVE Sound'
<1>1. /\ lab' = lab /\ starts' = starts /\ queue' = queue /\ reach' = reach /\ work' = work
      /\ FilesStay /\ AddressesStay /\ missed' = missed
      /\ faults' = faults \/ (faults < MaxFaults /\ faults' = faults + 1)
      /\ upset' = upset \/ (upset' = upset \cup {d.name})
  BY GuestDoes
<1>2. PICK e : Swaps(d, e) /\ Same(d, e) /\ (past' = past \/ (d.addr # 0 /\ past' = past \cup {d.addr}))
  BY GuestDoes
<1>3. WorkersGood'
  BY <1>1, WorkersStay DEF Sound, WorkersGood, Turns
<1>4. d.addr \in 0..Size /\ d.name \in Nodes
  BY DEF Sound, MachinesGood, MachineType
<1>5. faults' \in 0..MaxFaults /\ upset' \subseteq Nodes /\ past' \subseteq 1..Size
  <2>1. faults' \in 0..MaxFaults
    BY <1>1, KvmVmsAssumption DEF Sound, StateOK
  <2>2. upset' \subseteq Nodes
    BY <1>1, <1>4 DEF Sound, StateOK
  <2>3. past \subseteq 1..Size
    BY DEF Sound, StateOK
  <2>4. d.addr # 0 => d.addr \in 1..Size
    BY <1>4, KvmVmsAssumption
  <2>5. past' \subseteq 1..Size
    <3> DEFINE I == 1..Size
    <3>1. past \subseteq I /\ (d.addr # 0 => d.addr \in I)
      BY <2>3, <2>4
    <3> HIDE DEF I
    <3>2. past' \subseteq I
      BY <1>2, <3>1
    <3> QED
      BY <3>2 DEF I
  <2> QED
    BY <2>1, <2>2, <2>5
<1>6. StateOK'
  BY <1>1, <1>5 DEF Sound, StateOK, FilesStay, AddressesStay
<1> QED
  BY <1>2, <1>3, <1>6, SwapSound DEF Sound

\* The invariant holds at the start.
LEMMA InitSound == Init => Sound
<1> SUFFICES ASSUME Init PROVE Sound
  OBVIOUS
<1>1. StateOK
  <2>1. lab.starts \in Nat /\ 0 \in 0..Size /\ 0 \in 0..MaxFaults
    BY KvmVmsAssumption DEF Init
  <2> QED
    BY <2>1 DEF Init, StateOK
<1>2. MachinesGood
  BY FS_EmptySet DEF Init, MachinesGood, OnePerHost
<1>3. Idle.todo = <<>> /\ Idle.end = "none" /\ Idle \in [todo : Seq(AllKinds), host : Hosts \cup {NoHost}, end : {"none", "ok", "failed"}]
  <2>1. <<>> \in Seq(AllKinds)
    OBVIOUS
  <2> QED
    BY <2>1 DEF Idle
<1>4. WorkersGood
  BY <1>3, NoCalls DEF Init, WorkersGood, WorkOK, Shapes, Turns, Busy
<1> QED
  BY <1>1, <1>2, <1>4 DEF Sound

\* A step of nobody keeps the invariant.
LEMMA StutterSound == ASSUME Sound, UNCHANGED vars PROVE Sound'
BY DEF vars, Sound, StateOK, MachinesGood, OnePerHost, WorkersGood, WorkOK, Shapes, Turns, Busy

\* Every step keeps the invariant.
LEMMA SoundStep == Sound /\ [Next]_vars => Sound'
<1> SUFFICES ASSUME Sound, [Next]_vars PROVE Sound'
  OBVIOUS
<1>1. ASSUME NEW n \in Nodes, Step(n) PROVE Sound'
  BY <1>1, FilesSound, TouchSound, MakeSound, FindSound, RebootSound DEF Step
<1>2. ASSUME NEW n \in Nodes, StartVm(n) \/ Take(n) \/ StopTimesOut(n) PROVE Sound'
  BY <1>2, StartSound, RebootSound
<1> QED
  BY <1>1, <1>2, StartLabSound, HostSound, GuestSound, StutterSound DEF Next

\* The invariant of types and of the order of the calls.
LEMMA SoundAlways == Spec => []Sound
<1> QED
  BY InitSound, SoundStep, PTL DEF Spec

\* The invariant has the types of TypeOK.
LEMMA SoundIsTyped == Sound => TypeOK
<1> SUFFICES ASSUME Sound PROVE TypeOK
  OBVIOUS
<1>1. ASSUME NEW n \in Nodes
      PROVE  /\ work[n].host \in Hosts \cup {NoHost} /\ work[n].end \in {"none", "ok", "failed"}
             /\ \A i \in DOMAIN work[n].todo : work[n].todo[i] \in {Program(lab)[j] : j \in DOMAIN Program(lab)}
  <2>1. work[n] \in [todo : Seq(AllKinds), host : Hosts \cup {NoHost}, end : {"none", "ok", "failed"}]
    BY DEF Sound, WorkersGood, WorkOK
  <2>2. Shape(lab, work[n].todo) /\ Shape(lab, Program(lab))
    BY LabIsLab, ProgramShape DEF Sound, WorkersGood, Shapes, StateOK
  <2>3. DOMAIN work[n].todo = 1..Len(work[n].todo) /\ DOMAIN Program(lab) = 1..Len(Program(lab))
    BY <2>2, LenProperties DEF Shape
  <2>4. Left(work[n].todo) \subseteq Left(Program(lab))
    BY <2>2 DEF Shape
  <2> QED
    BY <2>1, <2>3, <2>4 DEF Left
<1> QED
  BY <1>1 DEF TypeOK, Sound, StateOK, MachinesGood, MachineType

\* What is known of the machines, hosts, files, addresses and workers is what
\* it should be, through failures, timeouts and rebuilds: a host has one
\* machine of a name, and every worker makes the calls of its lab's program.
THEOREM KvmTypeCorrect == Spec => []TypeOK
BY SoundAlways, SoundIsTyped, PTL

(***************************************************************************)
(* The machines that run on a host fit on it                               *)
(***************************************************************************)
Running(h) == {d \in domains : d.host = h /\ d.on}
\* Their nodes.
OnNames(h) == {d.name : d \in Running(h)}
\* A worker whose host has been chosen.
Settled(n) == Busy(n) /\ "select" \notin Left(work[n].todo)
Placed ==
    ~lab.parallel /\ lab.kind = "libvirt" =>
      /\ \A h \in Hosts : Cardinality(OnNames(h)) <= Room[h]
      /\ \A n \in Nodes : Settled(n) => /\ On(n) \in Hosts
                                        /\ \A h \in Hosts : h = On(n) => Cardinality(OnNames(h) \ {n}) < Room[h]

\* A host has one machine of a name, so that its machines can be counted by their names.
LEMMA NamesCounted ==
    ASSUME Sound, NEW h
    PROVE  /\ IsFiniteSet(OnNames(h)) /\ Cardinality(OnNames(h)) \in Nat
           /\ Cardinality(OnNames(h)) = Cardinality(Running(h))
<1> DEFINE R == Running(h)
           N == OnNames(h)
           f == [d \in R |-> d.name]
<1>1. IsFiniteSet(R)
  <2>1. R \subseteq domains /\ IsFiniteSet(domains)
    BY DEF Running, Sound, MachinesGood
  <2> QED
    BY <2>1, FS_Subset
<1>2. \A d, e \in R : d.name = e.name => d = e
  BY DEF Running, Sound, MachinesGood, OnePerHost
<1>3. N = {d.name : d \in R}
  BY DEF OnNames
<1> HIDE DEF R, N
<1>4. f \in Surjection(R, N)
  BY <1>3, Fun_IsSurj
<1>5. f \in Injection(R, N)
  BY <1>2, <1>3, Fun_IsInj
<1>6. IsFiniteSet(N) /\ Cardinality(N) = Cardinality(R)
  BY <1>1, <1>4, <1>5, FS_Surjection
<1>7. Cardinality(N) \in Nat
  BY <1>6, FS_CardinalityType
<1> QED
  BY <1>6, <1>7 DEF R, N

\* What select_kvm_host() computes as the room of a host.
LEMMA FreeIs == ASSUME NEW h PROVE Free(h) = Room[h] - Cardinality(Running(h))
BY DEF Free, Running

\* What leaves the room of the hosts to those who have it.
NoneMore == \A h \in Hosts : OnNames(h)' \subseteq OnNames(h)
SameSettled == \A k \in Nodes : Settled(k)' => Settled(k) /\ On(k)' = On(k)

\* The room of the hosts after a step that starts no machine.
LEMMA PlacedKept ==
    ASSUME Sound, Placed, lab' = lab, NoneMore, SameSettled
    PROVE  Placed'
<1> SUFFICES ASSUME ~lab.parallel, lab.kind = "libvirt"
             PROVE  /\ \A h \in Hosts : Cardinality(OnNames(h)') <= Room[h]
                    /\ \A n \in Nodes : Settled(n)' => /\ On(n)' \in Hosts
                                                       /\ \A x \in Hosts : x = On(n)' => Cardinality(OnNames(x)' \ {n}) < Room[x]
  BY DEF Placed
<1>1. ASSUME NEW h \in Hosts
      PROVE  /\ Room[h] \in Nat /\ IsFiniteSet(OnNames(h)) /\ Cardinality(OnNames(h)') \in Nat
             /\ Cardinality(OnNames(h)) \in Nat /\ Cardinality(OnNames(h)') <= Cardinality(OnNames(h))
  <2>1. IsFiniteSet(OnNames(h)) /\ Cardinality(OnNames(h)) \in Nat
    BY NamesCounted
  <2>2. OnNames(h)' \subseteq OnNames(h)
    BY DEF NoneMore
  <2>3. IsFiniteSet(OnNames(h)') /\ Cardinality(OnNames(h)') <= Cardinality(OnNames(h))
    BY <2>1, <2>2, FS_Subset
  <2> QED
    BY <2>1, <2>3, FS_CardinalityType, KvmVmsAssumption
<1>2. ASSUME NEW h \in Hosts PROVE Cardinality(OnNames(h)') <= Room[h]
  BY <1>1, <1>2 DEF Placed
<1>3. ASSUME NEW n \in Nodes, Settled(n)'
      PROVE  On(n)' \in Hosts /\ \A x \in Hosts : x = On(n)' => Cardinality(OnNames(x)' \ {n}) < Room[x]
  <2> DEFINE h == On(n)
             A == OnNames(h)' \ {n}
             B == OnNames(h) \ {n}
  <2>1. On(n)' = h /\ h \in Hosts /\ Cardinality(B) < Room[h]
    BY <1>3 DEF SameSettled, Placed
  <2>2. IsFiniteSet(B) /\ A \subseteq B
    BY <1>1, <2>1, FS_RemoveElement DEF NoneMore
  <2>3. IsFiniteSet(A) /\ Cardinality(A) <= Cardinality(B)
    BY <2>2, FS_Subset
  <2>4. Cardinality(A) \in Nat /\ Cardinality(B) \in Nat /\ Room[h] \in Nat
    BY <1>1, <2>1, <2>2, <2>3, FS_CardinalityType
  <2>5. Cardinality(A) < Room[h]
    BY <2>1, <2>3, <2>4
  <2> QED
    BY <2>1, <2>5
<1> QED
  BY <1>2, <1>3

\* A worker whose host has been chosen has room for its machine there.
OneMore(n) == \A h \in Hosts : OnNames(h)' \subseteq OnNames(h) \cup {x \in {n} : h = On(n)}

\* The room of the hosts after a step that starts the machine of a worker placed with room for it.
LEMMA PlacedOneMore ==
    ASSUME Sound, Placed, lab' = lab, NEW n \in Nodes, Settled(n), OneMore(n), SameSettled
    PROVE  Placed'
<1> SUFFICES ASSUME ~lab.parallel, lab.kind = "libvirt"
             PROVE  /\ \A h \in Hosts : Cardinality(OnNames(h)') <= Room[h]
                    /\ \A k \in Nodes : Settled(k)' => /\ On(k)' \in Hosts
                                                       /\ \A x \in Hosts : x = On(k)' => Cardinality(OnNames(x)' \ {k}) < Room[x]
  BY DEF Placed
<1>0. PICK g : g = On(n)
  OBVIOUS
<1> DEFINE B == OnNames(g) \ {n}
<1>1. g \in Hosts /\ Cardinality(B) < Room[g] /\ (\A h \in Hosts : Cardinality(OnNames(h)) <= Room[h] /\ Room[h] \in Nat)
  BY <1>0, KvmVmsAssumption DEF Placed
<1>2. ASSUME NEW h \in Hosts PROVE IsFiniteSet(OnNames(h)) /\ Cardinality(OnNames(h)) \in Nat
  BY NamesCounted
<1>3. IsFiniteSet(B) /\ Cardinality(B) \in Nat
  <2>1. IsFiniteSet(OnNames(g)) /\ B \subseteq OnNames(g)
    BY <1>1, <1>2
  <2>2. IsFiniteSet(B)
    BY <2>1, FS_Subset
  <2> QED
    BY <2>2, FS_CardinalityType
<1>4. (OnNames(g)' \ {n}) \subseteq B /\ OnNames(g)' \subseteq B \cup {n}
  BY <1>0, <1>1 DEF OneMore
<1>5. Cardinality(OnNames(g)' \ {n}) < Room[g]
  <2> DEFINE A == OnNames(g)' \ {n}
  <2>1. IsFiniteSet(A) /\ Cardinality(A) <= Cardinality(B)
    BY <1>3, <1>4, FS_Subset
  <2>2. Cardinality(A) \in Nat
    BY <2>1, FS_CardinalityType
  <2> QED
    BY <1>1, <1>3, <2>1, <2>2
<1>6. Cardinality(OnNames(g)') <= Room[g]
  <2>1. IsFiniteSet(B \cup {n}) /\ Cardinality(B \cup {n}) = Cardinality(B) + 1
    BY <1>3, FS_AddElement
  <2>2. IsFiniteSet(OnNames(g)') /\ Cardinality(OnNames(g)') <= Cardinality(B \cup {n})
    BY <1>4, <2>1, FS_Subset
  <2>3. Cardinality(OnNames(g)') \in Nat
    BY <2>2, FS_CardinalityType
  <2> QED
    BY <1>1, <1>3, <2>1, <2>2, <2>3
<1>7. ASSUME NEW h \in Hosts, h # g PROVE Cardinality(OnNames(h)') <= Room[h]
  <2>1. OnNames(h)' \subseteq OnNames(h)
    BY <1>0, <1>7 DEF OneMore
  <2>2. IsFiniteSet(OnNames(h)') /\ Cardinality(OnNames(h)') <= Cardinality(OnNames(h))
    BY <1>2, <2>1, FS_Subset
  <2>3. Cardinality(OnNames(h)') \in Nat
    BY <2>2, FS_CardinalityType
  <2> QED
    BY <1>1, <1>2, <2>2, <2>3
<1>8. ASSUME NEW k \in Nodes, Settled(k)' PROVE k = n /\ On(k)' = g
  <2>1. Settled(k) /\ On(k)' = On(k)
    BY <1>8 DEF SameSettled
  <2>2. k = n
    BY <2>1 DEF Settled, Sound, WorkersGood, Turns
  <2> QED
    BY <1>0, <2>1, <2>2
<1>9. ASSUME NEW h \in Hosts PROVE Cardinality(OnNames(h)') <= Room[h]
  <2>1. CASE h = g
    BY <1>6, <2>1 DEF OnNames, Running
  <2> QED
    BY <1>7, <2>1
<1>10. ASSUME NEW k \in Nodes, Settled(k)', NEW x \in Hosts, x = On(k)' PROVE Cardinality(OnNames(x)' \ {k}) < Room[x]
  <2>1. k = n /\ x = g
    BY <1>8, <1>10
  <2> QED
    BY <1>5, <2>1 DEF OnNames, Running
<1> QED
  BY <1>1, <1>8, <1>9, <1>10

\* select_kvm_host() chooses a host that has room.
LEMMA PlacedChosen ==
    ASSUME Sound, Placed, lab' = lab, NEW n \in Nodes, NEW t, NEW h \in Fitting, Busy(n), Becomes(n, t, h, "none"), domains' = domains
    PROVE  Placed'
<1> SUFFICES ASSUME ~lab.parallel, lab.kind = "libvirt"
             PROVE  /\ \A g \in Hosts : Cardinality(OnNames(g)') <= Room[g]
                    /\ \A k \in Nodes : Settled(k)' => /\ On(k)' \in Hosts
                                                       /\ \A x \in Hosts : x = On(k)' => Cardinality(OnNames(x)' \ {k}) < Room[x]
  BY DEF Placed
<1>1. \A g : OnNames(g)' = OnNames(g)
  BY DEF OnNames, Running
<1>2. h \in Hosts /\ Room[h] \in Nat /\ Room[h] - Cardinality(Running(h)) > 0
  BY FreeIs, KvmVmsAssumption DEF Fitting, Sound, StateOK
<1>3. /\ IsFiniteSet(OnNames(h)) /\ Cardinality(OnNames(h)) \in Nat
      /\ Cardinality(OnNames(h)) = Cardinality(Running(h))
  BY NamesCounted
<1>4. Cardinality(OnNames(h) \ {n}) < Room[h]
  <2>1. IsFiniteSet(OnNames(h) \ {n}) /\ Cardinality(OnNames(h) \ {n}) <= Cardinality(OnNames(h))
    BY <1>3, FS_Subset
  <2>2. Cardinality(OnNames(h) \ {n}) \in Nat
    BY <2>1, FS_CardinalityType
  <2> QED
    BY <1>2, <1>3, <2>1, <2>2
<1>5. ASSUME NEW k \in Nodes, Settled(k)' PROVE k = n /\ On(k)' = h
  <2>1. k = n
    <3>1. k # n => work'[k] = work[k]
      BY DEF Becomes
    <3>2. k # n => Busy(k)
      BY <1>5, <3>1 DEF Settled, Busy
    <3> QED
      BY <3>2 DEF Sound, WorkersGood, Turns
  <2> QED
    BY <2>1 DEF Becomes, On
<1>6. \A g \in Hosts : Cardinality(OnNames(g)) <= Room[g]
  BY DEF Placed
<1> QED
  BY <1>1, <1>2, <1>4, <1>5, <1>6

\* Steps that do not bring a machine to run.
LEMMA NoneMoreLess == ASSUME domains' \subseteq domains PROVE NoneMore
BY DEF NoneMore, OnNames, Running

\* A machine changed and not switched on.
LEMMA NoneMoreSwap ==
    ASSUME NEW d, NEW e, Swaps(d, e), Same(d, e), e.on => d.on
    PROVE  NoneMore
<1> SUFFICES ASSUME NEW h \in Hosts, NEW x \in Running(h)' PROVE x.name \in OnNames(h)
  BY DEF NoneMore, OnNames
<1>1. x \in domains' /\ x.host = h /\ x.on
  BY DEF Running
<1>2. x = e \/ x \in domains
  BY <1>1 DEF Swaps
<1>3. CASE x \in domains
  BY <1>1, <1>3 DEF OnNames, Running
<1>4. CASE x = e
  <2>1. d \in domains /\ d.host = h /\ d.on /\ d.name = x.name
    BY <1>1, <1>4 DEF Swaps, Same
  <2> QED
    BY <2>1 DEF OnNames, Running
<1> QED
  BY <1>2, <1>3, <1>4

\* And those that bring the worker's own to run.
LEMMA OneMoreSwap ==
    ASSUME NEW n \in Nodes, NEW d \in Mine(n), NEW e, Swaps(d, e), Same(d, e)
    PROVE  OneMore(n)
<1> SUFFICES ASSUME NEW h \in Hosts, NEW x \in Running(h)' PROVE x.name \in OnNames(h) \cup {y \in {n} : h = On(n)}
  BY DEF OneMore, OnNames
<1>1. x \in domains' /\ x.host = h /\ x.on
  BY DEF Running
<1>2. x = e \/ x \in domains
  BY <1>1 DEF Swaps
<1>3. CASE x \in domains
  BY <1>1, <1>3 DEF OnNames, Running
<1>4. CASE x = e
  BY <1>1, <1>4 DEF Same, Mine, Has
<1> QED
  BY <1>2, <1>3, <1>4

\* The machine made is that of the worker, on its host.
LEMMA OneMoreMakes ==
    ASSUME Sound, NEW n \in Nodes, On(n) \in Hosts, NEW e, Makes(n, e)
    PROVE  OneMore(n)
<1> SUFFICES ASSUME NEW h \in Hosts, NEW x \in Running(h)' PROVE x.name \in OnNames(h) \cup {y \in {n} : h = On(n)}
  BY DEF OneMore, OnNames
<1>0. e.host = On(n) /\ e.name = n
  BY MakesSound
<1>1. x \in domains' /\ x.host = h /\ x.on
  BY DEF Running
<1>2. x = e \/ x \in domains
  BY <1>1 DEF Makes
<1>3. CASE x \in domains
  BY <1>1, <1>3 DEF OnNames, Running
<1>4. CASE x = e
  BY <1>0, <1>1, <1>4
<1> QED
  BY <1>2, <1>3, <1>4

\* A machine removed is not one more.
LEMMA OneMoreLess == ASSUME NEW n, domains' \subseteq domains PROVE OneMore(n)
BY DEF OneMore, OnNames, Running

\* A call follows those that come before it.
LEMMA CallsAfter ==
    ASSUME Sound, NEW n \in Nodes, NEW op, At(n, op), NEW o \in Left(work[n].todo)
    PROVE  o = op \/ Before(op, o)
<1>1. Shape(lab, work[n].todo) /\ 1 \in 1..Len(work[n].todo) /\ work[n].todo[1] = op /\ Len(work[n].todo) \in Nat
  BY Called
<1>2. PICK i \in 1..Len(work[n].todo) : work[n].todo[i] = o
  BY DEF Left
<1>3. i = 1 \/ 1 < i
  BY <1>1, <1>2
<1> QED
  BY <1>1, <1>2, <1>3 DEF Shape, Ordered

\* A worker whose call ranks after the selection of the host has its host.
LEMMA IsSettled ==
    ASSUME Sound, NEW n \in Nodes, NEW op, At(n, op), Rank(op) \in Nat, Rank(op) > 6
    PROVE  Settled(n)
<1>1. "select" \notin Left(work[n].todo)
  <2> SUFFICES ASSUME "select" \in Left(work[n].todo) PROVE FALSE
    OBVIOUS
  <2>1. "select" = op \/ Before(op, "select")
    BY CallsAfter
  <2> QED
    BY <2>1, Ranks DEF Before
<1> QED
  BY <1>1 DEF Settled, At

\* A call other than the selection settles no worker.
LEMMA SettledCall ==
    ASSUME Sound, NEW n \in Nodes, NEW op, NEW t, Call(n, op, t), op # "select"
    PROVE  SameSettled
<1> SUFFICES ASSUME NEW k \in Nodes, Settled(k)' PROVE Settled(k) /\ On(k)' = On(k)
  BY DEF SameSettled
<1>1. /\ \A x \in Nodes \ {n} : work'[x] = work[x]
      /\ work'[n].todo = t /\ work'[n].host = On(n) /\ Busy(n) /\ Left(work[n].todo) = {op} \cup Left(t)
  BY DEF Call, Goes, Becomes, At
<1>2. CASE k = n
  BY <1>1, <1>2 DEF Settled, On
<1>3. CASE k # n
  BY <1>1, <1>3 DEF Settled, On, Busy
<1> QED
  BY <1>2, <1>3

\* A worker that goes on from its host keeps it.
LEMMA SettledGoes ==
    ASSUME Sound, NEW n \in Nodes, NEW op, NEW t, Goes(n, op, t, On(n)), Settled(n)
    PROVE  SameSettled
BY DEF SameSettled, Goes, Becomes, Settled, On, Busy

\* A worker with the selection ahead of it is not settled.
LEMMA SettledLater ==
    ASSUME Sound, NEW n \in Nodes, NEW t, NEW h, NEW e, Becomes(n, t, h, e), "select" \in Left(t)
    PROVE  SameSettled
BY DEF SameSettled, Becomes, Settled, On, Busy

\* A worker that ends is not settled.
LEMMA SettledEnd ==
    ASSUME NEW n \in Nodes, NEW h, NEW e, Becomes(n, <<>>, h, e)
    PROVE  SameSettled
BY DEF SameSettled, Becomes, Settled, On, Busy

\* A step that leaves the workers alone settles none.
LEMMA SettledStay == ASSUME work' = work PROVE SameSettled
BY DEF SameSettled, Settled, On, Busy

\* Each step.
LEMMA PlacedTouch ==
    ASSUME Sound, Placed, NEW n \in Nodes,
           AnswerFile(n) \/ PushFiles(n) \/ Destroy(n) \/ EditBoot(n) \/ AskReboot(n) \/ Listen(n) \/ Reset(n) \/ Delete(n)
           \/ Undefine(n) \/ AskShutdown(n)
    PROVE  Placed'
<1>1. CASE AnswerFile(n) \/ PushFiles(n)
  <2>0. PICK op \in {"answer", "push"} : \E t : Call(n, op, t) /\ domains' = domains /\ lab' = lab
    BY <1>1, QuietlyDoes DEF RestStays, KeptStay
  <2>1. PICK t : Call(n, op, t) /\ domains' = domains /\ lab' = lab
    BY <2>0
  <2> QED
    BY <2>1, SettledCall, NoneMoreLess, PlacedKept
<1>2. CASE Destroy(n)
  <2>0. PICK op \in {"destroy", "stop", "virsh-destroy"} : \E t :
             /\ Command1(n, op, t)
             /\ (Mine(n) = {} /\ domains' = domains) \/ \E d \in Mine(n) : \E e : Switched(d, e, FALSE) /\ e.up = FALSE /\ e.pend = {}
    BY <1>2, DestroyDoes
  <2>1. PICK t :
             /\ Command1(n, op, t)
             /\ (Mine(n) = {} /\ domains' = domains) \/ \E d \in Mine(n) : \E e : Switched(d, e, FALSE) /\ e.up = FALSE /\ e.pend = {}
    BY <2>0
  <2>2. NoneMore
    BY <2>1, NoneMoreLess, NoneMoreSwap DEF Switched
  <2>3. SameSettled /\ lab' = lab
    BY <2>1, SettledCall DEF Command1, RestStays, KeptStay
  <2> QED
    BY <2>2, <2>3, PlacedKept
<1>3. CASE EditBoot(n)
  <2>1. PICK t : /\ Command1(n, "edit", t)
                 /\ \/ Mine(n) = {} /\ domains' = domains
                    \/ \E d \in Mine(n) : \E e : Swaps(d, e) /\ Same(d, e) /\ e.on = d.on
    BY <1>3, EditBootDoes
  <2>2. NoneMore
    BY <2>1, NoneMoreLess, NoneMoreSwap
  <2>3. SameSettled /\ lab' = lab
    BY <2>1, SettledCall DEF Command1, RestStays, KeptStay
  <2> QED
    BY <2>2, <2>3, PlacedKept
<1>4. CASE AskReboot(n) \/ Listen(n) \/ Reset(n)
  <2>0. PICK op \in {"virsh-reboot", "listen", "reset", "restart"} : \E t :
             /\ Command1(n, op, t)
             /\ \/ Mine(n) = {} /\ domains' = domains
                \/ \E d \in Mine(n) : \E e : Swaps(d, e) /\ Same(d, e) /\ e.on = d.on
    BY <1>4, TouchDoes
  <2>1. PICK t :
             /\ Command1(n, op, t)
             /\ \/ Mine(n) = {} /\ domains' = domains
                \/ \E d \in Mine(n) : \E e : Swaps(d, e) /\ Same(d, e) /\ e.on = d.on
    BY <2>0
  <2>2. NoneMore
    BY <2>1, NoneMoreLess, NoneMoreSwap
  <2>3. SameSettled /\ lab' = lab
    BY <2>1, SettledCall DEF Command1, RestStays, KeptStay
  <2> QED
    BY <2>2, <2>3, PlacedKept
<1>5. CASE Delete(n)
  <2>1. PICK t : Command1(n, "delete", t) /\ domains' = domains \ Mine(n)
    BY <1>5, DeleteDoes
  <2>2. NoneMore
    BY <2>1, NoneMoreLess
  <2>3. SameSettled /\ lab' = lab
    BY <2>1, SettledCall DEF Command1, RestStays, KeptStay
  <2> QED
    BY <2>2, <2>3, PlacedKept
<1>6. CASE Undefine(n)
  <2>1. PICK t : Command2(n, "undefine", t) /\ domains' = domains \ {d \in Mine(n) : ~d.on}
    BY <1>6, UndefineDoes
  <2>2. NoneMore
    BY <2>1, NoneMoreLess
  <2>3. SameSettled /\ lab' = lab
    BY <2>1, SettledCall DEF Command2, KeptStay
  <2> QED
    BY <2>2, <2>3, PlacedKept
<1>7. CASE AskShutdown(n)
  <2>1. PICK t : /\ Call(n, "virsh-shutdown", t) /\ KeptStay
                 /\ \/ Mine(n) = {} /\ domains' = domains
                    \/ \E d \in Mine(n) : \E e : Swaps(d, e) /\ Same(d, e) /\ e.on = d.on
    BY <1>7, AskShutdownDoes
  <2>2. NoneMore
    BY <2>1, NoneMoreLess, NoneMoreSwap
  <2>3. SameSettled /\ lab' = lab
    BY <2>1, SettledCall DEF KeptStay
  <2> QED
    BY <2>2, <2>3, PlacedKept
<1> QED
  BY <1>1, <1>2, <1>3, <1>4, <1>5, <1>6, <1>7

\* The calls on files and addresses start no machine.
LEMMA PlacedFiles ==
    ASSUME Sound, Placed, NEW n \in Nodes,
           CopyImage(n) \/ Customize(n) \/ Stage(n) \/ Seed(n) \/ Unregister(n) \/ Register(n) \/ AllocateIp(n) \/ Online(n)
    PROVE  Placed'
<1>1. ASSUME NEW op, op # "select", NEW t, Call(n, op, t), domains' = domains, lab' = lab
      PROVE  Placed'
  BY <1>1, SettledCall, NoneMoreLess, PlacedKept
<1>2. ASSUME Becomes(n, <<>>, NoHost, "failed"), domains' = domains, lab' = lab
      PROVE  Placed'
  BY <1>2, SettledEnd, NoneMoreLess, PlacedKept
<1>3. CASE CopyImage(n)
  BY <1>1, <1>3, CopyImageDoes DEF Command2, KeptStay
<1>4. CASE Customize(n)
  BY <1>1, <1>4, CustomizeDoes DEF Command2, KeptStay
<1>5. CASE Stage(n)
  BY <1>1, <1>5, StageDoes DEF Command2, KeptStay
<1>6. CASE Seed(n)
  BY <1>1, <1>6, SeedDoes DEF Command2, KeptStay
<1>7. CASE Unregister(n)
  BY <1>1, <1>7, UnregisterDoes DEF KeptStay
<1>8. CASE Register(n)
  BY <1>1, <1>8, RegisterDoes DEF KeptStay
<1>9. CASE AllocateIp(n)
  BY <1>1, <1>2, <1>9, AllocateIpDoes DEF KeptStay
<1>10. CASE Online(n)
  BY <1>1, <1>2, <1>10, OnlineDoes DEF RestStays, KeptStay
<1> QED
  BY <1>3, <1>4, <1>5, <1>6, <1>7, <1>8, <1>9, <1>10

\* The calls that make or start a machine do so where there is room.
LEMMA PlacedMake ==
    ASSUME Sound, Placed, NEW n \in Nodes, Install(n) \/ InstallIso(n) \/ Apply(n) \/ StartDomain(n)
    PROVE  Placed'
<1>0. reach \subseteq Hosts
  BY DEF Sound, StateOK
<1>1. ASSUME NEW op, op # "select", NEW t, Call(n, op, t), lab' = lab, OneMore(n), Rank(op) \in Nat, Rank(op) > 6
      PROVE  Placed'
  <2>1. Settled(n)
    BY <1>1, IsSettled DEF Call
  <2> QED
    BY <1>1, <2>1, SettledCall, PlacedOneMore
<1>2. ASSUME Becomes(n, <<>>, NoHost, "failed"), domains' = domains, lab' = lab
      PROVE  Placed'
  BY <1>2, SettledEnd, NoneMoreLess, PlacedKept
<1>3. CASE Install(n)
  <2>1. lab' = lab /\ On(n) \in Hosts
    BY <1>0, <1>3, InstallDoes DEF RestStays, KeptStay
  <2>2. CASE Becomes(n, <<>>, NoHost, "failed") /\ domains' = domains
    BY <1>2, <2>1, <2>2
  <2>3. CASE Makes(n, Domain(n, "disk", TRUE)) /\ \E t : Call(n, "install", t)
    <3>1. OneMore(n)
      BY <2>1, <2>3, OneMoreMakes
    <3> QED
      BY <1>1, <2>1, <2>3, <3>1, Ranks
  <2> QED
    BY <1>3, <2>2, <2>3, InstallDoes
<1>4. CASE InstallIso(n)
  <2>1. lab' = lab /\ On(n) \in Hosts
    BY <1>0, <1>4, InstallIsoDoes DEF KeptStay
  <2>2. CASE Becomes(n, <<>>, NoHost, "failed") /\ domains' = domains
    BY <1>2, <2>1, <2>2
  <2>3. CASE (\E t : Call(n, "install-iso", t))
             /\ \E running \in BOOLEAN : Makes(n, Domain(n, IF lab.method = "autoinstall" THEN "installer" ELSE "disk", running))
    BY <1>1, <2>1, <2>3, OneMoreMakes, Ranks
  <2> QED
    BY <1>4, <2>2, <2>3, InstallIsoDoes
<1>5. CASE Apply(n)
  <2>1. PICK t : Command1(n, "apply", t) /\ ((Mine(n) # {} /\ domains' = domains) \/ Makes(n, Domain(n, "disk", TRUE)))
    BY <1>5, ApplyDoes
  <2>2. OneMore(n) /\ lab' = lab
    BY <1>0, <2>1, OneMoreMakes, OneMoreLess DEF Command1, RestStays, KeptStay
  <2> QED
    BY <1>1, <2>1, <2>2, Ranks DEF Command1
<1>6. CASE StartDomain(n)
  <2>0. PICK op \in {"virsh-start", "start-again"} : \E t :
             /\ Command1(n, op, t)
             /\ (Mine(n) = {} /\ domains' = domains) \/ \E d \in Mine(n) : \E e : Switched(d, e, TRUE)
    BY <1>6, StartDomainDoes
  <2>1. PICK t :
             /\ Command1(n, op, t)
             /\ (Mine(n) = {} /\ domains' = domains) \/ \E d \in Mine(n) : \E e : Switched(d, e, TRUE)
    BY <2>0
  <2>2. OneMore(n) /\ lab' = lab
    BY <2>1, OneMoreSwap, OneMoreLess DEF Switched, Command1, RestStays, KeptStay
  <2> QED
    BY <1>1, <2>1, <2>2, Ranks DEF Command1
<1> QED
  BY <1>3, <1>4, <1>5, <1>6

\* The search for a host and the choice of one.
LEMMA PlacedFind ==
    ASSUME Sound, Placed, NEW n \in Nodes, Keep(n) \/ Locate(n) \/ Select(n)
    PROVE  Placed'
<1>1. CASE Keep(n)
  <2>1. domains' = domains /\ lab' = lab
    BY <1>1, KeepDoes DEF KeptStay
  <2>2. SameSettled
    BY <1>1, KeepDoes, SettledCall, SettledEnd
  <2> QED
    BY <2>1, <2>2, NoneMoreLess, PlacedKept
<1>2. CASE Locate(n)
  <2>1. domains' = domains /\ lab' = lab /\ At(n, "locate")
    BY <1>2, LocateDoes DEF KeptStay
  <2>2. lab.kind = "libvirt"
    <3>1. "locate" \in Calls(lab) /\ IsLab(lab)
      BY <2>1, Called
    <3> QED
      BY <3>1 DEF Calls, IsLab
  <2>3. "select" \in Must(lab, "undefine") /\ "select" \in Must(lab, "locate")
    BY <2>2, Musts DEF SelectOf
  <2>4. SameSettled
    <3>1. PICK A \in SUBSET reach : Searched(n, A)
      BY <1>2, LocateDoes
    <3> QED
      BY <2>3, <3>1, SettledLater DEF Goes, Searched
  <2> QED
    BY <2>1, <2>4, NoneMoreLess, PlacedKept
<1>3. CASE Select(n)
  <2>1. domains' = domains /\ lab' = lab /\ At(n, "select")
    BY <1>3, SelectDoes DEF RestStays, KeptStay
  <2>2. CASE Becomes(n, <<>>, NoHost, "failed")
    BY <2>1, <2>2, SettledEnd, NoneMoreLess, PlacedKept
  <2>3. CASE \E h \in Fitting : \E t : Goes(n, "select", t, h) /\ Left(work[n].todo) = {"select"} \cup Left(t)
    <3>0. PICK h \in Fitting : \E t : Goes(n, "select", t, h)
      BY <2>3
    <3>1. PICK t : Goes(n, "select", t, h)
      BY <3>0
    <3>2. "register" \in Must(lab, "select")
      BY Musts
    <3>3. t # <<>>
      BY <3>1, <3>2, NoCalls DEF Goes
    <3>4. Becomes(n, t, h, "none") /\ Busy(n)
      BY <2>1, <3>1, <3>3 DEF Goes, At
    <3> QED
      BY <2>1, <3>4, PlacedChosen
  <2> QED
    BY <1>3, <2>2, <2>3, SelectDoes
<1> QED
  BY <1>1, <1>2, <1>3

\* The calls around a reboot start no machine.
LEMMA PlacedReboot ==
    ASSUME Sound, Placed, NEW n \in Nodes, Probe(n) \/ Rebooted(n) \/ Stopped(n) \/ CallFails(n) \/ StopTimesOut(n)
    PROVE  Placed'
<1>1. CASE Probe(n)
  <2>1. At(n, "probe") /\ lab' = lab
    BY <1>1, ProbeDoes DEF RestStays, KeptStay
  <2>2. Settled(n)
    BY <2>1, IsSettled, Ranks
  <2>3. SameSettled /\ NoneMore
    BY <1>1, <2>2, ProbeDoes, SettledCall, SettledGoes, NoneMoreLess, NoneMoreSwap
  <2> QED
    BY <2>1, <2>3, PlacedKept
<1>2. CASE Rebooted(n)
  <2>1. At(n, "rebooted?") /\ lab' = lab /\ domains' = domains
    BY <1>2, RebootedDoes DEF RestStays, KeptStay
  <2>2. Settled(n)
    BY <2>1, IsSettled, Ranks
  <2> QED
    BY <1>2, <2>1, <2>2, RebootedDoes, SettledGoes, NoneMoreLess, PlacedKept
<1>3. CASE Stopped(n)
  <2>1. At(n, "stopped?") /\ lab' = lab /\ domains' = domains
    BY <1>3, StoppedDoes DEF RestStays, KeptStay
  <2>2. Settled(n)
    BY <2>1, IsSettled, Ranks
  <2> QED
    BY <1>3, <2>1, <2>2, StoppedDoes, SettledGoes, NoneMoreLess, PlacedKept
<1>4. CASE CallFails(n)
  <2>1. lab' = lab /\ domains' = domains
    BY <1>4, CallFailsDoes DEF KeptStay
  <2>2. \A op \in Ignored : op # "select"
    BY DEF Ignored
  <2>3. SameSettled
    BY <1>4, <2>2, CallFailsDoes, SettledCall, SettledEnd
  <2> QED
    BY <2>1, <2>3, NoneMoreLess, PlacedKept
<1>5. CASE StopTimesOut(n)
  BY <1>5, StopTimesOutDoes, SettledEnd, NoneMoreLess, PlacedKept
<1> QED
  BY <1>1, <1>2, <1>3, <1>4, <1>5

\* The start of a worker of setup_lab.py.
LEMMA PlacedTake == ASSUME Sound, Placed, NEW n \in Nodes, Take(n) PROVE Placed'
<1>1. /\ lab' = lab /\ domains' = domains /\ Left(Program(lab)) = Calls(lab)
      /\ Becomes(n, Program(lab), IF lab.kind = "libvirt" THEN NoHost ELSE Cluster, "none")
  BY TakeDoes
<1>2. CASE lab.kind = "libvirt"
  <2>1. "select" \in Left(Program(lab))
    BY <1>1, <1>2 DEF Calls
  <2> QED
    BY <1>1, <2>1, SettledLater, NoneMoreLess, PlacedKept
<1>3. CASE lab.kind # "libvirt"
  BY <1>1, <1>3 DEF Placed
<1> QED
  BY <1>2, <1>3

\* The steps that are not a worker's call.
LEMMA PlacedElse ==
    ASSUME Sound, Placed,
           StartLab \/ (\E n \in Nodes : StartVm(n)) \/ (\E h \in Hosts : HostDown(h) \/ HostUp(h))
           \/ (\E d \in domains : Boots(d) \/ Hangs(d) \/ Acts(d)) \/ UNCHANGED vars
    PROVE  Placed'
<1>1. ASSUME lab' = lab, work' = work, NoneMore PROVE Placed'
  BY <1>1, SettledStay, PlacedKept
<1>2. CASE StartLab
  BY <1>1, <1>2, StartLabDoes, NoneMoreLess
<1>3. CASE \E n \in Nodes : StartVm(n)
  BY <1>1, <1>3, StartsDo, NoneMoreLess
<1>4. CASE \E h \in Hosts : HostDown(h) \/ HostUp(h)
  BY <1>1, <1>4, HostDoes, NoneMoreLess
<1>5. CASE \E d \in domains : Boots(d) \/ Hangs(d) \/ Acts(d)
  BY <1>1, <1>5, GuestDoes, NoneMoreSwap
<1>6. CASE UNCHANGED vars
  BY <1>1, <1>6, NoneMoreLess DEF vars
<1> QED
  BY <1>2, <1>3, <1>4, <1>5, <1>6

\* Every step keeps the room of the hosts.
LEMMA PlacedStep == Sound /\ Placed /\ [Next]_vars => Placed'
<1> SUFFICES ASSUME Sound, Placed, [Next]_vars PROVE Placed'
  OBVIOUS
<1>1. ASSUME NEW n \in Nodes, Step(n) PROVE Placed'
  BY <1>1, PlacedTouch, PlacedFiles, PlacedMake, PlacedFind, PlacedReboot DEF Step
<1>2. ASSUME NEW n \in Nodes, Take(n) \/ StopTimesOut(n) PROVE Placed'
  BY <1>2, PlacedTake, PlacedReboot
<1> QED
  BY <1>1, <1>2, PlacedElse DEF Next

\* No machine runs at the start.
LEMMA InitPlaced == Init => Placed
<1> SUFFICES ASSUME Init PROVE Placed
  OBVIOUS
<1>1. \A h : OnNames(h) = {}
  BY DEF Init, OnNames, Running
<1>2. \A n \in Nodes : ~Settled(n)
  BY DEF Init, Settled, Busy, Idle
<1>3. \A h \in Hosts : Cardinality(OnNames(h)) <= Room[h]
  <2> TAKE h \in Hosts
  <2>1. Cardinality(OnNames(h)) = 0 /\ Room[h] \in Nat
    BY <1>1, FS_EmptySet, KvmVmsAssumption
  <2> QED
    BY <2>1
<1> QED
  BY <1>2, <1>3 DEF Placed

\* Without --parallel the machines that run on a host fit on it, wherever
\* select_kvm_host() places a node, whatever was rebuilt, started or left
\* behind by a rebuild that failed.
THEOREM KvmHostsFit == Spec => []Fits
<1>1. Sound /\ Placed => Fits
  <2> SUFFICES ASSUME Sound, Placed, ~lab.parallel, lab.kind = "libvirt", NEW h \in Hosts PROVE Free(h) >= 0
    BY DEF Fits
  <2>1. Cardinality(OnNames(h)) <= Room[h] /\ Room[h] \in Nat
    BY KvmVmsAssumption DEF Placed
  <2>2. Cardinality(OnNames(h)) \in Nat /\ Cardinality(OnNames(h)) = Cardinality(Running(h))
    BY NamesCounted
  <2> QED
    BY <2>1, <2>2, FreeIs
<1> QED
  BY <1>1, InitPlaced, PlacedStep, SoundAlways, PTL DEF Spec

(***************************************************************************)
(* Where the machine of a node is                                          *)
(***************************************************************************)
HostsOf(n) == {d.host : d \in {x \in domains : x.name = n}}
\* And where it runs.
OnHosts(n) == {d.host : d \in {x \in domains : x.name = n /\ x.on}}
Unmoved(n) == HostsOf(n)' = HostsOf(n) /\ OnHosts(n)' \subseteq OnHosts(n)

\* The worker's host has a machine of n.
LEMMA MineHere == ASSUME NEW n PROVE Mine(n) # {} <=> On(n) \in HostsOf(n)
BY DEF Mine, Has, HostsOf

\* Nothing moves when no machine changes.
LEMMA SameUnmoved == ASSUME domains' = domains, NEW n PROVE Unmoved(n)
BY DEF Unmoved, HostsOf, OnHosts

\* A machine changed stays on its host.
LEMMA SwapHosts ==
    ASSUME NEW d, NEW e, Swaps(d, e), Same(d, e), NEW n
    PROVE  HostsOf(n)' = HostsOf(n) /\ ((e.on => d.on) \/ d.name # n => OnHosts(n)' \subseteq OnHosts(n))
<1>1. d \in domains /\ domains' = (domains \ {d}) \cup {e} /\ e.host = d.host /\ e.name = d.name
  BY DEF Swaps, Same
<1>2. ASSUME NEW x \in domains', x.name = n PROVE x.host \in HostsOf(n)
  BY <1>1, <1>2 DEF HostsOf
<1>3. ASSUME NEW x \in domains, x.name = n PROVE \E y \in domains' : y.name = n /\ y.host = x.host
  <2>1. CASE x = d
    BY <1>1, <1>3, <2>1
  <2>2. CASE x # d
    BY <1>1, <1>3, <2>2
  <2> QED
    BY <2>1, <2>2
<1>4. HostsOf(n)' = HostsOf(n)
  BY <1>2, <1>3 DEF HostsOf
<1>5. ASSUME (e.on => d.on) \/ d.name # n, NEW x \in domains', x.name = n, x.on PROVE x.host \in OnHosts(n)
  BY <1>1, <1>5 DEF OnHosts
<1> QED
  BY <1>4, <1>5 DEF OnHosts

\* A machine changed and not switched on, or another's, leaves n where it was.
LEMMA SwapUnmoved ==
    ASSUME NEW d, NEW e, Swaps(d, e), Same(d, e), NEW n, (e.on => d.on) \/ d.name # n
    PROVE  Unmoved(n)
BY SwapHosts DEF Unmoved

\* A machine of n that is switched off was the only one there.
LEMMA SwapOff ==
    ASSUME Sound, NEW n, NEW d \in Mine(n), NEW e, Swaps(d, e), Same(d, e), e.on = FALSE
    PROVE  HostsOf(n)' = HostsOf(n) /\ OnHosts(n)' \subseteq OnHosts(n) \ {On(n)}
<1>1. HostsOf(n)' = HostsOf(n) /\ OnHosts(n)' \subseteq OnHosts(n)
  BY SwapHosts
<1>2. d \in domains /\ domains' = (domains \ {d}) \cup {e} /\ e.host = d.host /\ e.name = d.name /\ d.host = On(n) /\ d.name = n
  BY DEF Swaps, Same, Mine, Has
<1>3. ASSUME NEW x \in domains', x.name = n, x.on, x.host = On(n) PROVE FALSE
  <2>1. x # e /\ x \in domains /\ x # d
    BY <1>2, <1>3
  <2> QED
    BY <1>2, <1>3, <2>1 DEF Sound, MachinesGood, OnePerHost
<1> QED
  BY <1>1, <1>3 DEF OnHosts

\* The removal of machines of n moves no other node's.
LEMMA RemoveHosts ==
    ASSUME NEW n, NEW gone, gone \subseteq Mine(n), domains' = domains \ gone
    PROVE  /\ \A k : k # n => Unmoved(k)
           /\ HostsOf(n)' \subseteq HostsOf(n) /\ OnHosts(n)' \subseteq OnHosts(n)
           /\ gone = Mine(n) => HostsOf(n)' = HostsOf(n) \ {On(n)}
<1>1. \A d \in gone : d.name = n /\ d.host = On(n)
  BY DEF Mine, Has
<1>2. ASSUME NEW k, k # n PROVE Unmoved(k)
  <2>1. \A d : d.name = k => (d \in domains' <=> d \in domains)
    BY <1>1, <1>2
  <2> QED
    BY <2>1 DEF Unmoved, HostsOf, OnHosts
<1>3. HostsOf(n)' \subseteq HostsOf(n) /\ OnHosts(n)' \subseteq OnHosts(n)
  BY DEF HostsOf, OnHosts
<1>4. ASSUME gone = Mine(n) PROVE HostsOf(n)' = HostsOf(n) \ {On(n)}
  <2>1. \A d : d.name = n => (d \in domains' <=> (d \in domains /\ d.host # On(n)))
    BY <1>4 DEF Mine, Has
  <2> QED
    BY <2>1 DEF HostsOf
<1> QED
  BY <1>2, <1>3, <1>4

\* A machine made adds the worker's host to the hosts of n.
LEMMA MakesHosts ==
    ASSUME Sound, NEW n \in Nodes, On(n) \in Hosts, NEW e, Makes(n, e)
    PROVE  (\A k : k # n => Unmoved(k)) /\ On(n) \notin HostsOf(n) /\ HostsOf(n)' = HostsOf(n) \cup {On(n)}
<1>1. e.host = On(n) /\ e.name = n /\ domains' = domains \cup {e}
  BY MakesSound DEF Makes
<1>2. ASSUME NEW k, k # n PROVE Unmoved(k)
  <2>1. \A d : d.name = k => (d \in domains' <=> d \in domains)
    BY <1>1, <1>2
  <2> QED
    BY <2>1 DEF Unmoved, HostsOf, OnHosts
<1>3. HostsOf(n)' = HostsOf(n) \cup {On(n)}
  BY <1>1 DEF HostsOf
<1>4. On(n) \notin HostsOf(n)
  BY MineHere DEF Makes
<1> QED
  BY <1>2, <1>3, <1>4

\* The ways a worker goes on, as to its machine.
OthersStay(n) == \A k \in Nodes \ {n} : work'[k] = work[k] /\ Unmoved(k)
Ends(n) == Becomes(n, <<>>, NoHost, "failed") /\ Unmoved(n)
Reuses(n) == Unmoved(n) /\ At(n, "keep?") /\ \E h \in HostsOf(n) : Becomes(n, <<>>, h, "ok")
Moves(n) ==
    /\ HostsOf(n)' = HostsOf(n)
    /\ \E op, t : /\ Call(n, op, t) /\ op \notin Makers \cup {"locate", "select", "destroy", "undefine", "delete"}
                  /\ OnHosts(n)' \subseteq OnHosts(n) \/ op \in {"virsh-start", "start-again"}
Skips(n) == Unmoved(n) /\ \E x \in {"probe", "rebooted?", "stopped?"} : \E op, t : At(n, x) /\ Goes(n, op, t, On(n))
Locates(n) ==
    /\ Unmoved(n) /\ At(n, "locate") /\ lab.kind = "libvirt"
    /\ \/ (HostsOf(n) = {} \/ n \in missed') /\ \E t : Goes(n, "undefine", t, On(n))
       \/ \E h \in HostsOf(n) : \E t : Goes(n, "locate", t, h) /\ Left(work[n].todo) = {"locate"} \cup Left(t)
Selects(n) ==
    Unmoved(n) /\ At(n, "select") /\ lab.kind = "libvirt"
    /\ \E h \in Hosts : \E t : Goes(n, "select", t, h) /\ Left(work[n].todo) = {"select"} \cup Left(t)
Destroys(n) == HostsOf(n)' = HostsOf(n) /\ OnHosts(n)' \subseteq OnHosts(n) \ {On(n)} /\ \E t : Call(n, "destroy", t)
Removes(n) ==
    /\ HostsOf(n)' \subseteq HostsOf(n) /\ OnHosts(n)' \subseteq OnHosts(n)
    /\ \E op \in {"undefine", "delete"} : \E t :
         Call(n, op, t) /\ (op = "delete" \/ On(n) \notin OnHosts(n) => HostsOf(n)' = HostsOf(n) \ {On(n)})
Creates(n) ==
    /\ \E op \in Makers : \E t : Call(n, op, t)
    /\ \/ On(n) \notin HostsOf(n) /\ On(n) \in Hosts /\ HostsOf(n)' = HostsOf(n) \cup {On(n)}
       \/ On(n) \in HostsOf(n) /\ Unmoved(n)
Loses(n) ==
    /\ n \in missed' /\ Unmoved(n)
    /\ Becomes(n, <<>>, NoHost, "failed") \/ \E op \in {"destroy", "undefine", "delete"} : \E t : Call(n, op, t)
Goes1(n) == Ends(n) \/ Reuses(n) \/ Moves(n) \/ Skips(n) \/ Locates(n) \/ Selects(n) \/ Destroys(n) \/ Removes(n) \/ Creates(n)
            \/ Loses(n)
GoesOn(n) ==
    /\ OthersStay(n) /\ lab' = lab /\ Busy(n) /\ missed \subseteq missed' /\ missed' \subseteq missed \cup {n}
    /\ Goes1(n)

\* The other nodes after one worker's record and machines change.
LEMMA OtherWorkers ==
    ASSUME NEW n \in Nodes, NEW t, NEW h, NEW e, Becomes(n, t, h, e), \A k \in Nodes \ {n} : Unmoved(k)
    PROVE  OthersStay(n)
BY DEF OthersStay, Becomes

\* The other nodes after one worker goes on.
LEMMA OthersOfCall ==
    ASSUME NEW n \in Nodes, NEW op, NEW t, NEW h, Goes(n, op, t, h), \A k \in Nodes \ {n} : Unmoved(k)
    PROVE  OthersStay(n)
BY OtherWorkers DEF Goes

\* A call that leaves the machines alone.
LEMMA QuietMoves ==
    ASSUME Sound, NEW n \in Nodes, NEW op, NEW t, Call(n, op, t), domains' = domains, lab' = lab, missed' = missed,
           op \notin Makers \cup {"locate", "select", "destroy", "undefine", "delete"}
    PROVE  GoesOn(n)
<1>1. \A k : Unmoved(k)
  BY SameUnmoved
<1>2. OthersStay(n)
  BY <1>1, OthersOfCall DEF Call
<1>3. Moves(n)
  BY <1>1 DEF Moves, Unmoved
<1> QED
  BY <1>2, <1>3 DEF GoesOn, Goes1, Call, At

\* A call that changes a machine of the worker, or looks for it in vain.
LEMMA SwapMoves ==
    ASSUME Sound, NEW n \in Nodes, NEW op, NEW t, Call(n, op, t), lab' = lab, missed' = missed,
           op \notin Makers \cup {"locate", "select", "destroy", "undefine", "delete"},
           \/ domains' = domains
           \/ \E d \in Mine(n) : \E e : Swaps(d, e) /\ Same(d, e) /\ ((e.on => d.on) \/ op \in {"virsh-start", "start-again"})
    PROVE  GoesOn(n)
<1>1. CASE domains' = domains
  BY <1>1, QuietMoves
<1>2. CASE \E d \in Mine(n) : \E e : Swaps(d, e) /\ Same(d, e) /\ ((e.on => d.on) \/ op \in {"virsh-start", "start-again"})
  <2>0. PICK d \in Mine(n) : \E e : Swaps(d, e) /\ Same(d, e) /\ ((e.on => d.on) \/ op \in {"virsh-start", "start-again"})
    BY <1>2
  <2>1. PICK e : Swaps(d, e) /\ Same(d, e) /\ ((e.on => d.on) \/ op \in {"virsh-start", "start-again"})
    BY <2>0
  <2>2. d.name = n
    BY DEF Mine, Has
  <2>3. \A k \in Nodes \ {n} : Unmoved(k)
    BY <2>1, <2>2, SwapUnmoved
  <2>4. HostsOf(n)' = HostsOf(n) /\ ((e.on => d.on) => OnHosts(n)' \subseteq OnHosts(n))
    BY <2>1, SwapHosts
  <2>5. Moves(n)
    BY <2>1, <2>4 DEF Moves
  <2>6. OthersStay(n)
    BY <2>3, OthersOfCall DEF Call
  <2> QED
    BY <2>5, <2>6 DEF GoesOn, Goes1, Call, At
<1> QED
  BY <1>1, <1>2

\* A worker that raises ends one of the ways of GoesOn.
LEMMA FailsEnd ==
    ASSUME NEW n \in Nodes, Busy(n), Becomes(n, <<>>, NoHost, "failed"), domains' = domains, lab' = lab, missed' = missed
    PROVE  GoesOn(n)
<1>1. \A k : Unmoved(k)
  BY SameUnmoved
<1>2. OthersStay(n)
  BY <1>1, OtherWorkers
<1> QED
  BY <1>1, <1>2 DEF GoesOn, Goes1, Ends

\* The calls that make and remove no machine.
LEMMA QuietGoes ==
    ASSUME Sound, NEW n \in Nodes,
           AnswerFile(n) \/ PushFiles(n) \/ EditBoot(n) \/ AskReboot(n) \/ Listen(n) \/ Reset(n) \/ AskShutdown(n) \/ StartDomain(n)
           \/ CopyImage(n) \/ Customize(n) \/ Stage(n) \/ Seed(n) \/ Unregister(n) \/ Register(n) \/ AllocateIp(n) \/ Online(n)
    PROVE  GoesOn(n)
<1>1. CASE AnswerFile(n) \/ PushFiles(n)
  BY <1>1, QuietlyDoes, QuietMoves DEF RestStays, KeptStay, MarksStay, Makers
<1>2. CASE EditBoot(n)
  <2>1. PICK t : /\ Command1(n, "edit", t)
                 /\ domains' = domains \/ \E d \in Mine(n) : \E e : Swaps(d, e) /\ Same(d, e) /\ e.on = d.on
    BY <1>2, EditBootDoes
  <2> QED
    BY <2>1, SwapMoves DEF Command1, RestStays, KeptStay, MarksStay, Makers
<1>3. CASE AskReboot(n) \/ Listen(n) \/ Reset(n)
  <2>0. PICK op \in {"virsh-reboot", "listen", "reset", "restart"} : \E t :
             /\ Command1(n, op, t)
             /\ domains' = domains \/ \E d \in Mine(n) : \E e : Swaps(d, e) /\ Same(d, e) /\ e.on = d.on
    BY <1>3, TouchDoes
  <2>1. PICK t :
             /\ Command1(n, op, t)
             /\ domains' = domains \/ \E d \in Mine(n) : \E e : Swaps(d, e) /\ Same(d, e) /\ e.on = d.on
    BY <2>0
  <2> QED
    BY <2>1, SwapMoves DEF Command1, RestStays, KeptStay, MarksStay, Makers
<1>4. CASE AskShutdown(n)
  <2>1. PICK t : /\ Call(n, "virsh-shutdown", t) /\ lab' = lab /\ missed' = missed
                 /\ domains' = domains \/ \E d \in Mine(n) : \E e : Swaps(d, e) /\ Same(d, e) /\ e.on = d.on
    BY <1>4, AskShutdownDoes DEF KeptStay
  <2> QED
    BY <2>1, SwapMoves DEF Makers
<1>5. CASE StartDomain(n)
  <2>0. PICK op \in {"virsh-start", "start-again"} : \E t :
             /\ Command1(n, op, t)
             /\ domains' = domains \/ \E d \in Mine(n) : \E e : Swaps(d, e) /\ Same(d, e)
    BY <1>5, StartDomainDoes DEF Switched
  <2>1. PICK t :
             /\ Command1(n, op, t)
             /\ domains' = domains \/ \E d \in Mine(n) : \E e : Swaps(d, e) /\ Same(d, e)
    BY <2>0
  <2> QED
    BY <2>1, SwapMoves DEF Command1, RestStays, KeptStay, MarksStay, Makers
<1>6. ASSUME NEW op \in {"copy", "customize", "stage", "seed"}, NEW t, Command2(n, op, t), domains' = domains
      PROVE  GoesOn(n)
  BY <1>6, QuietMoves DEF Command2, KeptStay, MarksStay, Makers
<1>7. CASE CopyImage(n) \/ Customize(n) \/ Stage(n) \/ Seed(n)
  BY <1>6, <1>7, CopyImageDoes, CustomizeDoes, StageDoes, SeedDoes
<1>8. CASE Unregister(n) \/ Register(n)
  BY <1>8, UnregisterDoes, RegisterDoes, QuietMoves DEF KeptStay, MarksStay, Makers
<1>9. CASE AllocateIp(n)
  <2>1. domains' = domains /\ lab' = lab /\ missed' = missed /\ Busy(n)
    BY <1>9, AllocateIpDoes DEF KeptStay, MarksStay, At
  <2>2. Becomes(n, <<>>, NoHost, "failed") \/ \E t : Call(n, "allocate", t)
    BY <1>9, AllocateIpDoes
  <2> QED
    BY <2>1, <2>2, FailsEnd, QuietMoves DEF Makers
<1>10. CASE Online(n)
  <2>1. domains' = domains /\ lab' = lab /\ missed' = missed /\ Busy(n)
    BY <1>10, OnlineDoes DEF RestStays, KeptStay, MarksStay, At
  <2>2. Becomes(n, <<>>, NoHost, "failed") \/ \E t : Call(n, "online", t)
    BY <1>10, OnlineDoes
  <2> QED
    BY <2>1, <2>2, FailsEnd, QuietMoves DEF Makers
<1> QED
  BY <1>1, <1>2, <1>3, <1>4, <1>5, <1>7, <1>8, <1>9, <1>10

\* The calls that switch a machine off.
LEMMA DestroyGoes == ASSUME Sound, NEW n \in Nodes, Destroy(n) PROVE GoesOn(n)
<1>0. PICK op \in {"destroy", "stop", "virsh-destroy"} : \E t :
        /\ Command1(n, op, t)
        /\ (Mine(n) = {} /\ domains' = domains) \/ \E d \in Mine(n) : \E e : Switched(d, e, FALSE) /\ e.up = FALSE /\ e.pend = {}
  BY DestroyDoes
<1>1. PICK t :
        /\ Command1(n, op, t)
        /\ (Mine(n) = {} /\ domains' = domains) \/ \E d \in Mine(n) : \E e : Switched(d, e, FALSE) /\ e.up = FALSE /\ e.pend = {}
  BY <1>0
<1>2. lab' = lab /\ missed' = missed /\ Busy(n) /\ Call(n, op, t)
  BY <1>1 DEF Command1, RestStays, KeptStay, MarksStay, Call, At
<1>3. CASE op # "destroy"
  <2>1. domains' = domains \/ \E d \in Mine(n) : \E e : Swaps(d, e) /\ Same(d, e) /\ (e.on => d.on)
    BY <1>1 DEF Switched
  <2> QED
    BY <1>2, <1>3, <2>1, SwapMoves DEF Makers
<1>4. CASE op = "destroy"
  <2>1. (\A k \in Nodes \ {n} : Unmoved(k)) /\ HostsOf(n)' = HostsOf(n) /\ OnHosts(n)' \subseteq OnHosts(n) \ {On(n)}
    <3>1. CASE Mine(n) = {} /\ domains' = domains
      <4>1. \A k : Unmoved(k)
        BY <3>1, SameUnmoved
      <4>2. On(n) \notin HostsOf(n) /\ OnHosts(n) \subseteq HostsOf(n)
        BY <3>1, MineHere DEF OnHosts, HostsOf
      <4> QED
        BY <4>1, <4>2 DEF Unmoved
    <3>2. CASE \E d \in Mine(n) : \E e : Switched(d, e, FALSE)
      <4>0. PICK d \in Mine(n) : \E e : Swaps(d, e) /\ Same(d, e) /\ e.on = FALSE
        BY <3>2 DEF Switched
      <4>1. PICK e : Swaps(d, e) /\ Same(d, e) /\ e.on = FALSE
        BY <4>0
      <4>2. \A k \in Nodes : Unmoved(k)
        BY <4>1, SwapUnmoved
      <4> QED
        BY <4>1, <4>2, SwapOff
    <3> QED
      BY <1>1, <3>1, <3>2
  <2>2. OthersStay(n)
    BY <1>2, <2>1, OthersOfCall DEF Call
  <2>3. Destroys(n)
    BY <1>2, <1>4, <2>1 DEF Destroys
  <2> QED
    BY <1>2, <2>2, <2>3 DEF GoesOn, Goes1
<1> QED
  BY <1>3, <1>4

\* The calls that remove a machine.
LEMMA RemoveGoes == ASSUME Sound, NEW n \in Nodes, Undefine(n) \/ Delete(n) PROVE GoesOn(n)
<1>1. CASE Undefine(n)
  <2>1. PICK t : Command2(n, "undefine", t) /\ domains' = domains \ {d \in Mine(n) : ~d.on}
    BY <1>1, UndefineDoes
  <2> DEFINE gone == {d \in Mine(n) : ~d.on}
  <2>2. /\ \A k : k # n => Unmoved(k)
        /\ HostsOf(n)' \subseteq HostsOf(n) /\ OnHosts(n)' \subseteq OnHosts(n)
        /\ gone = Mine(n) => HostsOf(n)' = HostsOf(n) \ {On(n)}
    BY <2>1, RemoveHosts
  <2>3. On(n) \notin OnHosts(n) => gone = Mine(n)
    BY DEF OnHosts, Mine, Has
  <2>4. Removes(n)
    BY <2>1, <2>2, <2>3 DEF Removes, Command2
  <2>5. OthersStay(n)
    BY <2>1, <2>2, OthersOfCall DEF Command2, Call
  <2> QED
    BY <2>1, <2>4, <2>5 DEF GoesOn, Goes1, Command2, KeptStay, MarksStay, Call, At
<1>2. CASE Delete(n)
  <2>1. PICK t : Command1(n, "delete", t) /\ domains' = domains \ Mine(n)
    BY <1>2, DeleteDoes
  <2>2. /\ \A k : k # n => Unmoved(k)
        /\ HostsOf(n)' \subseteq HostsOf(n) /\ OnHosts(n)' \subseteq OnHosts(n)
        /\ HostsOf(n)' = HostsOf(n) \ {On(n)}
    BY <2>1, RemoveHosts
  <2>4. Removes(n)
    BY <2>1, <2>2 DEF Removes, Command1
  <2>5. OthersStay(n)
    BY <2>1, <2>2, OthersOfCall DEF Command1, Call
  <2> QED
    BY <2>1, <2>4, <2>5 DEF GoesOn, Goes1, Command1, RestStays, KeptStay, MarksStay, Call, At
<1> QED
  BY <1>1, <1>2

\* The calls that make a machine.
LEMMA CreateGoes == ASSUME Sound, NEW n \in Nodes, Install(n) \/ InstallIso(n) \/ Apply(n) PROVE GoesOn(n)
<1>0. reach \subseteq Hosts
  BY DEF Sound, StateOK
<1>1. ASSUME On(n) \in Hosts, NEW op \in Makers, NEW t, Call(n, op, t), lab' = lab, missed' = missed, NEW e, Makes(n, e)
      PROVE  GoesOn(n)
  <2>1. (\A k : k # n => Unmoved(k)) /\ On(n) \notin HostsOf(n) /\ HostsOf(n)' = HostsOf(n) \cup {On(n)}
    BY <1>1, MakesHosts
  <2>2. OthersStay(n)
    BY <1>1, <2>1, OthersOfCall DEF Call
  <2> QED
    BY <1>1, <2>1, <2>2 DEF GoesOn, Goes1, Creates, Call, At
<1>2. CASE Install(n)
  <2>1. /\ Busy(n) /\ On(n) \in Hosts /\ lab' = lab /\ missed' = missed
    BY <1>0, <1>2, InstallDoes DEF RestStays, KeptStay, MarksStay, At
  <2> QED
    BY <1>1, <1>2, <2>1, InstallDoes, FailsEnd DEF Makers
<1>3. CASE InstallIso(n)
  <2>1. /\ Busy(n) /\ On(n) \in Hosts /\ lab' = lab /\ missed' = missed
    BY <1>0, <1>3, InstallIsoDoes DEF KeptStay, MarksStay, At
  <2> QED
    BY <1>1, <1>3, <2>1, InstallIsoDoes, FailsEnd DEF Makers
<1>4. CASE Apply(n)
  <2>1. PICK t : Command1(n, "apply", t) /\ ((Mine(n) # {} /\ domains' = domains) \/ Makes(n, Domain(n, "disk", TRUE)))
    BY <1>4, ApplyDoes
  <2>2. /\ Busy(n) /\ On(n) \in Hosts /\ lab' = lab /\ missed' = missed /\ Call(n, "apply", t)
    BY <1>0, <2>1 DEF Command1, RestStays, KeptStay, MarksStay, Call, At
  <2>3. CASE Mine(n) # {} /\ domains' = domains
    <3>1. (\A k : Unmoved(k)) /\ On(n) \in HostsOf(n)
      BY <2>3, SameUnmoved, MineHere
    <3>2. OthersStay(n)
      BY <2>2, <3>1, OthersOfCall DEF Call
    <3> QED
      BY <2>2, <3>1, <3>2 DEF GoesOn, Goes1, Creates, Makers
  <2> QED
    BY <1>1, <2>1, <2>2, <2>3 DEF Makers
<1> QED
  BY <1>2, <1>3, <1>4

\* The search for an existing machine and for a host.
LEMMA FindGoes == ASSUME Sound, NEW n \in Nodes, Keep(n) \/ Locate(n) \/ Select(n) PROVE GoesOn(n)
<1>0. reach \subseteq Hosts
  BY DEF Sound, StateOK
<1>1. CASE Keep(n)
  <2>1. At(n, "keep?") /\ Busy(n) /\ domains' = domains /\ lab' = lab /\ missed' = missed /\ \A k : Unmoved(k)
    BY <1>1, KeepDoes, SameUnmoved DEF KeptStay, At
  <2>2. CASE \E t : Call(n, "keep?", t)
    BY <2>1, <2>2, QuietMoves DEF Makers
  <2>3. CASE \E h \in Hosts : Reusable(h, n) /\ Becomes(n, <<>>, h, "ok")
    <3>1. PICK h \in Hosts : Reusable(h, n) /\ Becomes(n, <<>>, h, "ok")
      BY <2>3
    <3>2. h \in HostsOf(n)
      BY <3>1 DEF Reusable, Has, HostsOf
    <3>3. OthersStay(n)
      BY <2>1, <3>1, OtherWorkers
    <3>4. Reuses(n)
      BY <2>1, <3>1, <3>2 DEF Reuses
    <3> QED
      BY <2>1, <3>3, <3>4 DEF GoesOn, Goes1
  <2> QED
    BY <1>1, <2>2, <2>3, KeepDoes
<1>2. CASE Locate(n)
  <2>1. At(n, "locate") /\ Busy(n) /\ domains' = domains /\ lab' = lab /\ \A k : Unmoved(k)
    BY <1>2, LocateDoes, SameUnmoved DEF KeptStay, At
  <2>2. lab.kind = "libvirt"
    <3>1. "locate" \in Calls(lab) /\ IsLab(lab)
      BY <2>1, Called
    <3> QED
      BY <3>1 DEF Calls, IsLab
  <2>0. PICK A \in SUBSET reach : Searched(n, A)
    BY <1>2, LocateDoes
  <2>3. missed \subseteq missed' /\ missed' \subseteq missed \cup {n}
    BY <2>0 DEF Searched
  <2>4. CASE (\A h \in A : Has(h, n) = {}) /\ \E t : Goes(n, "undefine", t, On(n))
    <3>1. HostsOf(n) = {} \/ n \in missed'
      <4> SUFFICES ASSUME n \notin missed' PROVE HostsOf(n) = {}
        OBVIOUS
      <4>1. \A h \in Hosts \ A : Has(h, n) = {}
        BY <2>0 DEF Searched
      <4>2. \A d \in domains : d.host \in Hosts
        BY DEF Sound, MachinesGood, MachineType
      <4> QED
        BY <2>4, <4>1, <4>2 DEF HostsOf, Has
    <3>2. OthersStay(n)
      BY <2>1, <2>4, OthersOfCall
    <3>3. Locates(n)
      BY <2>1, <2>2, <2>4, <3>1 DEF Locates
    <3> QED
      BY <2>1, <2>3, <3>2, <3>3 DEF GoesOn, Goes1
  <2>5. CASE \E h \in A : \E t : Has(h, n) # {} /\ Goes(n, "locate", t, h) /\ Left(work[n].todo) = {"locate"} \cup Left(t)
    <3>0. PICK h \in A : \E t : Has(h, n) # {} /\ Goes(n, "locate", t, h) /\ Left(work[n].todo) = {"locate"} \cup Left(t)
      BY <2>5
    <3>1. PICK t : Has(h, n) # {} /\ Goes(n, "locate", t, h) /\ Left(work[n].todo) = {"locate"} \cup Left(t)
      BY <3>0
    <3>2. h \in HostsOf(n)
      BY <3>1 DEF Has, HostsOf
    <3>3. OthersStay(n)
      BY <2>1, <3>1, OthersOfCall
    <3>4. Locates(n)
      BY <2>1, <2>2, <3>1, <3>2 DEF Locates
    <3> QED
      BY <2>1, <2>3, <3>3, <3>4 DEF GoesOn, Goes1
  <2> QED
    BY <2>0, <2>4, <2>5 DEF Searched
<1>3. CASE Select(n)
  <2>1. At(n, "select") /\ Busy(n) /\ domains' = domains /\ lab' = lab /\ missed' = missed /\ \A k : Unmoved(k)
    BY <1>3, SelectDoes, SameUnmoved DEF RestStays, KeptStay, MarksStay, At
  <2>2. lab.kind = "libvirt"
    <3>1. "select" \in Calls(lab) /\ IsLab(lab)
      BY <2>1, Called
    <3> QED
      BY <3>1 DEF Calls, IsLab
  <2>3. CASE Becomes(n, <<>>, NoHost, "failed")
    BY <2>1, <2>3, FailsEnd
  <2>4. CASE \E h \in Fitting : \E t : Goes(n, "select", t, h) /\ Left(work[n].todo) = {"select"} \cup Left(t)
    <3>0. PICK h \in Fitting : \E t : Goes(n, "select", t, h) /\ Left(work[n].todo) = {"select"} \cup Left(t)
      BY <2>4
    <3>1. PICK t : Goes(n, "select", t, h) /\ Left(work[n].todo) = {"select"} \cup Left(t)
      BY <3>0
    <3>2. OthersStay(n)
      BY <2>1, <3>1, OthersOfCall
    <3>3. h \in Hosts
      BY <1>0 DEF Fitting
    <3>4. Selects(n)
      BY <2>1, <2>2, <3>1, <3>3 DEF Selects
    <3> QED
      BY <2>1, <3>2, <3>4 DEF GoesOn, Goes1
  <2> QED
    BY <1>3, <2>3, <2>4, SelectDoes
<1> QED
  BY <1>1, <1>2, <1>3

\* The calls around a reboot, and those that fail.
LEMMA RebootGoes ==
    ASSUME Sound, NEW n \in Nodes, Probe(n) \/ Rebooted(n) \/ Stopped(n) \/ CallFails(n) \/ StopTimesOut(n)
    PROVE  GoesOn(n)
<1>0. ASSUME NEW x \in {"probe", "rebooted?", "stopped?"}, At(n, x), NEW op, NEW t, Goes(n, op, t, On(n)), \A k \in Nodes : Unmoved(k),
             lab' = lab, missed' = missed
      PROVE  GoesOn(n)
  <2>1. OthersStay(n)
    BY <1>0, OthersOfCall
  <2>2. Skips(n)
    BY <1>0 DEF Skips
  <2> QED
    BY <1>0, <2>1, <2>2 DEF GoesOn, Goes1, At
<1>1. CASE Probe(n)
  <2>1. At(n, "probe") /\ lab' = lab /\ missed' = missed
    BY <1>1, ProbeDoes DEF RestStays, KeptStay, MarksStay
  <2>2. CASE (\E t : Call(n, "probe", t)) /\ domains' = domains
    BY <2>1, <2>2, QuietMoves DEF Makers
  <2>3. CASE \E t, d, e : Goes(n, "reset", t, On(n)) /\ Swaps(d, e) /\ Same(d, e) /\ e.on = d.on
    <3>1. PICK t, d, e : Goes(n, "reset", t, On(n)) /\ Swaps(d, e) /\ Same(d, e) /\ e.on = d.on
      BY <2>3
    <3>2. \A k \in Nodes : Unmoved(k)
      BY <3>1, SwapUnmoved
    <3> QED
      BY <1>0, <2>1, <3>1, <3>2
  <2> QED
    BY <1>1, <2>2, <2>3, ProbeDoes
<1>2. CASE Rebooted(n)
  <2>1. PICK op, t : At(n, "rebooted?") /\ domains' = domains /\ RestStays /\ Goes(n, op, t, On(n))
    BY <1>2, RebootedDoes
  <2> QED
    BY <1>0, <2>1, SameUnmoved DEF RestStays, KeptStay, MarksStay
<1>3. CASE Stopped(n)
  <2>1. PICK op, t : At(n, "stopped?") /\ domains' = domains /\ RestStays /\ Goes(n, op, t, On(n))
    BY <1>3, StoppedDoes
  <2> QED
    BY <1>0, <2>1, SameUnmoved DEF RestStays, KeptStay, MarksStay
<1>4. CASE CallFails(n)
  <2>1. /\ domains' = domains /\ lab' = lab /\ \A k : Unmoved(k)
        /\ missed' = missed \cup {k \in {n} : At(n, "destroy") \/ At(n, "undefine") \/ At(n, "delete")}
    BY <1>4, CallFailsDoes, SameUnmoved DEF KeptStay
  <2>2. CASE (\E op \in Fatal : At(n, op)) /\ Becomes(n, <<>>, NoHost, "failed")
    <3>1. OthersStay(n)
      BY <2>1, <2>2, OtherWorkers
    <3> QED
      BY <2>1, <2>2, <3>1 DEF GoesOn, Goes1, Ends, At
  <2>3. CASE \E op \in Ignored : \E t : Call(n, op, t)
    <3>0. PICK op \in Ignored : \E t : Call(n, op, t)
      BY <2>3
    <3>1. PICK t : Call(n, op, t)
      BY <3>0
    <3>2. At(n, op) /\ work[n].todo[1] = op
      BY <3>1 DEF Call, At
    <3>3. OthersStay(n)
      BY <2>1, <3>1, OthersOfCall DEF Call
    <3>4. CASE op \in {"destroy", "undefine", "delete"}
      BY <2>1, <3>1, <3>2, <3>3, <3>4 DEF GoesOn, Goes1, Loses, At
    <3>5. CASE op \notin {"destroy", "undefine", "delete"}
      <4>1. missed' = missed
        BY <2>1, <3>2, <3>5 DEF At
      <4> QED
        BY <2>1, <3>1, <3>5, <4>1, QuietMoves DEF Ignored, Makers
    <3> QED
      BY <3>4, <3>5
  <2> QED
    BY <1>4, <2>2, <2>3, CallFailsDoes
<1>5. CASE StopTimesOut(n)
  <2>1. At(n, "stop") /\ domains' = domains /\ missed' = missed \cup {n} /\ lab' = lab /\ Becomes(n, <<>>, NoHost, "failed")
    BY <1>5, StopTimesOutDoes
  <2>2. OthersStay(n) /\ Unmoved(n)
    BY <2>1, SameUnmoved, OtherWorkers
  <2> QED
    BY <2>1, <2>2 DEF GoesOn, Goes1, Loses, At
<1> QED
  BY <1>1, <1>2, <1>3, <1>4, <1>5

\* Every call of a worker is one of the cases of GoesOn.
LEMMA StepGoes == ASSUME Sound, NEW n \in Nodes, Step(n) \/ StopTimesOut(n) PROVE GoesOn(n)
BY QuietGoes, DestroyGoes, RemoveGoes, CreateGoes, FindGoes, RebootGoes DEF Step

\* The other steps, as to the machines.
LEMMA ElseStays ==
    ASSUME Sound,
           StartLab \/ (\E n \in Nodes : StartVm(n)) \/ (\E h \in Hosts : HostDown(h) \/ HostUp(h))
           \/ (\E d \in domains : Boots(d) \/ Hangs(d) \/ Acts(d)) \/ UNCHANGED vars
    PROVE  lab' = lab /\ work' = work /\ missed' = missed /\ \A k \in Nodes : Unmoved(k)
<1>1. ASSUME domains' = domains PROVE \A k \in Nodes : Unmoved(k)
  BY <1>1, SameUnmoved
<1>2. CASE StartLab
  BY <1>1, <1>2, StartLabDoes DEF MarksStay
<1>3. CASE \E n \in Nodes : StartVm(n)
  BY <1>1, <1>3, StartsDo DEF MarksStay
<1>4. CASE \E h \in Hosts : HostDown(h) \/ HostUp(h)
  BY <1>1, <1>4, HostDoes
<1>5. CASE \E d \in domains : Boots(d) \/ Hangs(d) \/ Acts(d)
  <2>1. PICK d \in domains : Boots(d) \/ Hangs(d) \/ Acts(d)
    BY <1>5
  <2>2. PICK e : Swaps(d, e) /\ Same(d, e) /\ (e.on = d.on \/ (d.on /\ e.on = FALSE))
    BY <2>1, GuestDoes
  <2>3. \A k \in Nodes : Unmoved(k)
    BY <2>2, SwapUnmoved
  <2> QED
    BY <2>1, <2>3, GuestDoes
<1>6. CASE UNCHANGED vars
  BY <1>1, <1>6 DEF vars
<1> QED
  BY <1>2, <1>3, <1>4, <1>5, <1>6

(***************************************************************************)
(* One machine for each node                                               *)
(***************************************************************************)
Making(n) == Left(work[n].todo) \cap Makers # {}
Removing(n) == Left(work[n].todo) \cap {"undefine", "delete"} # {}
\* Harvester is one API for all its hosts.
OnCluster == lab.kind = "harvester" => \A n \in Nodes : HostsOf(n) \subseteq {Cluster} /\ (Busy(n) => On(n) = Cluster)
\* The machine of a node that was not missed: one, none before it is made, on the host that was
\* found, off before it is removed, and there once it has been made.
Known(n) ==
    /\ \A g, h \in HostsOf(n) : g = h
    /\ Making(n) /\ ~Removing(n) => HostsOf(n) = {}
    /\ Removing(n) /\ "locate" \notin Left(work[n].todo) => HostsOf(n) \subseteq {On(n)}
    /\ "undefine" \in Left(work[n].todo) /\ "destroy" \notin Left(work[n].todo) => OnHosts(n) = {}
    /\ (Busy(n) /\ ~Making(n)) \/ work[n].end = "ok" => On(n) \in HostsOf(n)
AllKnown == \A n \in Nodes \ missed : Known(n)

\* What the calls need, by the kind of lab.
LEMMA LabCalls ==
    ASSUME NEW l, IsLab(l)
    PROVE  /\ MakeOf(l) \subseteq Makers /\ MakeOf(l) # {} /\ MakeOf(l) \subseteq Calls(l)
           /\ l.kind = "libvirt" => {"locate", "destroy", "undefine", "select"} \subseteq Calls(l) /\ "delete" \notin Calls(l) /\ "stop" \notin Calls(l)
           /\ l.kind = "harvester" => {"locate", "destroy", "undefine", "select"} \cap Calls(l) = {} /\ "delete" \in Calls(l)
           /\ "unregister" \in Calls(l) /\ "register" \in Calls(l)
<1>1. MakeOf(l) \subseteq Makers /\ MakeOf(l) # {}
  BY DEF MakeOf, Makers
<1>2. CASE l.kind = "harvester"
  BY <1>1, <1>2 DEF IsLab, MakeOf, Calls
<1>3. CASE l.kind = "libvirt"
  <2>1. MakeOf(l) \subseteq CreateCalls(l.method)
    BY <1>3 DEF IsLab, MakeOf, CreateCalls
  <2>2. "delete" \notin FileCalls(l.method) /\ "delete" \notin CreateCalls(l.method) /\ "delete" \notin Rebooting
        /\ "stop" \notin FileCalls(l.method) /\ "stop" \notin CreateCalls(l.method) /\ "stop" \notin Rebooting
    BY DEF FileCalls, CreateCalls, Rebooting
  <2> QED
    BY <1>1, <1>3, <2>1, <2>2 DEF Calls
<1> QED
  BY <1>1, <1>2, <1>3 DEF IsLab

\* The calls a worker has left are calls of its run.
LEMMA LeftCalls == ASSUME Sound, NEW n \in Nodes PROVE Left(work[n].todo) \subseteq Calls(lab) /\ IsLab(lab)
                                                      /\ (Busy(n) <=> Left(work[n].todo) # {})
<1>1. Shape(lab, work[n].todo) /\ IsLab(lab)
  BY LabIsLab DEF Sound, WorkersGood, Shapes, StateOK
<1> QED
  BY <1>1, ProgramShape, BusyLeft DEF Shape, Busy

\* No call of a rank not higher than that of the next is left behind it.
LEMMA CallsGone ==
    ASSUME Sound, NEW n \in Nodes, NEW op, At(n, op), NEW o, o # op, o # "virsh-reboot", Rank(o) \in Nat, Rank(op) \in Nat,
           Rank(o) <= Rank(op), Rank(o) < 19
    PROVE  o \notin Left(work[n].todo)
<1> SUFFICES ASSUME o \in Left(work[n].todo) PROVE FALSE
  OBVIOUS
<1>1. Before(op, o)
  BY CallsAfter
<1> QED
  BY <1>1 DEF Before

\* The calls that can be left when one is at its place.
LEMMA GoneBy ==
    ASSUME Sound, NEW n \in Nodes, NEW op, At(n, op)
    PROVE  /\ op \in {"unregister", "destroy", "stop", "undefine", "delete"} => "locate" \notin Left(work[n].todo)
           /\ op = "undefine" => "destroy" \notin Left(work[n].todo)
           /\ op \in {"select"} \cup Makers \cup Rebooting /\ op # "virsh-reboot" => ~Removing(n)
           /\ op \in Rebooting /\ op # "virsh-reboot" => ~Making(n)
<1> DEFINE L == Left(work[n].todo)
<1>1. op \in {"unregister", "destroy", "stop", "undefine", "delete"} => "locate" \notin L
  BY CallsGone, Ranks
<1>2. op = "undefine" => "destroy" \notin L
  BY CallsGone, Ranks
<1>3. ASSUME op \in {"select"} \cup Makers \cup Rebooting, op # "virsh-reboot" PROVE ~Removing(n)
  <2>1. Rank(op) \in Nat /\ 5 < Rank(op) /\ op # "undefine" /\ op # "delete"
    BY <1>3, Ranks DEF Makers, Rebooting
  <2>2. "undefine" \notin L
    BY <2>1, CallsGone, Ranks
  <2>3. "delete" \notin L
    BY <2>1, CallsGone, Ranks
  <2> QED
    BY <2>2, <2>3 DEF Removing
<1>4. ASSUME op \in Rebooting, op # "virsh-reboot" PROVE ~Making(n)
  <2>1. Rank(op) = 19 /\ op \notin Makers
    BY <1>4, Ranks DEF Makers, Rebooting
  <2>2. "install" \notin L
    BY <2>1, CallsGone, Ranks
  <2>3. "install-iso" \notin L
    BY <2>1, CallsGone, Ranks
  <2>4. "apply" \notin L
    BY <2>1, CallsGone, Ranks
  <2> QED
    BY <2>2, <2>3, <2>4 DEF Making, Makers
<1> QED
  BY <1>1, <1>2, <1>3, <1>4

\* What a worker is after a call.
LEMMA GoesIs ==
    ASSUME Sound, NEW n \in Nodes, NEW op, NEW t, NEW h, Goes(n, op, t, h)
    PROVE  /\ work'[n].todo = t /\ On(n)' = h /\ work'[n].end = (IF t = <<>> THEN "ok" ELSE "none")
           /\ (t = <<>> <=> Left(t) = {}) /\ (Busy(n)' <=> t # <<>>) /\ Left(work[n].todo)' = Left(t)
           /\ Must(lab, op) \subseteq Left(t) /\ op \in Left(work[n].todo) /\ Left(t) \subseteq Left(work[n].todo)
BY BusyLeft DEF Goes, Becomes, On, Busy

\* What a worker is like that has made a call.
LEMMA CallIs ==
    ASSUME Sound, NEW n \in Nodes, NEW op, NEW t, Call(n, op, t)
    PROVE  /\ work'[n].todo = t /\ On(n)' = On(n) /\ work'[n].end = (IF t = <<>> THEN "ok" ELSE "none")
           /\ (t = <<>> <=> Left(t) = {}) /\ (Busy(n)' <=> t # <<>>) /\ Left(work[n].todo)' = Left(t)
           /\ Must(lab, op) \subseteq Left(t) /\ op \in Left(work[n].todo) /\ Left(t) \subseteq Left(work[n].todo)
           /\ Left(work[n].todo) = {op} \cup Left(t) /\ Busy(n) /\ At(n, op)
           /\ \A o \in Left(t) : Before(op, o)
<1>1. Goes(n, op, t, On(n)) /\ At(n, op) /\ Left(work[n].todo) = {op} \cup Left(t)
  BY DEF Call
<1>2. Busy(n) /\ \A o \in Left(t) : Before(op, o)
  BY <1>1 DEF At, Goes
<1> QED
  BY <1>1, <1>2, GoesIs

\* What is known of a node stays true when neither its worker nor its machines change.
LEMMA KnownOther ==
    ASSUME NEW n, Known(n), work'[n] = work[n], Unmoved(n)
    PROVE  Known(n)'
<1>1. /\ Making(n)' <=> Making(n)
      /\ Removing(n)' <=> Removing(n)
      /\ On(n)' = On(n)
      /\ Busy(n)' <=> Busy(n)
  BY DEF Making, Removing, On, Busy
<1> QED
  BY <1>1 DEF Known, Unmoved

\* A worker that has failed.
LEMMA KnownFailed ==
    ASSUME NEW n, Known(n), NEW h, Becomes(n, <<>>, h, "failed"), Unmoved(n)
    PROVE  Known(n)'
<1>1. work'[n].todo = <<>> /\ work'[n].end = "failed"
  BY DEF Becomes
<1>2. ~Making(n)' /\ ~Removing(n)' /\ Left(work[n].todo)' = {} /\ ~Busy(n)'
  BY <1>1, NoCalls DEF Making, Removing, Busy
<1> QED
  BY <1>1, <1>2 DEF Known, Unmoved

\* A machine that is reused is where the worker says it is.
LEMMA KnownReused ==
    ASSUME NEW n, Known(n), Reuses(n)
    PROVE  Known(n)'
<1>1. PICK h \in HostsOf(n) : work'[n].todo = <<>> /\ work'[n].end = "ok" /\ work'[n].host = h
  BY DEF Becomes, Reuses
<1>2. ~Making(n)' /\ ~Removing(n)' /\ Left(work[n].todo)' = {} /\ ~Busy(n)' /\ On(n)' = h
  BY <1>1, NoCalls DEF Making, Removing, Busy, On
<1> QED
  BY <1>1, <1>2 DEF Known, Unmoved, Reuses

\* A call that neither makes nor removes a machine.
LEMMA KnownMoves ==
    ASSUME Sound, NEW n \in Nodes, Known(n), Moves(n)
    PROVE  Known(n)'
<1>1. PICK op, t : /\ Call(n, op, t) /\ op \notin Makers \cup {"locate", "select", "destroy", "undefine", "delete"}
                   /\ OnHosts(n)' \subseteq OnHosts(n) \/ op \in {"virsh-start", "start-again"}
  BY DEF Moves
<1>2. /\ work'[n].todo = t /\ On(n)' = On(n) /\ work'[n].end = (IF t = <<>> THEN "ok" ELSE "none")
      /\ (t = <<>> <=> Left(t) = {}) /\ (Busy(n)' <=> t # <<>>) /\ Left(work[n].todo)' = Left(t)
      /\ Left(work[n].todo) = {op} \cup Left(t) /\ HostsOf(n)' = HostsOf(n) /\ Busy(n) /\ At(n, op)
  BY <1>1, CallIs DEF Moves
<1>3. (Making(n)' <=> Making(n)) /\ (Removing(n)' <=> Removing(n))
  <2>1. Making(n)' <=> Making(n)
    BY <1>1, <1>2 DEF Making
  <2>2. Removing(n)' <=> Removing(n)
    BY <1>1, <1>2 DEF Removing
  <2> QED
    BY <2>1, <2>2
<1>4. op \in {"virsh-start", "start-again"} => ~Removing(n)
  <2>1. op = "virsh-start" => "undefine" \notin Left(work[n].todo)
    <3> SUFFICES ASSUME At(n, "virsh-start") PROVE "undefine" \notin Left(work[n].todo)
      BY <1>2
    <3> QED
      BY CallsGone, Ranks
  <2>2. op = "virsh-start" => "delete" \notin Left(work[n].todo)
    <3> SUFFICES ASSUME At(n, "virsh-start") PROVE "delete" \notin Left(work[n].todo)
      BY <1>2
    <3> QED
      BY CallsGone, Ranks
  <2>3. op = "start-again" => ~Removing(n)
    BY <1>2, GoneBy DEF Rebooting
  <2> QED
    BY <2>1, <2>2, <2>3 DEF Removing
<1>5. "undefine" \in Left(t) /\ "destroy" \notin Left(t) => OnHosts(n)' = {}
  <2> SUFFICES ASSUME "undefine" \in Left(t), "destroy" \notin Left(t) PROVE OnHosts(n)' = {}
    OBVIOUS
  <2>1. OnHosts(n) = {}
    BY <1>1, <1>2 DEF Known
  <2>2. Removing(n)
    BY <1>2 DEF Removing
  <2> QED
    BY <1>1, <1>4, <2>1, <2>2
<1>6. (Busy(n)' /\ ~Making(n)') \/ work'[n].end = "ok" => On(n)' \in HostsOf(n)'
  <2>1. work'[n].end = "ok" => ~Making(n)
    BY <1>2, <1>3 DEF Making
  <2> QED
    BY <1>2, <1>3, <2>1 DEF Known
<1>7. Removing(n)' /\ "locate" \notin Left(t) => HostsOf(n)' \subseteq {On(n)'}
  BY <1>1, <1>2, <1>3 DEF Known
<1> QED
  BY <1>2, <1>3, <1>5, <1>6, <1>7 DEF Known

\* After a step of a reboot: the machine has been made.
LEMMA KnownSkips ==
    ASSUME Sound, NEW n \in Nodes, Known(n), Skips(n)
    PROVE  Known(n)'
<1>0. PICK x \in {"probe", "rebooted?", "stopped?"} : \E op, t : At(n, x) /\ Goes(n, op, t, On(n))
  BY DEF Skips
<1>1. PICK op, t : At(n, x) /\ Goes(n, op, t, On(n))
  BY <1>0
<1>2. /\ work'[n].todo = t /\ On(n)' = On(n) /\ work'[n].end = (IF t = <<>> THEN "ok" ELSE "none")
      /\ Left(work[n].todo)' = Left(t) /\ Left(t) \subseteq Left(work[n].todo) /\ HostsOf(n)' = HostsOf(n) /\ Busy(n)
  BY <1>1, GoesIs DEF Skips, Unmoved, At
<1>3. ~Making(n) /\ ~Removing(n)
  BY <1>1, GoneBy DEF Rebooting
<1>4. ~Making(n)' /\ ~Removing(n)' /\ "undefine" \notin Left(t) /\ On(n) \in HostsOf(n)
  BY <1>2, <1>3 DEF Making, Removing, Known
<1> QED
  BY <1>2, <1>4 DEF Known

\* The search found the host of the only machine, or there is none.
LEMMA KnownLocates ==
    ASSUME Sound, NEW n \in Nodes, Known(n), Locates(n), n \notin missed'
    PROVE  Known(n)'
<1>0. At(n, "locate") /\ lab.kind = "libvirt" /\ HostsOf(n)' = HostsOf(n) /\ OnHosts(n)' \subseteq OnHosts(n)
  BY DEF Locates, Unmoved
<1>1. CASE HostsOf(n) = {} /\ \E t : Goes(n, "undefine", t, On(n))
  <2>1. PICK t : Goes(n, "undefine", t, On(n))
    BY <1>1
  <2>2. /\ Left(work[n].todo)' = Left(t) /\ work'[n].end = (IF t = <<>> THEN "ok" ELSE "none") /\ (t = <<>> <=> Left(t) = {})
        /\ Must(lab, "undefine") \subseteq Left(t)
    BY <2>1, GoesIs
  <2>3. IsLab(lab) /\ Must(lab, "undefine") = MakeOf(lab) \cup FilesOf(lab) \cup SelectOf(lab) \cup {"register"}
    BY LeftCalls, Musts
  <2>4. Making(n)' /\ work'[n].end = "none"
    BY <2>2, <2>3, LabCalls DEF Making
  <2>5. OnHosts(n)' = {}
    BY <1>0, <1>1 DEF OnHosts, HostsOf
  <2> QED
    BY <1>0, <1>1, <2>4, <2>5 DEF Known
<1>2. CASE \E h \in HostsOf(n) : \E t : Goes(n, "locate", t, h) /\ Left(work[n].todo) = {"locate"} \cup Left(t)
  <2>0. PICK h \in HostsOf(n) : \E t : Goes(n, "locate", t, h) /\ Left(work[n].todo) = {"locate"} \cup Left(t)
    BY <1>2
  <2>1. PICK t : Goes(n, "locate", t, h) /\ Left(work[n].todo) = {"locate"} \cup Left(t)
    BY <2>0
  <2>2. /\ Left(work[n].todo)' = Left(t) /\ work'[n].end = (IF t = <<>> THEN "ok" ELSE "none") /\ (t = <<>> <=> Left(t) = {})
        /\ Must(lab, "locate") \subseteq Left(t) /\ On(n)' = h
    BY <2>1, GoesIs
  <2>3. /\ IsLab(lab) /\ MakeOf(lab) \subseteq Must(lab, "locate") /\ "undefine" \in Must(lab, "locate")
    BY <1>0, LeftCalls, Musts DEF RemoveOf
  <2>4. Making(n)' /\ Removing(n)' /\ work'[n].end = "none"
    BY <2>2, <2>3, LabCalls DEF Making, Removing
  <2>5. HostsOf(n)' \subseteq {h}
    BY <1>0, <2>1 DEF Known
  <2>6. "destroy" \notin Left(t) => OnHosts(n)' = {}
    BY <1>0, <2>1, <2>2, <2>3 DEF Known
  <2> QED
    BY <1>0, <2>2, <2>4, <2>5, <2>6 DEF Known
<1> QED
  BY <1>1, <1>2 DEF Locates

\* The host is chosen after the old machine has gone.
LEMMA KnownSelects ==
    ASSUME Sound, NEW n \in Nodes, Known(n), Selects(n)
    PROVE  Known(n)'
<1>0. PICK h \in Hosts : \E t : Goes(n, "select", t, h) /\ Left(work[n].todo) = {"select"} \cup Left(t)
  BY DEF Selects
<1>1. PICK t : Goes(n, "select", t, h) /\ Left(work[n].todo) = {"select"} \cup Left(t)
  BY <1>0
<1>2. /\ Left(work[n].todo)' = Left(t) /\ work'[n].end = (IF t = <<>> THEN "ok" ELSE "none") /\ (t = <<>> <=> Left(t) = {})
      /\ Must(lab, "select") \subseteq Left(t) /\ At(n, "select") /\ HostsOf(n)' = HostsOf(n)
  BY <1>1, GoesIs DEF Selects, Unmoved
<1>3. IsLab(lab) /\ MakeOf(lab) \subseteq Must(lab, "select")
  BY LeftCalls, Musts
<1>4. Making(n)' /\ work'[n].end = "none" /\ Making(n)
  BY <1>1, <1>2, <1>3, LabCalls DEF Making
<1>5. ~Removing(n)
  BY <1>2, GoneBy
<1>6. ~Removing(n)' /\ "undefine" \notin Left(t)
  BY <1>1, <1>2, <1>5 DEF Removing
<1> QED
  BY <1>2, <1>4, <1>5, <1>6 DEF Known

\* The machine to be removed is off.
LEMMA KnownDestroys ==
    ASSUME Sound, NEW n \in Nodes, Known(n), Destroys(n)
    PROVE  Known(n)'
<1>1. PICK t : Call(n, "destroy", t)
  BY DEF Destroys
<1>2. /\ Left(work[n].todo)' = Left(t) /\ work'[n].end = (IF t = <<>> THEN "ok" ELSE "none") /\ (t = <<>> <=> Left(t) = {})
      /\ Must(lab, "destroy") \subseteq Left(t) /\ At(n, "destroy") /\ HostsOf(n)' = HostsOf(n) /\ On(n)' = On(n)
      /\ Left(work[n].todo) = {"destroy"} \cup Left(t) /\ OnHosts(n)' \subseteq OnHosts(n) \ {On(n)}
  BY <1>1, GoesIs DEF Destroys, Call
<1>3. IsLab(lab) /\ MakeOf(lab) \subseteq Must(lab, "destroy") /\ RemoveOf(lab) \in Must(lab, "destroy")
  BY LeftCalls, Musts
<1>4. Making(n)' /\ Removing(n)' /\ work'[n].end = "none" /\ Removing(n)
  BY <1>2, <1>3, LabCalls DEF Making, Removing, RemoveOf
<1>5. "locate" \notin Left(work[n].todo)
  BY <1>2, GoneBy
<1>6. HostsOf(n) \subseteq {On(n)}
  BY <1>4, <1>5 DEF Known
<1>7. OnHosts(n)' = {}
  BY <1>2, <1>6 DEF OnHosts, HostsOf
<1> QED
  BY <1>2, <1>4, <1>6, <1>7 DEF Known

\* After the removal there is no machine of the node.
LEMMA KnownRemoves ==
    ASSUME Sound, NEW n \in Nodes, Known(n), Removes(n)
    PROVE  Known(n)' /\ HostsOf(n)' = {} /\ work'[n].end = "none"
<1>0. PICK op \in {"undefine", "delete"} : \E t :
         Call(n, op, t) /\ (op = "delete" \/ On(n) \notin OnHosts(n) => HostsOf(n)' = HostsOf(n) \ {On(n)})
  BY DEF Removes
<1>1. PICK t :
         Call(n, op, t) /\ (op = "delete" \/ On(n) \notin OnHosts(n) => HostsOf(n)' = HostsOf(n) \ {On(n)})
  BY <1>0
<1>2. /\ Left(work[n].todo)' = Left(t) /\ work'[n].end = (IF t = <<>> THEN "ok" ELSE "none") /\ (t = <<>> <=> Left(t) = {})
      /\ Must(lab, op) \subseteq Left(t) /\ At(n, op) /\ op \in Left(work[n].todo)
  BY <1>1, CallIs
<1>3. IsLab(lab) /\ MakeOf(lab) \subseteq Must(lab, op)
  BY LeftCalls, Musts
<1>4. Making(n)' /\ work'[n].end = "none" /\ Removing(n)
  BY <1>2, <1>3, LabCalls DEF Making, Removing
<1>5. "locate" \notin Left(work[n].todo) /\ (op = "undefine" => "destroy" \notin Left(work[n].todo))
  BY <1>2, GoneBy
<1>6. HostsOf(n) \subseteq {On(n)} /\ (op = "undefine" => OnHosts(n) = {})
  BY <1>2, <1>4, <1>5 DEF Known
<1>7. HostsOf(n)' = {}
  BY <1>1, <1>6
<1>8. OnHosts(n)' = {}
  BY <1>7 DEF OnHosts, HostsOf
<1> QED
  BY <1>4, <1>7, <1>8 DEF Known

\* The machine made is the only one of its node.
LEMMA KnownCreates ==
    ASSUME Sound, NEW n \in Nodes, Known(n), Creates(n)
    PROVE  Known(n)' /\ HostsOf(n) = {} /\ On(n) \in Hosts /\ HostsOf(n)' = {On(n)} /\ work'[n].end = "none"
<1>0. PICK op \in Makers : \E t : Call(n, op, t)
  BY DEF Creates
<1>1. PICK t : Call(n, op, t)
  BY <1>0
<1>2. /\ Left(work[n].todo)' = Left(t) /\ work'[n].end = (IF t = <<>> THEN "ok" ELSE "none") /\ (t = <<>> <=> Left(t) = {})
      /\ Must(lab, op) \subseteq Left(t) /\ At(n, op) /\ op \in Left(work[n].todo) /\ Left(t) \subseteq Left(work[n].todo)
      /\ On(n)' = On(n)
  BY <1>1, CallIs
<1>3. "register" \in Must(lab, op)
  <2>1. Must(lab, op) = {"register"} \cup (IF lab.method = "autoinstall" THEN {"edit"} ELSE {})
                          \cup (IF lab.method \in {"autoinstall", "location"} THEN {"virsh-start"} ELSE {})
    BY <1>0, Musts
  <2> QED
    BY <2>1
<1>4. Making(n) /\ ~Removing(n) /\ work'[n].end = "none"
  <2>1. "virsh-reboot" \notin Makers /\ op \in Makers
    BY <1>0 DEF Makers
  <2>2. ~Removing(n)
    BY <1>2, <2>1, GoneBy
  <2> QED
    BY <1>2, <1>3, <2>2 DEF Making
<1>5. HostsOf(n) = {} /\ On(n) \in Hosts /\ HostsOf(n)' = {On(n)}
  BY <1>4 DEF Known, Creates
<1>6. ~Removing(n)' /\ "undefine" \notin Left(t)
  BY <1>2, <1>4 DEF Removing
<1>7. ~Making(n)'
  <2>1. Rank(op) = 13 /\ \A o \in Makers : Rank(o) = 13 /\ o # "virsh-reboot"
    BY Ranks DEF Makers
  <2>2. \A o \in Left(t) : Before(op, o)
    BY <1>1 DEF Call, Goes
  <2>3. \A o \in Makers : o \notin Left(t)
    BY <2>1, <2>2 DEF Before
  <2> QED
    BY <1>2, <2>3 DEF Making
<1> QED
  BY <1>2, <1>4, <1>5, <1>6, <1>7 DEF Known

\* The cluster of Harvester has all its machines.
LEMMA ClusterGoes ==
    ASSUME Sound, OnCluster, NEW n \in Nodes, GoesOn(n)
    PROVE  OnCluster'
<1> SUFFICES ASSUME lab.kind = "harvester" PROVE \A k \in Nodes : HostsOf(k)' \subseteq {Cluster} /\ (Busy(k)' => On(k)' = Cluster)
  BY DEF OnCluster, GoesOn
<1>1. \A k \in Nodes : HostsOf(k) \subseteq {Cluster} /\ (Busy(k) => On(k) = Cluster)
  BY DEF OnCluster
<1>2. ASSUME NEW k \in Nodes \ {n} PROVE HostsOf(k)' \subseteq {Cluster} /\ (Busy(k)' => On(k)' = Cluster)
  BY <1>1 DEF GoesOn, OthersStay, Unmoved, Busy, On
<1>3. Busy(n) /\ On(n) = Cluster /\ HostsOf(n) \subseteq {Cluster}
  BY <1>1 DEF GoesOn
<1> DEFINE There == HostsOf(n)' \subseteq {Cluster} /\ (Busy(n)' => On(n)' = Cluster)
<1>4. ASSUME NEW op, NEW t, Goes(n, op, t, On(n)), HostsOf(n)' \subseteq {Cluster} PROVE There
  BY <1>3, <1>4, GoesIs
<1>5. ASSUME NEW h, NEW e, Becomes(n, <<>>, h, e), HostsOf(n)' \subseteq {Cluster} PROVE There
  BY <1>5 DEF Becomes, Busy
<1>6. ASSUME NEW op, NEW t, Call(n, op, t), HostsOf(n)' \subseteq {Cluster} PROVE There
  BY <1>4, <1>6 DEF Call
<1> HIDE DEF There
<1>7. ASSUME Ends(n) \/ Reuses(n) PROVE There
  <2>1. HostsOf(n)' \subseteq {Cluster}
    BY <1>3, <1>7 DEF Ends, Reuses, Unmoved
  <2> QED
    BY <1>5, <1>7, <2>1 DEF Ends, Reuses
<1>8. ASSUME Moves(n) \/ Skips(n) \/ Destroys(n) \/ Removes(n) PROVE There
  <2>1. HostsOf(n)' \subseteq {Cluster}
    BY <1>3, <1>8 DEF Moves, Skips, Destroys, Removes, Unmoved
  <2> QED
    BY <1>4, <1>6, <1>8, <2>1 DEF Moves, Skips, Destroys, Removes
<1>9. ASSUME Locates(n) \/ Selects(n) PROVE There
  BY <1>9 DEF Locates, Selects
<1>10. ASSUME Creates(n) \/ Loses(n) PROVE There
  <2>1. HostsOf(n)' \subseteq {Cluster}
    BY <1>3, <1>10 DEF Creates, Loses, Unmoved
  <2> QED
    BY <1>5, <1>6, <1>10, <2>1 DEF Creates, Loses
<1>11. HostsOf(n)' \subseteq {Cluster} /\ (Busy(n)' => On(n)' = Cluster)
  BY <1>7, <1>8, <1>9, <1>10 DEF GoesOn, Goes1, There
<1> QED
  BY <1>2, <1>11

\* A worker's call keeps what is known of every node.
LEMMA KnownGoes ==
    ASSUME Sound, AllKnown, NEW n \in Nodes, GoesOn(n)
    PROVE  AllKnown'
<1> SUFFICES ASSUME NEW k \in Nodes, k \notin missed' PROVE Known(k)'
  BY DEF AllKnown
<1>1. Known(k)
  BY DEF AllKnown, GoesOn
<1>2. CASE k # n
  BY <1>1, <1>2, KnownOther DEF GoesOn, OthersStay
<1>3. CASE k = n
  <2>1. Known(n) /\ n \notin missed' /\ ~Loses(n)
    BY <1>1, <1>3 DEF Loses
  <2>2. CASE Ends(n)
    BY <1>3, <2>1, <2>2, KnownFailed DEF Ends
  <2>3. CASE Reuses(n)
    BY <1>3, <2>1, <2>3, KnownReused
  <2>4. CASE Moves(n) \/ Skips(n)
    BY <1>3, <2>1, <2>4, KnownMoves, KnownSkips
  <2>5. CASE Locates(n) \/ Selects(n)
    BY <1>3, <2>1, <2>5, KnownLocates, KnownSelects
  <2>6. CASE Destroys(n) \/ Removes(n) \/ Creates(n)
    BY <1>3, <2>1, <2>6, KnownDestroys, KnownRemoves, KnownCreates
  <2> QED
    BY <2>1, <2>2, <2>3, <2>4, <2>5, <2>6 DEF GoesOn, Goes1
<1> QED
  BY <1>2, <1>3

\* A worker that begins.
LEMMA TakeGoes ==
    ASSUME Sound, OnCluster, AllKnown, NEW n \in Nodes, Take(n)
    PROVE  /\ OnCluster' /\ AllKnown' /\ lab' = lab /\ missed' = missed /\ (\A k \in Nodes : Unmoved(k))
           /\ (\A k \in Nodes \ {n} : work'[k] = work[k]) /\ work'[n].end = "none"
<1>1. /\ lab' = lab /\ domains' = domains /\ missed' = missed /\ Program(lab) # <<>> /\ Left(Program(lab)) = Calls(lab)
      /\ Becomes(n, Program(lab), IF lab.kind = "libvirt" THEN NoHost ELSE Cluster, "none")
  BY TakeDoes DEF MarksStay
<1>2. \A k \in Nodes : Unmoved(k)
  BY <1>1, SameUnmoved
<1>3. /\ \A k \in Nodes \ {n} : work'[k] = work[k]
      /\ work'[n].end = "none" /\ Left(work[n].todo)' = Calls(lab) /\ Busy(n)'
      /\ On(n)' = IF lab.kind = "libvirt" THEN NoHost ELSE Cluster
  BY <1>1 DEF Becomes, Busy, On
<1>4. IsLab(lab)
  BY LabIsLab DEF Sound, StateOK
<1>5. Making(n)' /\ Removing(n)'
  BY <1>3, <1>4, LabCalls DEF Making, Removing, IsLab
<1>6. ASSUME n \notin missed PROVE Known(n)'
  <2>1. Known(n) /\ HostsOf(n)' = HostsOf(n)
    BY <1>2, <1>6 DEF AllKnown, Unmoved
  <2>2. CASE lab.kind = "libvirt"
    BY <1>3, <1>4, <1>5, <2>1, <2>2, LabCalls DEF Known
  <2>3. CASE lab.kind = "harvester"
    BY <1>3, <1>4, <1>5, <2>1, <2>3, LabCalls DEF Known, OnCluster
  <2> QED
    BY <1>4, <2>2, <2>3 DEF IsLab
<1>7. AllKnown'
  <2> SUFFICES ASSUME NEW k \in Nodes \ missed, k # n PROVE Known(k)'
    BY <1>1, <1>6 DEF AllKnown
  <2> QED
    BY <1>2, <1>3, KnownOther DEF AllKnown
<1>8. OnCluster'
  BY <1>1, <1>2, <1>3 DEF OnCluster, Unmoved, Busy, On
<1> QED
  BY <1>1, <1>2, <1>3, <1>7, <1>8

\* A step that moves no machine and leaves the workers alone.
LEMMA ElseKnown ==
    ASSUME OnCluster, AllKnown, lab' = lab, work' = work, missed' = missed, \A k \in Nodes : Unmoved(k)
    PROVE  OnCluster' /\ AllKnown'
<1>1. OnCluster'
  BY DEF OnCluster, Unmoved, Busy, On
<1>2. AllKnown'
  BY KnownOther DEF AllKnown
<1> QED
  BY <1>1, <1>2

\* Nothing is left to know at the start.
LEMMA InitKnown == Init => OnCluster /\ AllKnown
<1> SUFFICES ASSUME Init PROVE OnCluster /\ AllKnown
  OBVIOUS
<1>1. \A n \in Nodes : /\ HostsOf(n) = {} /\ OnHosts(n) = {} /\ ~Busy(n) /\ work[n].todo = <<>> /\ work[n].end = "none"
  BY DEF Init, HostsOf, OnHosts, Busy, Idle
<1>2. \A n \in Nodes : ~Making(n) /\ ~Removing(n) /\ "undefine" \notin Left(work[n].todo)
  BY <1>1, NoCalls DEF Making, Removing
<1> QED
  BY <1>1, <1>2 DEF OnCluster, AllKnown, Known

\* Every step keeps what is known of the nodes.
LEMMA KnownStep == Sound /\ OnCluster /\ AllKnown /\ [Next]_vars => OnCluster' /\ AllKnown'
<1> SUFFICES ASSUME Sound, OnCluster, AllKnown, [Next]_vars PROVE OnCluster' /\ AllKnown'
  OBVIOUS
<1>1. ASSUME NEW n \in Nodes, Step(n) \/ StopTimesOut(n) PROVE OnCluster' /\ AllKnown'
  BY <1>1, StepGoes, ClusterGoes, KnownGoes
<1>2. ASSUME NEW n \in Nodes, Take(n) PROVE OnCluster' /\ AllKnown'
  BY <1>2, TakeGoes
<1>3. CASE StartLab \/ (\E n \in Nodes : StartVm(n)) \/ (\E h \in Hosts : HostDown(h) \/ HostUp(h))
           \/ (\E d \in domains : Boots(d) \/ Hangs(d) \/ Acts(d)) \/ UNCHANGED vars
  BY <1>3, ElseStays, ElseKnown
<1> QED
  BY <1>1, <1>2, <1>3 DEF Next

\* The invariant of the registry: a node whose removal was not missed has one machine at most.
LEMMA KnownAlways == Spec => [](Sound /\ OnCluster /\ AllKnown)
<1> QED
  BY InitSound, SoundStep, InitKnown, KnownStep, PTL DEF Spec

(***************************************************************************)
(* The machines are a registry of machines                                 *)
(***************************************************************************)
Machines(n) == IF n \in missed THEN {} ELSE {<<d.host, n>> : d \in {x \in domains : x.name = n}}
Told(n) == IF n \in missed \/ work[n].end # "ok" THEN <<>> ELSE <<On(n), n>>
RegistryAt == [n \in Nodes |-> Machines(n)]
RegistryTold == [n \in Nodes |-> Told(n)]
Only(n) == \A k \in Nodes \ {n} : Machines(k)' = Machines(k) /\ Told(k)' = Told(k)

\* The mapped state, node by node.
LEMMA RegistryIs ==
    /\ [n \in Nodes |-> IF n \in missed THEN {} ELSE {<<d.host, n>> : d \in {x \in domains : x.name = n}}] = RegistryAt
    /\ [n \in Nodes |-> IF n \in missed \/ work[n].end # "ok" THEN <<>> ELSE <<On(n), n>>] = RegistryTold
BY DEF RegistryAt, RegistryTold, Machines, Told

\* The machines of a node as the registry sees them.
LEMMA MachinesAre == ASSUME NEW n PROVE Machines(n) = IF n \in missed THEN {} ELSE {<<h, n>> : h \in HostsOf(n)}
<1>1. {<<d.host, n>> : d \in {x \in domains : x.name = n}} = {<<h, n>> : h \in HostsOf(n)}
  BY DEF HostsOf
<1> QED
  BY <1>1 DEF Machines

\* destroy_vm(), or a machine that was missed.
LEMMA DestroyIs ==
    ASSUME NEW n \in Nodes, Only(n), Machines(n)' = {}, Told(n)' = <<>>
    PROVE  Registry!Destroy(n)
<1>1. RegistryAt' = [RegistryAt EXCEPT ![n] = {}]
  BY DEF RegistryAt, Only
<1>2. RegistryTold' = [RegistryTold EXCEPT ![n] = <<>>]
  BY DEF RegistryTold, Only
<1> QED
  BY <1>1, <1>2, RegistryIs DEF Registry!Destroy, RegistryAt, RegistryTold, Machines, Told

\* create_vm(): the first machine of a node.
LEMMA MakeIs ==
    ASSUME NEW n \in Nodes, Only(n), Machines(n) = {}, NEW h \in Hosts, Machines(n)' = {<<h, n>>}, Told(n)' = Told(n)
    PROVE  Registry!Make(n)
<1> DEFINE i == <<h, n>>
<1>1. RegistryAt' = [RegistryAt EXCEPT ![n] = {i}] /\ RegistryAt[n] = {} /\ i \in RegistryAt'[n]
  BY DEF RegistryAt, Only
<1>2. RegistryTold' = RegistryTold
  BY DEF RegistryTold, Only
<1>3. i \in Hosts \X Nodes
  OBVIOUS
<1>4. ASSUME NEW y \in Nodes PROVE i \notin RegistryAt[y]
  BY <1>1 DEF RegistryAt, Machines
<1> HIDE DEF i
<1> QED
  BY <1>1, <1>2, <1>3, <1>4, RegistryIs DEF Registry!Make, RegistryAt, RegistryTold, Machines, Told

\* provision_vm() has ended, with the machine that the node has.
LEMMA TellIs ==
    ASSUME NEW n \in Nodes, Only(n), Machines(n)' = Machines(n), NEW i \in Machines(n), Told(n)' = i
    PROVE  Registry!Tell(n)
<1>1. RegistryAt' = RegistryAt /\ RegistryAt[n] = Machines(n)
  BY DEF RegistryAt, Only
<1>2. RegistryTold' = [RegistryTold EXCEPT ![n] = i]
  BY DEF RegistryTold, Only
<1> QED
  BY <1>1, <1>2, RegistryIs DEF Registry!Tell, RegistryAt, RegistryTold, Machines, Told

\* A removal, or a machine lost from sight, is a Forget of the registry.
LEMMA ForgetIs ==
    ASSUME NEW n \in Nodes, Only(n), Machines(n)' = Machines(n), Told(n)' = <<>>
    PROVE  Registry!Forget(n)
<1>1. RegistryAt' = RegistryAt
  BY DEF RegistryAt, Only
<1>2. RegistryTold' = [RegistryTold EXCEPT ![n] = <<>>]
  BY DEF RegistryTold, Only
<1> QED
  BY <1>1, <1>2, RegistryIs DEF Registry!Forget, RegistryAt, RegistryTold, Machines, Told

\* Nothing that the registry sees.
RegistryStays == \A k \in Nodes : Machines(k)' = Machines(k) /\ Told(k)' = Told(k)

\* A step that changes neither table of the registry.
LEMMA StayIs == RegistryStays => UNCHANGED Registry!regvars
<1> SUFFICES ASSUME RegistryStays PROVE UNCHANGED Registry!regvars
  OBVIOUS
<1>1. RegistryAt' = RegistryAt /\ RegistryTold' = RegistryTold
  BY DEF RegistryAt, RegistryTold, RegistryStays
<1> QED
  BY <1>1, RegistryIs DEF Registry!regvars, RegistryAt, RegistryTold, Machines, Told

\* The registry's view of a node that did not move.
LEMMA MachinesStay ==
    ASSUME NEW k, HostsOf(k)' = HostsOf(k), k \in missed' <=> k \in missed
    PROVE  Machines(k)' = Machines(k)
<1>1. Machines(k) = IF k \in missed THEN {} ELSE {<<h, k>> : h \in HostsOf(k)}
  BY MachinesAre
<1>2. {<<d.host, k>> : d \in {x \in domains' : x.name = k}} = {<<h, k>> : h \in HostsOf(k)'}
  BY DEF HostsOf
<1> QED
  BY <1>1, <1>2 DEF Machines

\* The registry's view of a node after a step.
LEMMA MachinesNext ==
    ASSUME NEW k
    PROVE  Machines(k)' = IF k \in missed' THEN {} ELSE {<<h, k>> : h \in HostsOf(k)'}
<1>1. {<<d.host, k>> : d \in {x \in domains' : x.name = k}} = {<<h, k>> : h \in HostsOf(k)'}
  BY DEF HostsOf
<1> QED
  BY <1>1 DEF Machines

\* One worker's call changes the registry for its own node alone.
LEMMA OnlyOne == ASSUME NEW n \in Nodes, GoesOn(n) PROVE Only(n)
<1> SUFFICES ASSUME NEW k \in Nodes \ {n} PROVE Machines(k)' = Machines(k) /\ Told(k)' = Told(k)
  BY DEF Only
<1>1. HostsOf(k)' = HostsOf(k) /\ work'[k] = work[k] /\ (k \in missed' <=> k \in missed)
  BY DEF GoesOn, OthersStay, Unmoved
<1> QED
  BY <1>1, MachinesStay DEF Told, On

\* The machine of the node is where it was, and its worker goes on or ends there.
LEMMA EndsThere ==
    ASSUME NEW n \in Nodes, Only(n), n \notin missed, n \notin missed', HostsOf(n)' = HostsOf(n), Told(n) = <<>>,
           work'[n].end = "ok" => On(n)' \in HostsOf(n)
    PROVE  Registry!Tell(n) \/ UNCHANGED Registry!regvars
<1>1. Machines(n)' = Machines(n) /\ Machines(n) = {<<h, n>> : h \in HostsOf(n)}
  BY MachinesStay, MachinesAre
<1>2. CASE work'[n].end = "ok"
  <2>1. Told(n)' = <<On(n)', n>> /\ <<On(n)', n>> \in Machines(n)
    BY <1>1, <1>2 DEF Told
  <2> QED
    BY <1>1, <2>1, TellIs
<1>3. CASE work'[n].end # "ok"
  <2>1. Told(n)' = <<>>
    BY <1>3 DEF Told
  <2>2. RegistryStays
    BY <1>1, <2>1 DEF Only, RegistryStays
  <2> QED
    BY <2>2, StayIs
<1> QED
  BY <1>2, <1>3

RegistryStep == Registry!Next \/ UNCHANGED Registry!regvars

\* A worker's call is a step of the registry.
LEMMA GoesRegistry ==
    ASSUME Sound, AllKnown, NEW n \in Nodes, GoesOn(n)
    PROVE  RegistryStep
<1>0. Only(n) /\ Busy(n) /\ work[n].end = "none" /\ Told(n) = <<>>
  <2>1. work[n].end = "none"
    BY DEF GoesOn, Sound, WorkersGood, Turns
  <2> QED
    BY <2>1, OnlyOne DEF Told, GoesOn
<1>1. CASE n \in missed'
  <2>1. Machines(n)' = {} /\ Told(n)' = <<>>
    BY <1>1 DEF Machines, Told
  <2> QED
    BY <1>0, <2>1, DestroyIs DEF RegistryStep, Registry!Next
<1>2. CASE n \notin missed'
  <2>0. n \notin missed /\ Known(n) /\ ~Loses(n)
    BY <1>2 DEF GoesOn, AllKnown, Loses
  <2>1. Known(n)'
    BY <1>2, KnownGoes DEF AllKnown
  <2>2. CASE Ends(n) \/ Reuses(n) \/ Moves(n) \/ Skips(n) \/ Locates(n) \/ Selects(n) \/ Destroys(n)
    <3>1. HostsOf(n)' = HostsOf(n)
      BY <2>2 DEF Ends, Reuses, Moves, Skips, Locates, Selects, Destroys, Unmoved
    <3>2. work'[n].end = "ok" => On(n)' \in HostsOf(n)
      BY <2>1, <3>1 DEF Known
    <3> QED
      BY <1>0, <1>2, <2>0, <3>1, <3>2, EndsThere DEF RegistryStep, Registry!Next
  <2>3. CASE Removes(n)
    <3>1. HostsOf(n)' = {} /\ work'[n].end = "none"
      BY <2>0, <2>3, KnownRemoves
    <3>2. Machines(n)' = {} /\ Told(n)' = <<>>
      BY <3>1, MachinesNext DEF Told
    <3> QED
      BY <1>0, <3>2, DestroyIs DEF RegistryStep, Registry!Next
  <2>4. CASE Creates(n)
    <3>1. HostsOf(n) = {} /\ On(n) \in Hosts /\ HostsOf(n)' = {On(n)} /\ work'[n].end = "none"
      BY <2>0, <2>4, KnownCreates
    <3>2. Machines(n) = {}
      BY <3>1, MachinesAre
    <3>3. Machines(n)' = {<<On(n), n>>}
      BY <1>2, <3>1, MachinesNext
    <3>4. Told(n)' = Told(n)
      BY <1>0, <3>1 DEF Told
    <3> QED
      BY <1>0, <3>1, <3>2, <3>3, <3>4, MakeIs DEF RegistryStep, Registry!Next
  <2> QED
    BY <2>0, <2>2, <2>3, <2>4 DEF GoesOn, Goes1
<1> QED
  BY <1>1, <1>2

\* Every step is a step of the registry or leaves it alone.
LEMMA RegistryNext == Sound /\ OnCluster /\ AllKnown /\ [Next]_vars => RegistryStep
<1> SUFFICES ASSUME Sound, OnCluster, AllKnown, [Next]_vars PROVE RegistryStep
  OBVIOUS
<1>1. ASSUME NEW n \in Nodes, Step(n) \/ StopTimesOut(n) PROVE RegistryStep
  BY <1>1, StepGoes, GoesRegistry
<1>2. ASSUME NEW n \in Nodes, Take(n) PROVE RegistryStep
  <2>1. /\ missed' = missed /\ (\A k \in Nodes : Unmoved(k))
        /\ (\A k \in Nodes \ {n} : work'[k] = work[k]) /\ work'[n].end = "none"
    BY <1>2, TakeGoes
  <2>2. \A k \in Nodes : Machines(k)' = Machines(k)
    BY <2>1, MachinesStay DEF Unmoved
  <2>3. Only(n) /\ Told(n)' = <<>>
    BY <2>1, <2>2 DEF Only, Told, On
  <2> QED
    BY <2>2, <2>3, ForgetIs DEF RegistryStep, Registry!Next
<1>3. CASE StartLab \/ (\E n \in Nodes : StartVm(n)) \/ (\E h \in Hosts : HostDown(h) \/ HostUp(h))
           \/ (\E d \in domains : Boots(d) \/ Hangs(d) \/ Acts(d)) \/ UNCHANGED vars
  <2>1. missed' = missed /\ work' = work /\ (\A k \in Nodes : Unmoved(k))
    BY <1>3, ElseStays
  <2>2. \A k \in Nodes : Machines(k)' = Machines(k)
    BY <2>1, MachinesStay DEF Unmoved
  <2>3. RegistryStays
    BY <2>1, <2>2 DEF RegistryStays, Told, On
  <2> QED
    BY <2>3, StayIs DEF RegistryStep
<1> QED
  BY <1>1, <1>2, <1>3 DEF Next

\* The registry starts empty.
LEMMA RegistryInit == Init => Registry!Init
<1> SUFFICES ASSUME Init PROVE Registry!Init
  OBVIOUS
<1>1. ASSUME NEW n \in Nodes PROVE Machines(n) = {} /\ Told(n) = <<>>
  <2>1. domains = {} /\ work[n].end # "ok"
    BY DEF Init, Idle
  <2> QED
    BY <2>1 DEF Machines, Told
<1>2. RegistryAt = [n \in Nodes |-> {}] /\ RegistryTold = [n \in Nodes |-> <<>>]
  BY <1>1 DEF RegistryAt, RegistryTold
<1> QED
  BY <1>2, RegistryIs DEF Registry!Init

\* What LibvirtBackend and HarvesterBackend, the placement of nodes and provision_vm() do is what a
\* registry of machines allows (MachineRegistry): whatever fails in create_vm(), delete_vm() and
\* locate_kvm_host(), a node whose machine destroy_vm() could get at has one machine at most, and
\* provision_vm() ends with that one.
THEOREM KvmIsRegistry == Spec => IsRegistry
<1>1. Registry!Init /\ [][RegistryStep]_Registry!regvars => IsRegistry
  BY PTL DEF IsRegistry, Registry!Spec, RegistryStep
<1> QED
  BY <1>1, RegistryInit, RegistryNext, KnownAlways, PTL DEF Spec, RegistryStep, IsRegistry, Registry!Spec

(***************************************************************************)
(* A machine comes up with its own configuration                           *)
(***************************************************************************)
\* The disk or the seed that is being made for the machine of n is its own.
Staged(n) ==
    Making(n) /\ lab.kind = "libvirt" /\ On(n) \in Hosts =>
      /\ lab.method = "virt_customize" =>
           /\ "customize" \in Left(work[n].todo) /\ "copy" \notin Left(work[n].todo) => disks[<<On(n), n>>] # "none"
           /\ "customize" \notin Left(work[n].todo) => disks[<<On(n), n>>] = n
      /\ lab.method = "cloud-init" /\ ~lab.parallel =>
           /\ "seed" \in Left(work[n].todo) /\ "stage" \notin Left(work[n].todo) => tmp[On(n)] = n
           /\ "seed" \notin Left(work[n].todo) => isos[<<On(n), n>>] = n
AllStaged == \A n \in Nodes : Staged(n)

FileMakers == {"copy", "customize", "stage", "seed"}
Searches == {"locate", "undefine", "select"}

\* The files of the other nodes are left alone; but for /tmp/user-data, which is everybody's.
OthersFiles(n) ==
    \A k \in Nodes \ {n} : work'[k] = work[k] /\ \A h \in Hosts : disks'[<<h, k>>] = disks[<<h, k>>] /\ isos'[<<h, k>>] = isos[<<h, k>>]
\* What a worker can do to its files.
Filed(n) ==
    \/ ~Making(n)'
    \/ FilesStay /\ \E op, t : Call(n, op, t) /\ op \notin FileMakers \cup Searches
    \/ \E op \in Searches : \E t, h : Goes(n, op, t, h)
    \/ disks' = [disks EXCEPT ![<<On(n), n>>] = "image"] /\ tmp' = tmp /\ isos' = isos /\ \E t : Call(n, "copy", t)
    \/ disks' = [disks EXCEPT ![<<On(n), n>>] = IF @ = "none" THEN @ ELSE n] /\ tmp' = tmp /\ isos' = isos /\ \E t : Call(n, "customize", t)
    \/ tmp' = [tmp EXCEPT ![On(n)] = n] /\ disks' = disks /\ isos' = isos /\ \E t : Call(n, "stage", t)
    \/ isos' = [isos EXCEPT ![<<On(n), n>>] = tmp[On(n)]] /\ disks' = disks /\ tmp' = tmp /\ \E t : Call(n, "seed", t)
FilesGo(n) == lab' = lab /\ Busy(n) /\ OthersFiles(n) /\ Filed(n)
\* The machines there are then.
Seeded(n) ==
    \A e \in domains' : \/ e \in domains
                        \/ \E d \in domains : Same(d, e)
                        \/ e.name = n /\ e.seed = SeedOf(n) /\ On(n) \in Hosts /\ \E op \in Makers : At(n, op)

\* After the machine has been made.
LEMMA Made ==
    ASSUME Sound, NEW n \in Nodes, NEW op \in Makers, NEW t, Call(n, op, t)
    PROVE  ~Making(n)'
<1>1. Left(work[n].todo)' = Left(t) /\ \A o \in Left(t) : Before(op, o)
  BY GoesIs DEF Call, Goes
<1>2. Rank(op) = 13 /\ \A o \in Makers : Rank(o) = 13 /\ o # "virsh-reboot"
  BY Ranks DEF Makers
<1>3. \A o \in Makers : o \notin Left(t)
  BY <1>1, <1>2 DEF Before
<1> QED
  BY <1>1, <1>3 DEF Making

\* A worker that ended is making nothing.
LEMMA EndedMade ==
    ASSUME NEW n, NEW h, NEW e, Becomes(n, <<>>, h, e)
    PROVE  ~Making(n)'
BY NoCalls DEF Becomes, Making

\* A worker past the making of its machine stays past it.
LEMMA FewerMade ==
    ASSUME Sound, NEW n \in Nodes, ~Making(n), NEW op, NEW t, NEW h, Goes(n, op, t, h)
    PROVE  ~Making(n)'
BY GoesIs DEF Making

\* A worker's files are still its own after another worker's call.
LEMMA StagedOther ==
    ASSUME Sound, NEW n \in Nodes, lab' = lab, Busy(n), OthersFiles(n), NEW k \in Nodes \ {n}, Staged(k)
    PROVE  Staged(k)'
<1>1. /\ Making(k)' <=> Making(k)
      /\ On(k)' = On(k) /\ Left(work[k].todo)' = Left(work[k].todo)
  BY DEF OthersFiles, Making, On
<1>2. \A h \in Hosts : disks'[<<h, k>>] = disks[<<h, k>>] /\ isos'[<<h, k>>] = isos[<<h, k>>]
  BY DEF OthersFiles
<1>3. Making(k) => lab.parallel
  <2>1. Making(k) => Busy(k)
    BY LeftCalls DEF Making
  <2> QED
    BY <2>1 DEF Sound, WorkersGood, Turns
<1> QED
  BY <1>1, <1>2, <1>3 DEF Staged

\* A worker's own call leaves the files as the calls ahead need them.
LEMMA StagedOwn ==
    ASSUME Sound, NEW n \in Nodes, lab' = lab, Filed(n), Staged(n)
    PROVE  Staged(n)'
<1> DEFINE L == Left(work[n].todo)
<1>0. ASSUME NEW op, NEW t, Call(n, op, t)
      PROVE  /\ L' = Left(t) /\ On(n)' = On(n) /\ L = {op} \cup Left(t) /\ (Making(n)' => Making(n)) /\ At(n, op)
  <2>1. L' = Left(t) /\ On(n)' = On(n) /\ L = {op} \cup Left(t) /\ At(n, op)
    BY <1>0, GoesIs DEF Call
  <2> QED
    BY <2>1 DEF Making
<1> SUFFICES ASSUME Making(n)', lab.kind = "libvirt", On(n)' \in Hosts
             PROVE  /\ lab.method = "virt_customize" =>
                         /\ "customize" \in L' /\ "copy" \notin L' => disks'[<<On(n)', n>>] # "none"
                         /\ "customize" \notin L' => disks'[<<On(n)', n>>] = n
                    /\ lab.method = "cloud-init" /\ ~lab.parallel =>
                         /\ "seed" \in L' /\ "stage" \notin L' => tmp'[On(n)'] = n
                         /\ "seed" \notin L' => isos'[<<On(n)', n>>] = n
  BY DEF Staged
<1>T. /\ disks \in [Hosts \X Nodes -> Nodes \cup {"none", "image"}]
      /\ tmp \in [Hosts -> Nodes \cup {"nobody"}] /\ isos \in [Hosts \X Nodes -> Nodes \cup {"nobody"}]
  BY DEF Sound, StateOK
<1>1. CASE FilesStay /\ \E op, t : Call(n, op, t) /\ op \notin FileMakers \cup Searches
  <2>1. PICK op, t : Call(n, op, t) /\ op \notin FileMakers \cup Searches
    BY <1>1
  <2>2. /\ L' = Left(t) /\ On(n)' = On(n) /\ L = {op} \cup Left(t) /\ Making(n) /\ disks' = disks /\ tmp' = tmp /\ isos' = isos
        /\ \A o \in FileMakers : o \in L' <=> o \in L
    BY <1>0, <1>1, <2>1 DEF FilesStay
  <2> HIDE DEF L
  <2>3. /\ "customize" \in L' <=> "customize" \in L
        /\ "copy" \in L' <=> "copy" \in L
        /\ "seed" \in L' <=> "seed" \in L
        /\ "stage" \in L' <=> "stage" \in L
    BY <2>2 DEF FileMakers
  <2> QED
    BY <2>2, <2>3 DEF Staged, L
<1>2. CASE \E op \in Searches : \E t, h : Goes(n, op, t, h)
  <2>0. PICK op \in Searches : \E t, h : Goes(n, op, t, h)
    BY <1>2
  <2>1. PICK t, h : Goes(n, op, t, h)
    BY <2>0
  <2>2. Must(lab, op) \subseteq Left(t) /\ L' = Left(t)
    BY <2>1, GoesIs
  <2>3. FilesOf(lab) \subseteq Must(lab, op)
    BY Musts DEF Searches
  <2>4. /\ lab.method = "virt_customize" => {"copy", "customize"} \subseteq L'
        /\ lab.method = "cloud-init" => {"stage", "seed"} \subseteq L'
    BY <2>2, <2>3 DEF FilesOf
  <2> QED
    BY <2>4
<1>3. CASE disks' = [disks EXCEPT ![<<On(n), n>>] = "image"] /\ tmp' = tmp /\ isos' = isos /\ \E t : Call(n, "copy", t)
  <2>1. PICK t : Call(n, "copy", t)
    BY <1>3
  <2>2. /\ L' = Left(t) /\ On(n)' = On(n) /\ L = {"copy"} \cup Left(t) /\ Making(n)
    BY <1>0, <2>1
  <2>3. disks'[<<On(n), n>>] = "image"
    BY <1>3, <1>T, <2>2
  <2>4. lab.method = "virt_customize" => "customize" \in L'
    <3>1. Must(lab, "copy") \subseteq Left(t)
      BY <2>1, GoesIs DEF Call
    <3> QED
      BY <2>2, <3>1, Musts
  <2> HIDE DEF L
  <2> QED
    BY <1>3, <2>2, <2>3, <2>4 DEF Staged, L
<1>4. CASE disks' = [disks EXCEPT ![<<On(n), n>>] = IF @ = "none" THEN @ ELSE n] /\ tmp' = tmp /\ isos' = isos /\ \E t : Call(n, "customize", t)
  <2>1. PICK t : Call(n, "customize", t)
    BY <1>4
  <2>2. /\ L' = Left(t) /\ On(n)' = On(n) /\ L = {"customize"} \cup Left(t) /\ Making(n) /\ At(n, "customize")
    BY <1>0, <2>1
  <2>3. "copy" \notin L /\ "customize" \notin L'
    <3>1. "copy" \notin L
      BY <2>2, CallsGone, Ranks
    <3>2. \A o \in Left(t) : Before("customize", o)
      BY <2>1 DEF Call, Goes
    <3>3. ~Before("customize", "customize")
      BY Ranks DEF Before
    <3> QED
      BY <2>2, <3>1, <3>2, <3>3
  <2>4. lab.method = "virt_customize" => disks[<<On(n), n>>] # "none"
    BY <2>2, <2>3 DEF Staged
  <2>5. lab.method = "virt_customize" => disks'[<<On(n), n>>] = n
    BY <1>4, <1>T, <2>2, <2>4
  <2> HIDE DEF L
  <2> QED
    BY <1>4, <2>2, <2>3, <2>5 DEF Staged, L
<1>5. CASE tmp' = [tmp EXCEPT ![On(n)] = n] /\ disks' = disks /\ isos' = isos /\ \E t : Call(n, "stage", t)
  <2>1. PICK t : Call(n, "stage", t)
    BY <1>5
  <2>2. /\ L' = Left(t) /\ On(n)' = On(n) /\ L = {"stage"} \cup Left(t) /\ Making(n)
    BY <1>0, <2>1
  <2>3. tmp'[On(n)] = n
    BY <1>5, <1>T, <2>2
  <2> HIDE DEF L
  <2> QED
    BY <1>5, <2>2, <2>3 DEF Staged, L
<1>6. CASE isos' = [isos EXCEPT ![<<On(n), n>>] = tmp[On(n)]] /\ disks' = disks /\ tmp' = tmp /\ \E t : Call(n, "seed", t)
  <2>1. PICK t : Call(n, "seed", t)
    BY <1>6
  <2>2. /\ L' = Left(t) /\ On(n)' = On(n) /\ L = {"seed"} \cup Left(t) /\ Making(n) /\ At(n, "seed")
    BY <1>0, <2>1
  <2>3. "stage" \notin L /\ "seed" \notin L'
    <3>1. "stage" \notin L
      BY <2>2, CallsGone, Ranks
    <3>2. \A o \in Left(t) : Before("seed", o)
      BY <2>1 DEF Call, Goes
    <3>3. ~Before("seed", "seed")
      BY Ranks DEF Before
    <3> QED
      BY <2>2, <3>1, <3>2, <3>3
  <2>4. lab.method = "cloud-init" /\ ~lab.parallel => tmp[On(n)] = n
    BY <2>2, <2>3 DEF Staged
  <2>5. lab.method = "cloud-init" /\ ~lab.parallel => isos'[<<On(n), n>>] = n
    BY <1>6, <1>T, <2>2, <2>4
  <2> HIDE DEF L
  <2> QED
    BY <1>6, <2>2, <2>3, <2>5 DEF Staged, L
<1> QED
  BY <1>1, <1>2, <1>3, <1>4, <1>5, <1>6 DEF Filed

\* Every worker's files after one worker's call.
LEMMA StagedGoes ==
    ASSUME Sound, AllStaged, NEW n \in Nodes, FilesGo(n)
    PROVE  AllStaged'
BY StagedOwn, StagedOther DEF AllStaged, FilesGo

\* What the machine is given is its own.
LEMMA SeedIsOwn ==
    ASSUME Sound, NEW n \in Nodes, Staged(n), OwnFiles, On(n) \in Hosts, NEW op \in Makers, At(n, op)
    PROVE  SeedOf(n) = n
<1> DEFINE L == Left(work[n].todo)
<1>1. op \in L
  BY FollowsCall
<1>2. Making(n)
  BY <1>1 DEF Making
<1>3. Rank(op) = 13
  BY Ranks DEF Makers
<1>4. "customize" \notin L
  BY <1>3, CallsGone, Ranks DEF Makers
<1>5. "seed" \notin L
  BY <1>3, CallsGone, Ranks DEF Makers
<1>6. IsLab(lab)
  BY LeftCalls
<1>7. CASE lab.kind = "harvester"
  BY <1>6, <1>7 DEF SeedOf, IsLab
<1>8. CASE lab.kind = "libvirt"
  <2>1. lab.method = "virt_customize" => disks[<<On(n), n>>] = n
    BY <1>2, <1>4, <1>8 DEF Staged
  <2>2. lab.method = "cloud-init" => isos[<<On(n), n>>] = n
    BY <1>2, <1>5, <1>8 DEF Staged, OwnFiles
  <2> QED
    BY <1>8, <2>1, <2>2 DEF SeedOf
<1> QED
  BY <1>6, <1>7, <1>8 DEF IsLab

\* Every machine's configuration after one worker's call.
LEMMA SeedsGo ==
    ASSUME Sound, AllStaged, OwnConfiguration, NEW n \in Nodes, lab' = lab, Seeded(n)
    PROVE  OwnConfiguration'
<1> SUFFICES ASSUME OwnFiles, NEW e \in domains' PROVE e.seed = e.name
  BY DEF OwnConfiguration, OwnFiles
<1>1. \A d \in domains : d.seed = d.name
  BY DEF OwnConfiguration
<1>2. CASE \E d \in domains : Same(d, e)
  BY <1>1, <1>2 DEF Same
<1>3. CASE e.name = n /\ e.seed = SeedOf(n) /\ On(n) \in Hosts /\ \E op \in Makers : At(n, op)
  BY <1>3, SeedIsOwn DEF AllStaged
<1> QED
  BY <1>1, <1>2, <1>3 DEF Seeded

\* A machine removed brings no other configuration.
LEMMA SameSeeded == ASSUME domains' \subseteq domains, NEW n PROVE Seeded(n)
BY DEF Seeded

\* A machine changed keeps its configuration.
LEMMA SwapSeeded == ASSUME NEW d, NEW e, Swaps(d, e), Same(d, e), NEW n PROVE Seeded(n)
BY DEF Seeded, Swaps

\* A machine made is given the configuration its worker wrote.
LEMMA MakesSeeded ==
    ASSUME Sound, NEW n \in Nodes, On(n) \in Hosts, NEW e, Makes(n, e), NEW op \in Makers, At(n, op)
    PROVE  Seeded(n)
<1>1. e.name = n /\ e.seed = SeedOf(n)
  BY NewMachine
<1>2. domains' = domains \cup {e}
  BY DEF Makes
<1> QED
  BY <1>1, <1>2 DEF Seeded

\* A worker writes the files of its own node on its own host.
LEMMA OthersFilesOf ==
    ASSUME Sound, NEW n \in Nodes, NEW t, NEW h, NEW e, Becomes(n, t, h, e),
           disks' = disks \/ (\E x : disks' = [disks EXCEPT ![<<On(n), n>>] = x]),
           isos' = isos \/ (\E x : isos' = [isos EXCEPT ![<<On(n), n>>] = x])
    PROVE  OthersFiles(n)
<1>1. ASSUME NEW k \in Nodes \ {n}, NEW g \in Hosts
      PROVE  disks'[<<g, k>>] = disks[<<g, k>>] /\ isos'[<<g, k>>] = isos[<<g, k>>]
  <2>1. <<g, k>> # <<On(n), n>> /\ <<g, k>> \in Hosts \X Nodes
    BY <1>1
  <2>2. disks \in [Hosts \X Nodes -> Nodes \cup {"none", "image"}] /\ isos \in [Hosts \X Nodes -> Nodes \cup {"nobody"}]
    BY DEF Sound, StateOK
  <2>3. disks'[<<g, k>>] = disks[<<g, k>>]
    BY <2>1, <2>2
  <2>4. isos'[<<g, k>>] = isos[<<g, k>>]
    BY <2>1, <2>2
  <2> QED
    BY <2>3, <2>4
<1> QED
  BY <1>1 DEF OthersFiles, Becomes

\* A call that writes no file.
LEMMA QuietFiles ==
    ASSUME Sound, NEW n \in Nodes, NEW op, NEW t, Call(n, op, t), FilesStay, lab' = lab, op \notin FileMakers \cup Searches
    PROVE  FilesGo(n)
<1>1. OthersFiles(n)
  BY OthersFilesOf DEF Call, Goes, FilesStay
<1>2. Filed(n)
  BY DEF Filed
<1> QED
  BY <1>1, <1>2 DEF FilesGo, Call, At

\* A worker that ends writes no file.
LEMMA EndFiles ==
    ASSUME Sound, NEW n \in Nodes, NEW h, NEW e, Becomes(n, <<>>, h, e), FilesStay, lab' = lab, Busy(n)
    PROVE  FilesGo(n)
<1>1. OthersFiles(n)
  BY OthersFilesOf DEF FilesStay
<1>2. ~Making(n)'
  BY EndedMade
<1> QED
  BY <1>1, <1>2 DEF FilesGo, Filed

\* The calls before the first file.
LEMMA SearchFiles ==
    ASSUME Sound, NEW n \in Nodes, NEW op \in Searches, NEW t, NEW h, Goes(n, op, t, h), lab' = lab, Busy(n), tmp' = tmp, isos' = isos,
           disks' = disks \/ (\E x : disks' = [disks EXCEPT ![<<On(n), n>>] = x])
    PROVE  FilesGo(n)
<1>1. OthersFiles(n)
  BY OthersFilesOf DEF Goes
<1>2. Filed(n)
  BY DEF Filed
<1> QED
  BY <1>1, <1>2 DEF FilesGo

\* The steps of a reboot: the machine has been made.
LEMMA SkipFiles ==
    ASSUME Sound, NEW n \in Nodes, NEW x \in {"probe", "rebooted?", "stopped?"}, At(n, x), NEW op, NEW t, Goes(n, op, t, On(n)),
           FilesStay, lab' = lab
    PROVE  FilesGo(n)
<1>1. OthersFiles(n)
  BY OthersFilesOf DEF Goes, FilesStay
<1>2. ~Making(n)
  BY GoneBy DEF Rebooting
<1>3. ~Making(n)'
  BY <1>2, FewerMade
<1> QED
  BY <1>1, <1>3 DEF FilesGo, Filed, At

\* The calls that write the files.
LEMMA FilesMade ==
    ASSUME Sound, NEW n \in Nodes, CopyImage(n) \/ Customize(n) \/ Stage(n) \/ Seed(n)
    PROVE  FilesGo(n) /\ Seeded(n)
<1>1. ASSUME NEW op, NEW t, Command2(n, op, t) PROVE lab' = lab /\ Busy(n) /\ \E s, h, e : Becomes(n, s, h, e)
  BY <1>1 DEF Command2, KeptStay, Call, Goes, At
<1>2. CASE CopyImage(n)
  <2>1. PICK t : /\ Command2(n, "copy", t) /\ domains' = domains /\ tmp' = tmp /\ isos' = isos
                 /\ disks' = [disks EXCEPT ![<<On(n), n>>] = "image"]
    BY <1>2, CopyImageDoes
  <2>2. OthersFiles(n)
    BY <1>1, <2>1, OthersFilesOf
  <2>3. Filed(n)
    BY <2>1 DEF Filed, Command2
  <2> QED
    BY <1>1, <2>1, <2>2, <2>3, SameSeeded DEF FilesGo
<1>3. CASE Customize(n)
  <2>1. PICK t : /\ Command2(n, "customize", t) /\ domains' = domains /\ tmp' = tmp /\ isos' = isos
                 /\ disks' = [disks EXCEPT ![<<On(n), n>>] = IF @ = "none" THEN @ ELSE n]
    BY <1>3, CustomizeDoes
  <2>2. OthersFiles(n)
    <3>1. \E x : disks' = [disks EXCEPT ![<<On(n), n>>] = x]
      BY <2>1
    <3> QED
      BY <1>1, <2>1, <3>1, OthersFilesOf
  <2>3. Filed(n)
    BY <2>1 DEF Filed, Command2
  <2> QED
    BY <1>1, <2>1, <2>2, <2>3, SameSeeded DEF FilesGo
<1>4. CASE Stage(n)
  <2>1. PICK t : /\ Command2(n, "stage", t) /\ domains' = domains /\ disks' = disks /\ isos' = isos
                 /\ tmp' = [tmp EXCEPT ![On(n)] = n]
    BY <1>4, StageDoes
  <2>2. OthersFiles(n)
    BY <1>1, <2>1, OthersFilesOf
  <2>3. Filed(n)
    BY <2>1 DEF Filed, Command2
  <2> QED
    BY <1>1, <2>1, <2>2, <2>3, SameSeeded DEF FilesGo
<1>5. CASE Seed(n)
  <2>1. PICK t : /\ Command2(n, "seed", t) /\ domains' = domains /\ disks' = disks /\ tmp' = tmp
                 /\ isos' = [isos EXCEPT ![<<On(n), n>>] = tmp[On(n)]]
    BY <1>5, SeedDoes
  <2>2. OthersFiles(n)
    BY <1>1, <2>1, OthersFilesOf
  <2>3. Filed(n)
    BY <2>1 DEF Filed, Command2
  <2> QED
    BY <1>1, <2>1, <2>2, <2>3, SameSeeded DEF FilesGo
<1> QED
  BY <1>2, <1>3, <1>4, <1>5

\* The calls that write no file and make no machine.
LEMMA QuietStaged ==
    ASSUME Sound, NEW n \in Nodes,
           AnswerFile(n) \/ PushFiles(n) \/ EditBoot(n) \/ AskReboot(n) \/ Listen(n) \/ Reset(n) \/ AskShutdown(n) \/ StartDomain(n)
           \/ Unregister(n) \/ Register(n) \/ AllocateIp(n) \/ Online(n) \/ Destroy(n) \/ Delete(n)
    PROVE  FilesGo(n) /\ Seeded(n)
<1> USE DEF FileMakers, Searches
<1>0. ASSUME \E d, e : Swaps(d, e) /\ Same(d, e) PROVE Seeded(n)
  BY <1>0, SwapSeeded
<1>1. CASE AnswerFile(n) \/ PushFiles(n)
  BY <1>1, QuietlyDoes, QuietFiles, SameSeeded DEF RestStays, KeptStay
<1>2. CASE EditBoot(n)
  <2>1. PICK t : /\ Command1(n, "edit", t)
                 /\ domains' = domains \/ \E d \in Mine(n) : \E e : Swaps(d, e) /\ Same(d, e)
    BY <1>2, EditBootDoes
  <2> QED
    BY <1>0, <2>1, QuietFiles, SameSeeded DEF Command1, RestStays, KeptStay
<1>3. CASE AskReboot(n) \/ Listen(n) \/ Reset(n)
  <2>0. PICK op \in {"virsh-reboot", "listen", "reset", "restart"} : \E t :
             /\ Command1(n, op, t)
             /\ domains' = domains \/ \E d \in Mine(n) : \E e : Swaps(d, e) /\ Same(d, e)
    BY <1>3, TouchDoes
  <2>1. PICK t :
             /\ Command1(n, op, t)
             /\ domains' = domains \/ \E d \in Mine(n) : \E e : Swaps(d, e) /\ Same(d, e)
    BY <2>0
  <2> QED
    BY <1>0, <2>1, QuietFiles, SameSeeded DEF Command1, RestStays, KeptStay
<1>4. CASE AskShutdown(n)
  <2>1. PICK t : /\ Call(n, "virsh-shutdown", t) /\ lab' = lab /\ FilesStay
                 /\ domains' = domains \/ \E d \in Mine(n) : \E e : Swaps(d, e) /\ Same(d, e)
    BY <1>4, AskShutdownDoes DEF KeptStay
  <2> QED
    BY <1>0, <2>1, QuietFiles, SameSeeded
<1>5. CASE StartDomain(n)
  <2>0. PICK op \in {"virsh-start", "start-again"} : \E t :
             /\ Command1(n, op, t)
             /\ domains' = domains \/ \E d \in Mine(n) : \E e : Swaps(d, e) /\ Same(d, e)
    BY <1>5, StartDomainDoes DEF Switched
  <2>1. PICK t :
             /\ Command1(n, op, t)
             /\ domains' = domains \/ \E d \in Mine(n) : \E e : Swaps(d, e) /\ Same(d, e)
    BY <2>0
  <2> QED
    BY <1>0, <2>1, QuietFiles, SameSeeded DEF Command1, RestStays, KeptStay
<1>6. CASE Unregister(n) \/ Register(n)
  BY <1>6, UnregisterDoes, RegisterDoes, QuietFiles, SameSeeded DEF KeptStay
<1>7. CASE AllocateIp(n)
  <2>1. domains' = domains /\ lab' = lab /\ FilesStay /\ Busy(n)
    BY <1>7, AllocateIpDoes DEF KeptStay, At
  <2>2. Becomes(n, <<>>, NoHost, "failed") \/ \E t : Call(n, "allocate", t)
    BY <1>7, AllocateIpDoes
  <2> QED
    BY <2>1, <2>2, EndFiles, QuietFiles, SameSeeded
<1>8. CASE Online(n)
  <2>1. domains' = domains /\ lab' = lab /\ FilesStay /\ Busy(n)
    BY <1>8, OnlineDoes DEF RestStays, KeptStay, At
  <2>2. Becomes(n, <<>>, NoHost, "failed") \/ \E t : Call(n, "online", t)
    BY <1>8, OnlineDoes
  <2> QED
    BY <2>1, <2>2, EndFiles, QuietFiles, SameSeeded
<1>9. CASE Destroy(n)
  <2>0. PICK op \in {"destroy", "stop", "virsh-destroy"} : \E t :
             /\ Command1(n, op, t)
             /\ domains' = domains \/ \E d \in Mine(n) : \E e : Swaps(d, e) /\ Same(d, e)
    BY <1>9, DestroyDoes DEF Switched
  <2>1. PICK t :
             /\ Command1(n, op, t)
             /\ domains' = domains \/ \E d \in Mine(n) : \E e : Swaps(d, e) /\ Same(d, e)
    BY <2>0
  <2> QED
    BY <1>0, <2>1, QuietFiles, SameSeeded DEF Command1, RestStays, KeptStay
<1>10. CASE Delete(n)
  <2>1. PICK t : Command1(n, "delete", t) /\ domains' = domains \ Mine(n)
    BY <1>10, DeleteDoes
  <2> QED
    BY <2>1, QuietFiles, SameSeeded DEF Command1, RestStays, KeptStay
<1> QED
  BY <1>1, <1>2, <1>3, <1>4, <1>5, <1>6, <1>7, <1>8, <1>9, <1>10

\* The search for an old machine, the choice of the host, and the removal.
LEMMA FindStaged ==
    ASSUME Sound, NEW n \in Nodes, Keep(n) \/ Locate(n) \/ Select(n) \/ Undefine(n)
    PROVE  FilesGo(n) /\ Seeded(n)
<1> USE DEF FileMakers, Searches
<1>1. CASE Keep(n)
  <2>1. domains' = domains /\ lab' = lab /\ FilesStay /\ Busy(n)
    BY <1>1, KeepDoes DEF KeptStay, At
  <2>2. (\E h : Becomes(n, <<>>, h, "ok")) \/ \E t : Call(n, "keep?", t)
    BY <1>1, KeepDoes
  <2> QED
    BY <2>1, <2>2, EndFiles, QuietFiles, SameSeeded
<1>2. CASE Locate(n)
  <2>1. domains' = domains /\ lab' = lab /\ FilesStay /\ Busy(n)
    BY <1>2, LocateDoes DEF KeptStay, At
  <2>2. \E op \in Searches : \E t, h : Goes(n, op, t, h)
    BY <1>2, LocateDoes DEF Searched
  <2> QED
    BY <2>1, <2>2, SearchFiles, SameSeeded DEF FilesStay
<1>3. CASE Select(n)
  <2>1. domains' = domains /\ lab' = lab /\ FilesStay /\ Busy(n)
    BY <1>3, SelectDoes DEF RestStays, KeptStay, At
  <2>2. Becomes(n, <<>>, NoHost, "failed") \/ \E op \in Searches : \E t, h : Goes(n, op, t, h)
    BY <1>3, SelectDoes
  <2> QED
    BY <2>1, <2>2, EndFiles, SearchFiles, SameSeeded DEF FilesStay
<1>4. CASE Undefine(n)
  <2>1. PICK t : /\ Command2(n, "undefine", t) /\ tmp' = tmp /\ isos' = isos
                 /\ domains' = domains \ {d \in Mine(n) : ~d.on}
                 /\ disks' = disks \/ disks' = [disks EXCEPT ![<<On(n), n>>] = "none"]
    BY <1>4, UndefineDoes
  <2>2. lab' = lab /\ Busy(n) /\ Goes(n, "undefine", t, On(n))
    BY <2>1 DEF Command2, KeptStay, Call, At
  <2> QED
    BY <2>1, <2>2, SearchFiles, SameSeeded
<1> QED
  BY <1>1, <1>2, <1>3, <1>4

\* The calls that make a machine.
LEMMA MakeStaged ==
    ASSUME Sound, NEW n \in Nodes, Install(n) \/ InstallIso(n) \/ Apply(n)
    PROVE  FilesGo(n) /\ Seeded(n)
<1>0. reach \subseteq Hosts
  BY DEF Sound, StateOK
<1>1. ASSUME NEW op \in Makers, NEW t, Call(n, op, t), lab' = lab, isos' = isos,
             disks' = disks \/ (\E x : disks' = [disks EXCEPT ![<<On(n), n>>] = x])
      PROVE  FilesGo(n)
  <2>1. OthersFiles(n)
    BY <1>1, OthersFilesOf DEF Call, Goes
  <2>2. ~Making(n)'
    BY <1>1, Made
  <2> QED
    BY <1>1, <2>1, <2>2 DEF FilesGo, Filed, Call, At
<1>2. CASE Install(n)
  <2>1. /\ At(n, "install") /\ On(n) \in Hosts /\ Busy(n) /\ FilesStay /\ lab' = lab
        /\ \/ Becomes(n, <<>>, NoHost, "failed") /\ domains' = domains
           \/ Makes(n, Domain(n, "disk", TRUE)) /\ \E t : Call(n, "install", t)
    BY <1>0, <1>2, InstallDoes DEF RestStays, KeptStay, At
  <2>2. CASE Becomes(n, <<>>, NoHost, "failed") /\ domains' = domains
    BY <2>1, <2>2, EndFiles, SameSeeded
  <2>3. CASE Makes(n, Domain(n, "disk", TRUE)) /\ \E t : Call(n, "install", t)
    BY <1>1, <2>1, <2>3, MakesSeeded DEF Makers, FilesStay
  <2> QED
    BY <2>1, <2>2, <2>3
<1>3. CASE InstallIso(n)
  <2>1. /\ At(n, "install-iso") /\ On(n) \in Hosts /\ Busy(n) /\ tmp' = tmp /\ isos' = isos /\ lab' = lab
        /\ \/ Becomes(n, <<>>, NoHost, "failed") /\ domains' = domains /\ disks' = disks
           \/ /\ disks' = [disks EXCEPT ![<<On(n), n>>] = n] /\ \E t : Call(n, "install-iso", t)
              /\ \E e : Makes(n, e)
    BY <1>0, <1>3, InstallIsoDoes DEF KeptStay, At
  <2>2. CASE Becomes(n, <<>>, NoHost, "failed") /\ domains' = domains /\ disks' = disks
    BY <2>1, <2>2, EndFiles, SameSeeded DEF FilesStay
  <2>3. CASE /\ disks' = [disks EXCEPT ![<<On(n), n>>] = n] /\ \E t : Call(n, "install-iso", t)
             /\ \E e : Makes(n, e)
    BY <1>1, <2>1, <2>3, MakesSeeded DEF Makers
  <2> QED
    BY <2>1, <2>2, <2>3
<1>4. CASE Apply(n)
  <2>1. PICK t : Command1(n, "apply", t) /\ (domains' = domains \/ \E e : Makes(n, e))
    BY <1>4, ApplyDoes
  <2>2. Call(n, "apply", t) /\ At(n, "apply") /\ On(n) \in Hosts /\ lab' = lab /\ FilesStay
    BY <1>0, <2>1 DEF Command1, RestStays, KeptStay, Call
  <2> QED
    BY <1>1, <2>1, <2>2, MakesSeeded, SameSeeded DEF Makers, FilesStay
<1> QED
  BY <1>2, <1>3, <1>4

\* The calls around a reboot, and those that fail.
LEMMA RebootStaged ==
    ASSUME Sound, NEW n \in Nodes, Probe(n) \/ Rebooted(n) \/ Stopped(n) \/ CallFails(n) \/ StopTimesOut(n)
    PROVE  FilesGo(n) /\ Seeded(n)
<1> USE DEF FileMakers, Searches
<1>1. CASE Probe(n)
  <2>1. At(n, "probe") /\ lab' = lab /\ FilesStay
    BY <1>1, ProbeDoes DEF RestStays, KeptStay
  <2>2. CASE (\E t : Call(n, "probe", t)) /\ domains' = domains
    BY <2>1, <2>2, QuietFiles, SameSeeded
  <2>3. CASE \E t, d, e : Goes(n, "reset", t, On(n)) /\ Swaps(d, e) /\ Same(d, e)
    BY <2>1, <2>3, SkipFiles, SwapSeeded
  <2> QED
    BY <1>1, <2>2, <2>3, ProbeDoes
<1>2. CASE Rebooted(n)
  <2>1. PICK op, t : At(n, "rebooted?") /\ domains' = domains /\ RestStays /\ Goes(n, op, t, On(n))
    BY <1>2, RebootedDoes
  <2> QED
    BY <2>1, SkipFiles, SameSeeded DEF RestStays, KeptStay
<1>3. CASE Stopped(n)
  <2>1. PICK op, t : At(n, "stopped?") /\ domains' = domains /\ RestStays /\ Goes(n, op, t, On(n))
    BY <1>3, StoppedDoes
  <2> QED
    BY <2>1, SkipFiles, SameSeeded DEF RestStays, KeptStay
<1>4. CASE CallFails(n)
  <2>1. domains' = domains /\ lab' = lab /\ FilesStay
    BY <1>4, CallFailsDoes DEF KeptStay
  <2>2. CASE (\E op \in Fatal : At(n, op)) /\ Becomes(n, <<>>, NoHost, "failed")
    BY <2>1, <2>2, EndFiles, SameSeeded DEF At
  <2>3. CASE \E op \in Ignored : \E t : Call(n, op, t)
    <3>0. PICK op \in Ignored : \E t : Call(n, op, t)
      BY <2>3
    <3>1. PICK t : Call(n, op, t)
      BY <3>0
    <3>2. CASE op = "undefine"
      BY <2>1, <3>1, <3>2, SearchFiles, SameSeeded DEF Call, At, FilesStay
    <3>3. CASE op # "undefine"
      BY <2>1, <3>1, <3>3, QuietFiles, SameSeeded DEF Ignored
    <3> QED
      BY <3>2, <3>3
  <2> QED
    BY <1>4, <2>2, <2>3, CallFailsDoes
<1>5. CASE StopTimesOut(n)
  BY <1>5, StopTimesOutDoes, EndFiles, SameSeeded DEF At
<1> QED
  BY <1>1, <1>2, <1>3, <1>4, <1>5

\* Every call of a worker.
LEMMA StepStaged == ASSUME Sound, NEW n \in Nodes, Step(n) \/ StopTimesOut(n) PROVE FilesGo(n) /\ Seeded(n)
BY FilesMade, QuietStaged, FindStaged, MakeStaged, RebootStaged DEF Step

\* The steps that are not a worker's call.
LEMMA ElseStaged ==
    ASSUME Sound, AllStaged, OwnConfiguration,
           StartLab \/ (\E n \in Nodes : StartVm(n)) \/ (\E h \in Hosts : HostDown(h) \/ HostUp(h))
           \/ (\E d \in domains : Boots(d) \/ Hangs(d) \/ Acts(d)) \/ UNCHANGED vars
    PROVE  AllStaged' /\ OwnConfiguration'
<1>1. lab' = lab /\ work' = work
  BY ElseStays
<1>2. FilesStay /\ (domains' = domains \/ \E d, e : Swaps(d, e) /\ Same(d, e))
  <2>1. CASE StartLab \/ (\E n \in Nodes : StartVm(n)) \/ (\E h \in Hosts : HostDown(h) \/ HostUp(h)) \/ UNCHANGED vars
    BY <2>1, StartLabDoes, StartsDo, HostDoes DEF vars, FilesStay
  <2>2. CASE \E d \in domains : Boots(d) \/ Hangs(d) \/ Acts(d)
    BY <2>2, GuestDoes
  <2> QED
    BY <2>1, <2>2
<1>3. AllStaged'
  BY <1>1, <1>2 DEF AllStaged, Staged, FilesStay, Making, On
<1>4. \A e \in domains' : e \in domains \/ \E d \in domains : Same(d, e)
  BY <1>2 DEF Swaps
<1>5. OwnConfiguration'
  BY <1>1, <1>4 DEF OwnConfiguration, OwnFiles, Same
<1> QED
  BY <1>3, <1>5

\* The start of a worker of setup_lab.py.
LEMMA TakeStaged ==
    ASSUME Sound, AllStaged, OwnConfiguration, NEW n \in Nodes, Take(n)
    PROVE  AllStaged' /\ OwnConfiguration'
<1>1. /\ lab' = lab /\ domains' = domains /\ FilesStay /\ Left(Program(lab)) = Calls(lab)
      /\ Becomes(n, Program(lab), IF lab.kind = "libvirt" THEN NoHost ELSE Cluster, "none")
  BY TakeDoes
<1>2. OwnConfiguration'
  BY <1>1 DEF OwnConfiguration, OwnFiles
<1>3. ASSUME NEW k \in Nodes \ {n} PROVE Staged(k)'
  BY <1>1, <1>3 DEF Becomes, AllStaged, Staged, FilesStay, Making, On
<1>4. Staged(n)'
  <2> SUFFICES ASSUME lab.kind = "libvirt" PROVE Staged(n)'
    BY <1>1 DEF Staged
  <2>1. Left(work[n].todo)' = Calls(lab)
    BY <1>1 DEF Becomes
  <2>2. FilesOf(lab) \subseteq Calls(lab)
    <3>1. IsLab(lab)
      BY LabIsLab DEF Sound, StateOK
    <3>2. FilesOf(lab) \subseteq Left(Provision(lab))
      BY <3>1, ProvisionChunk
    <3>3. FilesOf(lab) \subseteq FileCalls(lab.method)
      BY DEF FilesOf, FileCalls
    <3> QED
      BY <3>3 DEF Calls
  <2>3. /\ lab.method = "virt_customize" => {"copy", "customize"} \subseteq Left(work[n].todo)'
        /\ lab.method = "cloud-init" => {"stage", "seed"} \subseteq Left(work[n].todo)'
    BY <2>1, <2>2 DEF FilesOf
  <2> QED
    BY <1>1, <2>3 DEF Staged
<1>5. AllStaged'
  BY <1>3, <1>4 DEF AllStaged
<1> QED
  BY <1>2, <1>5

\* No file and no machine at the start.
LEMMA InitStaged == Init => AllStaged /\ OwnConfiguration
<1> SUFFICES ASSUME Init PROVE AllStaged /\ OwnConfiguration
  OBVIOUS
<1>1. \A n \in Nodes : work[n].todo = <<>>
  BY DEF Init, Idle
<1>2. \A n \in Nodes : ~Making(n)
  BY <1>1, NoCalls DEF Making
<1>3. domains = {}
  BY DEF Init
<1> QED
  BY <1>2, <1>3 DEF AllStaged, Staged, OwnConfiguration

\* Every step keeps the files and the configurations.
LEMMA StagedStep == Sound /\ AllStaged /\ OwnConfiguration /\ [Next]_vars => AllStaged' /\ OwnConfiguration'
<1> SUFFICES ASSUME Sound, AllStaged, OwnConfiguration, [Next]_vars PROVE AllStaged' /\ OwnConfiguration'
  OBVIOUS
<1>1. ASSUME NEW n \in Nodes, Step(n) \/ StopTimesOut(n) PROVE AllStaged' /\ OwnConfiguration'
  <2>1. FilesGo(n) /\ Seeded(n)
    BY <1>1, StepStaged
  <2>2. lab' = lab
    BY <2>1 DEF FilesGo
  <2> QED
    BY <2>1, <2>2, StagedGoes, SeedsGo
<1>2. ASSUME NEW n \in Nodes, Take(n) PROVE AllStaged' /\ OwnConfiguration'
  BY <1>2, TakeStaged
<1>3. CASE StartLab \/ (\E n \in Nodes : StartVm(n)) \/ (\E h \in Hosts : HostDown(h) \/ HostUp(h))
           \/ (\E d \in domains : Boots(d) \/ Hangs(d) \/ Acts(d)) \/ UNCHANGED vars
  BY <1>3, ElseStaged
<1> QED
  BY <1>1, <1>2, <1>3 DEF Next

\* The invariant of the files.
LEMMA StagedAlways == Spec => [](Sound /\ AllStaged /\ OwnConfiguration)
<1> QED
  BY InitSound, SoundStep, InitStaged, StagedStep, PTL DEF Spec

\* A machine of LibvirtBackend or HarvesterBackend comes up with the configuration of its own node:
\* prepare_virt_customize() and the cloud-init files of push_provisioning_files() are not mixed up by
\* rebuilds, by hosts that were changed or by calls that failed; with cloud-init as long as the nodes
\* are made one at a time.
THEOREM KvmOwnConfiguration == Spec => []OwnConfiguration
<1> QED
  BY StagedAlways, PTL

(***************************************************************************)
(* The addresses of the machines                                           *)
(***************************************************************************)
\* The addresses of the machines of n that boot from disk, and of those that boot the installer.
FromDisk(n) == {d.addr : d \in {x \in domains : x.name = n /\ x.boot = "disk"}}
Installing(n) == {d.addr : d \in {x \in domains : x.name = n /\ x.boot = "installer"}}
\* Where the machines of n are off, and where one was asked to shut down.
Halted(n) == {d.host : d \in {x \in domains : x.name = n /\ x.on = FALSE}}
Asked(n) == {d.host : d \in {x \in domains : x.name = n /\ "shutdown" \in x.pend}}

\* Between del_from_dns() and add_to_dns().
Window(n) == "unregister" \notin Left(work[n].todo) /\ "register" \in Left(work[n].todo)
\* The machine of this definition has been made.
Done(n) == (Busy(n) /\ ~Making(n)) \/ (work[n].end = "ok" /\ (n \notin queue \/ lab.caller = "setup_lab"))
Named(n) ==
    /\ Window(n) => dns[n] = 0
    /\ ~Window(n) /\ dns[n] # 0 => HostsOf(n) # {}
    /\ ~Window(n) /\ OwnFiles => FromDisk(n) \subseteq {dns[n]} /\ (dns[n] # 0 => Installing(n) = {})
    /\ Done(n) /\ OwnFiles => /\ FromDisk(n) \subseteq {def[n]} /\ Installing(n) \subseteq {def[n]}
                              /\ IF "edit" \in Left(work[n].todo) THEN FromDisk(n) = {} ELSE Installing(n) = {}
    /\ lab.caller = "setup_lab" /\ OwnFiles => FromDisk(n) \subseteq {0, def[n]}
    /\ Done(n) /\ "register" \notin Left(work[n].todo) => dns[n] = def[n]
\* It runs, unless something was amiss.
Served(n) ==
    /\ Done(n) /\ n \notin upset => Halted(n) = {} \/ "virsh-start" \in Left(work[n].todo)
    /\ Asked(n) # {} => n \in upset
AllNamed == \A n \in Nodes \ missed : Named(n) /\ Served(n)

\* What the definition and the zone have, and the queue.
LabNet ==
    /\ lab.caller = "setup_lab" =>
         /\ \A m, n \in Nodes : m # n /\ def[m] # 0 => def[m] # def[n]
         /\ \A n \in Nodes : dns[n] \in {0, def[n]}
         /\ \/ \A n \in Nodes : def[n] # 0
            \/ queue = {} /\ \A n \in Nodes : ~Busy(n) /\ work[n].end # "ok"
    /\ lab.caller = "setup_vm" /\ ~lab.parallel =>
         /\ \A n \in Nodes : Busy(n) => queue = {}
         /\ \A m, n \in queue : m = n
\* A machine that is up has an address.
Powered == \A d \in domains : d.up => d.addr # 0
NetOK == LabNet /\ Powered /\ AllNamed

\* What a step leaves of the machines of n; or the node is upset.
LooksStay(n) ==
    /\ HostsOf(n)' = HostsOf(n) /\ FromDisk(n)' \subseteq FromDisk(n) /\ Installing(n)' \subseteq Installing(n)
    /\ Asked(n)' \subseteq Asked(n) \/ n \in upset'
    /\ Halted(n)' \subseteq Halted(n) \/ n \in upset'
NetStays(n) == dns'[n] = dns[n] /\ def'[n] = def[n]
UpsetStays(n) == n \in upset => n \in upset'

\* The calls a worker does not survive when they fail.
Deadly == Fatal \cup {"select", "allocate", "online"}

\* What a worker can do to its machine and to its address.
DiesThere(n) ==
    /\ Becomes(n, <<>>, NoHost, "failed") /\ (\E op \in Deadly : At(n, op)) /\ LooksStay(n)
    /\ dns'[n] = dns[n] /\ UpsetStays(n)
Finds(n) ==
    /\ At(n, "keep?") /\ (\E h : Becomes(n, <<>>, h, "ok")) /\ LooksStay(n) /\ NetStays(n) /\ dns[n] = def[n] /\ dns[n] # 0
    /\ Halted(n)' = {} /\ (Asked(n)' = {} \/ UpsetStays(n))
Passes(n) ==
    \E op, t, h :
      /\ At(n, op) /\ Goes(n, op, t, h) /\ Left(work[n].todo) = {op} \cup Left(t)
      /\ op \notin Makers \cup {"unregister", "register", "edit"}
      /\ dns'[n] = dns[n] /\ (def'[n] = def[n] \/ (op = "allocate" /\ def[n] = 0)) /\ UpsetStays(n)
      /\ HostsOf(n)' = HostsOf(n) \/ op \in {"undefine", "delete"}
      /\ FromDisk(n)' \subseteq FromDisk(n) /\ Installing(n)' \subseteq Installing(n)
      /\ Asked(n)' \subseteq Asked(n) \/ n \in upset'
      /\ Halted(n)' \subseteq Halted(n) \/ n \in upset' \/ op \in {"destroy", "stop", "virsh-destroy"}
      /\ op = "virsh-start" => Halted(n)' = {} \/ n \in upset'
Jumps(n) ==
    /\ \E x \in {"probe", "rebooted?", "stopped?"} : \E op, t : At(n, x) /\ Goes(n, op, t, On(n))
    /\ LooksStay(n) /\ NetStays(n) /\ UpsetStays(n)
Misses(n) ==
    /\ At(n, "locate") /\ HostsOf(n) = {} /\ (\E t : Goes(n, "undefine", t, On(n))) /\ LooksStay(n) /\ NetStays(n) /\ UpsetStays(n)
Unlists(n) == (\E t : Call(n, "unregister", t)) /\ dns'[n] = 0 /\ def'[n] = def[n] /\ LooksStay(n) /\ UpsetStays(n)
Enlists(n) == (\E t : Call(n, "register", t)) /\ dns'[n] = def[n] /\ def'[n] = def[n] /\ LooksStay(n) /\ UpsetStays(n)
Edits(n) ==
    /\ (\E t : Call(n, "edit", t)) /\ NetStays(n) /\ UpsetStays(n) /\ HostsOf(n)' = HostsOf(n)
    /\ FromDisk(n)' \subseteq FromDisk(n) \cup Installing(n) /\ Installing(n)' = {}
    /\ Asked(n)' \subseteq Asked(n) /\ Halted(n)' \subseteq Halted(n)
Brings(n) ==
    \E op \in Makers : \E t :
      /\ Call(n, op, t) /\ NetStays(n) /\ UpsetStays(n) /\ Asked(n)' = {} /\ (Halted(n)' = {} \/ "virsh-start" \in Left(t))
      /\ OwnFiles => /\ FromDisk(n)' \subseteq {def[n]} /\ Installing(n)' \subseteq {def[n]}
                     /\ IF "edit" \in Left(t) THEN FromDisk(n)' = {} ELSE Installing(n)' = {}
Own(n) == DiesThere(n) \/ Finds(n) \/ Passes(n) \/ Jumps(n) \/ Misses(n) \/ Unlists(n) \/ Enlists(n) \/ Edits(n) \/ Brings(n)
WorkerNet(n) ==
    /\ lab' = lab /\ Busy(n) /\ missed \subseteq missed' /\ missed' \subseteq missed \cup {n}
    /\ queue' = queue \/ (~lab.parallel /\ queue' = {})
    /\ \A k \in Nodes \ {n} : work'[k] = work[k] /\ NetStays(k) /\ UpsetStays(k) /\ LooksStay(k)
    /\ dns'[n] \in {0, def[n], dns[n]} /\ (def'[n] = def[n] \/ def[n] = 0)
    /\ n \notin missed' => Own(n)

\* A node without a machine.
LEMMA NoMachine ==
    ASSUME NEW n, HostsOf(n) = {}
    PROVE  FromDisk(n) = {} /\ Installing(n) = {} /\ Halted(n) = {} /\ Asked(n) = {}
BY DEF HostsOf, FromDisk, Installing, Halted, Asked

\* What follows from the place of a call.
LEMMA Places ==
    ASSUME Sound, NEW n \in Nodes, NEW op, At(n, op)
    PROVE  /\ op \in {"undefine", "delete", "edit"} \cup Makers => "unregister" \notin Left(work[n].todo)
           /\ op \in {"register", "online", "restart"} \cup Rebooting /\ op # "virsh-reboot" => ~Making(n)
           /\ op \in {"edit", "virsh-start", "virsh-destroy"} => ~Making(n)
           /\ op \in {"register", "virsh-start"} => "edit" \notin Left(work[n].todo)
           /\ op = "register" => "virsh-start" \notin Left(work[n].todo)
           /\ op \in {"online", "restart", "probe", "rebooted?", "stopped?"} =>
                {"register", "edit", "virsh-start"} \cap Left(work[n].todo) = {}
           /\ op \in Deadly \ {"edit", "restart", "online"} => Making(n) /\ ~Removing(n)
           /\ op \in {"locate", "unregister", "destroy", "stop", "undefine", "delete", "allocate"} => Making(n)
<1> DEFINE L == Left(work[n].todo)
<1>0. op \in L /\ Must(lab, op) \subseteq L /\ Busy(n) /\ IsLab(lab)
  BY FollowsCall, LeftCalls
<1>1. op \in {"undefine", "delete", "edit"} \cup Makers => "unregister" \notin L
  BY CallsGone, Ranks DEF Makers
<1>2. ASSUME NEW r \in Nat, Rank(op) = r, 13 < r, op \notin Makers PROVE ~Making(n)
  <2>1. "install" \notin L
    BY <1>2, CallsGone, Ranks DEF Makers
  <2>2. "install-iso" \notin L
    BY <1>2, CallsGone, Ranks DEF Makers
  <2>3. "apply" \notin L
    BY <1>2, CallsGone, Ranks DEF Makers
  <2> QED
    BY <2>1, <2>2, <2>3 DEF Making, Makers
<1>3. op \in {"register", "online", "restart"} \cup Rebooting /\ op # "virsh-reboot" => ~Making(n)
  BY <1>2, Ranks DEF Makers, Rebooting
<1>4. op \in {"edit", "virsh-start", "virsh-destroy"} => ~Making(n)
  BY <1>2, Ranks DEF Makers
<1>5. op \in {"register", "virsh-start"} => "edit" \notin L
  BY CallsGone, Ranks
<1>6. op = "register" => "virsh-start" \notin L
  BY CallsGone, Ranks
<1>7. ASSUME op \in {"online", "restart", "probe", "rebooted?", "stopped?"} PROVE {"register", "edit", "virsh-start"} \cap L = {}
  <2>1. "register" \notin L
    BY <1>7, CallsGone, Ranks
  <2>2. "edit" \notin L
    BY <1>7, CallsGone, Ranks
  <2>3. "virsh-start" \notin L
    BY <1>7, CallsGone, Ranks
  <2> QED
    BY <2>1, <2>2, <2>3
<1>8. MakeOf(lab) \subseteq Makers /\ MakeOf(lab) # {}
  BY <1>0, LabCalls
<1>9. MakeOf(lab) \subseteq Must(lab, op) => Making(n)
  BY <1>0, <1>8 DEF Making
<1>10. ASSUME op \in Deadly \ {"edit", "restart", "online"} PROVE Making(n) /\ ~Removing(n)
  <2>1. op \in {"answer", "copy", "customize", "push", "stage", "seed", "select", "allocate"} \cup Makers
    BY <1>10 DEF Deadly, Fatal, Makers
  <2>2. Making(n)
    <3>1. CASE op \in Makers
      BY <1>0, <3>1 DEF Making
    <3>2. CASE op \in {"answer", "customize", "push", "stage", "seed", "allocate"}
      BY <1>9, <3>2, Musts
    <3>3. CASE op \in {"copy", "select"}
      BY <1>9, <3>3, Musts
    <3> QED
      BY <2>1, <3>1, <3>2, <3>3
  <2>3. Rank(op) \in Nat /\ 5 < Rank(op) /\ op # "undefine" /\ op # "delete"
    BY <2>1, Ranks DEF Makers
  <2>4. "undefine" \notin L
    BY <2>3, CallsGone, Ranks
  <2>5. "delete" \notin L
    BY <2>3, CallsGone, Ranks
  <2> QED
    BY <2>2, <2>4, <2>5 DEF Removing
<1>11. op \in {"locate", "unregister", "destroy", "stop", "undefine", "delete", "allocate"} => Making(n)
  BY <1>9, Musts
<1> QED
  BY <1>1, <1>3, <1>4, <1>5, <1>6, <1>7, <1>10, <1>11

\* A node that the step is not about.
LEMMA NamedOther ==
    ASSUME NEW k, Named(k), Served(k), lab' = lab, work'[k] = work[k], NetStays(k), UpsetStays(k), LooksStay(k), Done(k)' => Done(k)
    PROVE  Named(k)' /\ Served(k)'
<1>1. /\ Left(work[k].todo)' = Left(work[k].todo)
      /\ OwnFiles' <=> OwnFiles
      /\ Window(k)' <=> Window(k)
  BY DEF OwnFiles, Window
<1>2. Named(k)'
  BY <1>1 DEF Named, NetStays, LooksStay
<1>3. Served(k)'
  BY <1>1 DEF Served, UpsetStays, LooksStay
<1> QED
  BY <1>2, <1>3

\* A worker after a call, and whether its machine had been made.
LEMMA DoneAfter ==
    ASSUME Sound, NEW n \in Nodes, NEW op, At(n, op), NEW t, NEW h, Goes(n, op, t, h), op \notin Makers,
           Left(work[n].todo) = {op} \cup Left(t)
    PROVE  /\ Done(n)' => Done(n) /\ ~Making(n)
           /\ Making(n)' <=> Making(n)
           /\ Left(work[n].todo)' = Left(t)
<1>1. /\ Left(work[n].todo)' = Left(t) /\ (Busy(n)' <=> t # <<>>) /\ (t = <<>> <=> Left(t) = {})
      /\ work'[n].end = (IF t = <<>> THEN "ok" ELSE "none") /\ Busy(n)
  BY GoesIs DEF At
<1>2. Making(n)' <=> Making(n)
  BY <1>1 DEF Making
<1>3. Done(n)' => ~Making(n)
  BY <1>1, <1>2 DEF Done, Making
<1> QED
  BY <1>1, <1>2, <1>3 DEF Done

\* Whether a worker that goes on is done, and what it has left.
LEMMA GoesDone ==
    ASSUME Sound, NEW n \in Nodes, NEW op, NEW t, NEW h, Goes(n, op, t, h)
    PROVE  /\ Left(work[n].todo)' = Left(t) /\ Must(lab, op) \subseteq Left(t) /\ Left(t) \subseteq Left(work[n].todo)
           /\ Done(n)' => ~Making(n)'
           /\ Making(n)' <=> Left(t) \cap Makers # {}
           /\ \A o \in Left(t) : Before(op, o)
<1>1. /\ Left(work[n].todo)' = Left(t) /\ (Busy(n)' <=> t # <<>>) /\ (t = <<>> <=> Left(t) = {})
      /\ work'[n].end = (IF t = <<>> THEN "ok" ELSE "none") /\ Must(lab, op) \subseteq Left(t)
      /\ Left(t) \subseteq Left(work[n].todo)
  BY GoesIs
<1>2. Making(n)' <=> Left(t) \cap Makers # {}
  BY <1>1 DEF Making
<1>3. Done(n)' => ~Making(n)'
  BY <1>1, <1>2 DEF Done
<1>4. \A o \in Left(t) : Before(op, o)
  BY DEF Goes
<1> QED
  BY <1>1, <1>2, <1>3, <1>4

\* The conjuncts of Named and Served for a node that is not done after the step.
LEMMA NotDone ==
    ASSUME NEW n, lab' = lab, ~Done(n)', Window(n)', dns'[n] = 0,
           lab.caller = "setup_lab" /\ OwnFiles => FromDisk(n)' \subseteq {0, def'[n]},
           Asked(n)' # {} => n \in upset'
    PROVE  Named(n)' /\ Served(n)'
<1>1. OwnFiles' <=> OwnFiles
  BY DEF OwnFiles
<1>2. Named(n)'
  BY <1>1 DEF Named
<1>3. Served(n)'
  BY DEF Served
<1> QED
  BY <1>2, <1>3

\* A worker that raises leaves the names as they were.
LEMMA NamedDies ==
    ASSUME Sound, NEW n \in Nodes, Known(n), Named(n), Served(n), lab' = lab, DiesThere(n), def'[n] = def[n] \/ def[n] = 0
    PROVE  Named(n)' /\ Served(n)'
<1>1. /\ Becomes(n, <<>>, NoHost, "failed") /\ dns'[n] = dns[n] /\ UpsetStays(n) /\ HostsOf(n)' = HostsOf(n)
      /\ FromDisk(n)' \subseteq FromDisk(n) /\ Installing(n)' \subseteq Installing(n) /\ (Asked(n)' \subseteq Asked(n) \/ n \in upset')
  BY DEF DiesThere, LooksStay
<1>2. PICK op \in Deadly : At(n, op)
  BY DEF DiesThere
<1>3. Busy(n)
  BY <1>2 DEF At
<1>4. ~Done(n)' /\ ~Window(n)'
  <2>1. Left(work[n].todo)' = {} /\ work'[n].end = "failed" /\ ~Busy(n)'
    BY <1>1, NoCalls DEF Becomes, Busy
  <2> QED
    BY <2>1 DEF Done, Window
<1>5. Window(n) /\ OwnFiles => FromDisk(n) = {}
  <2>1. CASE op \in Deadly \ {"edit", "restart", "online"}
    <3>1. Making(n) /\ ~Removing(n)
      BY <1>2, <2>1, Places
    <3>2. HostsOf(n) = {}
      BY <3>1 DEF Known
    <3> QED
      BY <3>2, NoMachine
  <2>2. CASE op = "edit"
    <3>1. ~Making(n) /\ op \in Left(work[n].todo)
      BY <1>2, <2>2, Places, FollowsCall
    <3>2. Done(n)
      BY <1>3, <3>1 DEF Done
    <3> QED
      BY <2>2, <3>1, <3>2 DEF Named
  <2>3. CASE op \in {"restart", "online"}
    <3>1. "register" \notin Left(work[n].todo)
      BY <1>2, <2>3, Places
    <3> QED
      BY <3>1 DEF Window
  <2> QED
    BY <2>1, <2>2, <2>3
<1>6. OwnFiles' <=> OwnFiles
  BY DEF OwnFiles
<1>7. dns[n] # 0 => HostsOf(n) # {}
  BY DEF Named
<1>8. OwnFiles => FromDisk(n)' \subseteq {dns[n]} /\ (dns[n] # 0 => Installing(n)' = {})
  BY <1>1, <1>5 DEF Named
<1>9. lab.caller = "setup_lab" /\ OwnFiles => FromDisk(n)' \subseteq {0, def'[n]}
  BY <1>1 DEF Named
<1>10. Named(n)'
  BY <1>1, <1>4, <1>6, <1>7, <1>8, <1>9 DEF Named
<1>11. Served(n)'
  BY <1>1, <1>4 DEF Served, UpsetStays
<1> QED
  BY <1>10, <1>11

\* A machine that is kept.
LEMMA NamedFinds ==
    ASSUME Sound, NEW n \in Nodes, Named(n), Served(n), lab' = lab, Finds(n)
    PROVE  Named(n)' /\ Served(n)'
<1>1. /\ At(n, "keep?") /\ dns'[n] = dns[n] /\ def'[n] = def[n] /\ dns[n] = def[n] /\ dns[n] # 0 /\ HostsOf(n)' = HostsOf(n)
      /\ FromDisk(n)' \subseteq FromDisk(n) /\ Installing(n)' \subseteq Installing(n) /\ (Asked(n)' \subseteq Asked(n) \/ n \in upset')
      /\ Halted(n)' = {} /\ (Asked(n)' = {} \/ UpsetStays(n))
  BY DEF Finds, LooksStay, NetStays
<1>2. "unregister" \in Left(work[n].todo)
  <2>1. "unregister" \in Must(lab, "keep?")
    BY Musts
  <2> QED
    BY <1>1, <2>1, FollowsCall
<1>3. ~Window(n)
  BY <1>2 DEF Window
<1>4. Left(work[n].todo)' = {}
  BY NoCalls DEF Finds, Becomes
<1>5. OwnFiles' <=> OwnFiles
  BY DEF OwnFiles
<1>6. HostsOf(n) # {} /\ (OwnFiles => FromDisk(n) \subseteq {dns[n]} /\ Installing(n) = {})
  BY <1>1, <1>3 DEF Named
<1>7. ~Window(n)' /\ "edit" \notin Left(work[n].todo)'
  BY <1>4 DEF Window
<1>8. Named(n)'
  BY <1>1, <1>5, <1>6, <1>7 DEF Named
<1>9. Served(n)'
  BY <1>1 DEF Served, UpsetStays
<1> QED
  BY <1>8, <1>9

\* A call that is not about the names.
LEMMA NamedPasses ==
    ASSUME Sound, NEW n \in Nodes, Named(n), Served(n), lab' = lab, Passes(n)
    PROVE  Named(n)' /\ Served(n)'
<1>1. PICK op, t, h :
      /\ At(n, op) /\ Goes(n, op, t, h) /\ Left(work[n].todo) = {op} \cup Left(t)
      /\ op \notin Makers \cup {"unregister", "register", "edit"}
      /\ dns'[n] = dns[n] /\ (def'[n] = def[n] \/ (op = "allocate" /\ def[n] = 0)) /\ UpsetStays(n)
      /\ HostsOf(n)' = HostsOf(n) \/ op \in {"undefine", "delete"}
      /\ FromDisk(n)' \subseteq FromDisk(n) /\ Installing(n)' \subseteq Installing(n)
      /\ Asked(n)' \subseteq Asked(n) \/ n \in upset'
      /\ Halted(n)' \subseteq Halted(n) \/ n \in upset' \/ op \in {"destroy", "stop", "virsh-destroy"}
      /\ op = "virsh-start" => Halted(n)' = {} \/ n \in upset'
  BY DEF Passes
<1>2. (Done(n)' => Done(n) /\ ~Making(n)) /\ Left(work[n].todo)' = Left(t)
  BY <1>1, DoneAfter
<1>3. OwnFiles' <=> OwnFiles
  BY DEF OwnFiles
<1>4. /\ Window(n)' <=> Window(n)
      /\ "register" \in Left(work[n].todo)' <=> "register" \in Left(work[n].todo)
      /\ "edit" \in Left(work[n].todo)' <=> "edit" \in Left(work[n].todo)
      /\ op # "virsh-start" => ("virsh-start" \in Left(work[n].todo)' <=> "virsh-start" \in Left(work[n].todo))
  BY <1>1, <1>2 DEF Window
<1>5. op \in {"undefine", "delete"} => Window(n)
  <2>1. op \in {"undefine", "delete"} => "register" \in Must(lab, op)
    BY Musts
  <2>2. Must(lab, op) \subseteq Left(work[n].todo)
    BY <1>1, FollowsCall
  <2>3. op \in {"undefine", "delete"} => "unregister" \notin Left(work[n].todo)
    BY <1>1, Places
  <2> QED
    BY <2>1, <2>2, <2>3 DEF Window
<1>6. op \in {"allocate", "destroy", "stop"} => Making(n)
  BY <1>1, Places
<1>7. Done(n)' => def'[n] = def[n]
  BY <1>1, <1>2, <1>6
<1>8. op = "virsh-destroy" => "virsh-start" \in Left(work[n].todo)
  <2>1. "virsh-start" \in Must(lab, "virsh-destroy")
    BY Musts
  <2> QED
    BY <1>1, <2>1, FollowsCall
<1>9. ~Window(n) /\ dns[n] # 0 => HostsOf(n)' # {}
  BY <1>1, <1>5 DEF Named
<1>10. ~Window(n) /\ OwnFiles => FromDisk(n)' \subseteq {dns[n]} /\ (dns[n] # 0 => Installing(n)' = {})
  BY <1>1 DEF Named
<1>11. Done(n) /\ OwnFiles => /\ FromDisk(n)' \subseteq {def[n]} /\ Installing(n)' \subseteq {def[n]}
                              /\ IF "edit" \in Left(work[n].todo) THEN FromDisk(n)' = {} ELSE Installing(n)' = {}
  BY <1>1 DEF Named
<1>12. lab.caller = "setup_lab" /\ OwnFiles => FromDisk(n)' \subseteq {0, def'[n]}
  BY <1>1 DEF Named
<1>13. (Window(n) => dns[n] = 0) /\ (Done(n) /\ "register" \notin Left(work[n].todo) => dns[n] = def[n])
  BY DEF Named
<1>14. Named(n)'
  BY <1>1, <1>2, <1>3, <1>4, <1>7, <1>9, <1>10, <1>11, <1>12, <1>13 DEF Named
<1>15. Done(n)' /\ n \notin upset' => Halted(n)' = {} \/ "virsh-start" \in Left(work[n].todo)'
  <2> SUFFICES ASSUME Done(n)', n \notin upset', op # "virsh-start"
               PROVE  Halted(n)' = {} \/ "virsh-start" \in Left(work[n].todo)
    BY <1>1, <1>4
  <2>1. Done(n) /\ ~Making(n) /\ n \notin upset
    BY <1>1, <1>2 DEF UpsetStays
  <2>2. Halted(n) = {} \/ "virsh-start" \in Left(work[n].todo)
    BY <2>1 DEF Served
  <2> QED
    BY <1>1, <1>6, <1>8, <2>1, <2>2
<1>16. Asked(n)' # {} => n \in upset'
  BY <1>1 DEF Served, UpsetStays
<1>17. Served(n)'
  BY <1>15, <1>16 DEF Served
<1> QED
  BY <1>14, <1>17

\* A call of reboot_vm() that skips what is no longer needed.
LEMMA NamedJumps ==
    ASSUME Sound, NEW n \in Nodes, Named(n), Served(n), lab' = lab, Jumps(n)
    PROVE  Named(n)' /\ Served(n)'
<1>1. /\ HostsOf(n)' = HostsOf(n) /\ FromDisk(n)' \subseteq FromDisk(n) /\ Installing(n)' \subseteq Installing(n)
      /\ (Asked(n)' \subseteq Asked(n) \/ n \in upset') /\ (Halted(n)' \subseteq Halted(n) \/ n \in upset')
      /\ dns'[n] = dns[n] /\ def'[n] = def[n] /\ UpsetStays(n)
  BY DEF Jumps, LooksStay, NetStays
<1>2. PICK x \in {"probe", "rebooted?", "stopped?"} : \E op, t : At(n, x) /\ Goes(n, op, t, On(n))
  BY DEF Jumps
<1>3. PICK op, t : At(n, x) /\ Goes(n, op, t, On(n))
  BY <1>2
<1>4. /\ "register" \notin Left(work[n].todo) /\ "edit" \notin Left(work[n].todo) /\ "virsh-start" \notin Left(work[n].todo)
  BY <1>2, <1>3, Places
<1>5. Left(work[n].todo)' \subseteq Left(work[n].todo)
  BY <1>3, GoesDone
<1>6. Done(n)
  <2>1. ~Making(n)
    BY <1>2, <1>3, Places DEF Rebooting
  <2> QED
    BY <1>3, <2>1 DEF Done, At
<1>7. OwnFiles' <=> OwnFiles
  BY DEF OwnFiles
<1>8. ~Window(n) /\ ~Window(n)' /\ "edit" \notin Left(work[n].todo)' /\ "register" \notin Left(work[n].todo)'
  BY <1>4, <1>5 DEF Window
<1>9. Named(n)'
  BY <1>1, <1>4, <1>6, <1>7, <1>8 DEF Named
<1>10. n \notin upset => Halted(n) = {}
  BY <1>4, <1>6 DEF Served
<1>11. Served(n)'
  BY <1>1, <1>10 DEF Served, UpsetStays
<1> QED
  BY <1>9, <1>11

\* find_vm_node() finds no machine: what is left begins with the removal that does nothing.
LEMMA NamedMisses ==
    ASSUME Sound, NEW n \in Nodes, Named(n), Served(n), lab' = lab, Misses(n)
    PROVE  Named(n)' /\ Served(n)'
<1>1. /\ HostsOf(n) = {} /\ FromDisk(n)' \subseteq FromDisk(n) /\ (Asked(n)' \subseteq Asked(n) \/ n \in upset')
      /\ dns'[n] = dns[n] /\ def'[n] = def[n] /\ UpsetStays(n)
  BY DEF Misses, LooksStay, NetStays
<1>2. PICK t : Goes(n, "undefine", t, On(n))
  BY DEF Misses
<1>3. /\ Left(work[n].todo)' = Left(t) /\ Must(lab, "undefine") \subseteq Left(t) /\ (Done(n)' => ~Making(n)')
      /\ (Making(n)' <=> Left(t) \cap Makers # {}) /\ \A o \in Left(t) : Before("undefine", o)
  BY <1>2, GoesDone
<1>4. Must(lab, "undefine") = MakeOf(lab) \cup FilesOf(lab) \cup SelectOf(lab) \cup {"register"}
  BY Musts
<1>5. MakeOf(lab) \subseteq Makers /\ MakeOf(lab) # {}
  BY LabCalls, LeftCalls
<1>6. ~Done(n)'
  BY <1>3, <1>4, <1>5
<1>7. "unregister" \notin Left(t)
  BY <1>3, Ranks DEF Before
<1>8. Window(n)'
  BY <1>3, <1>4, <1>7 DEF Window
<1>9. FromDisk(n) = {}
  BY <1>1, NoMachine
<1>10. dns[n] = 0
  BY <1>1 DEF Named
<1>11. Asked(n)' # {} => n \in upset'
  BY <1>1 DEF Served, UpsetStays
<1> QED
  BY <1>1, <1>6, <1>8, <1>9, <1>10, <1>11, NotDone

\* del_from_dns().
LEMMA NamedUnlists ==
    ASSUME Sound, NEW n \in Nodes, Named(n), Served(n), lab' = lab, Unlists(n)
    PROVE  Named(n)' /\ Served(n)'
<1>1. /\ FromDisk(n)' \subseteq FromDisk(n) /\ (Asked(n)' \subseteq Asked(n) \/ n \in upset')
      /\ dns'[n] = 0 /\ def'[n] = def[n] /\ UpsetStays(n)
  BY DEF Unlists, LooksStay
<1>2. PICK t : Goes(n, "unregister", t, On(n))
  BY DEF Unlists, Call
<1>3. /\ Left(work[n].todo)' = Left(t) /\ Must(lab, "unregister") \subseteq Left(t) /\ (Done(n)' => ~Making(n)')
      /\ (Making(n)' <=> Left(t) \cap Makers # {}) /\ \A o \in Left(t) : Before("unregister", o)
  BY <1>2, GoesDone
<1>4. Must(lab, "unregister") = MakeOf(lab) \cup FilesOf(lab) \cup SelectOf(lab) \cup {"register", RemoveOf(lab)}
  BY Musts
<1>5. MakeOf(lab) \subseteq Makers /\ MakeOf(lab) # {}
  BY LabCalls, LeftCalls
<1>6. ~Done(n)'
  BY <1>3, <1>4, <1>5
<1>7. "unregister" \notin Left(t)
  BY <1>3, Ranks DEF Before
<1>8. Window(n)'
  BY <1>3, <1>4, <1>7 DEF Window
<1>9. lab.caller = "setup_lab" /\ OwnFiles => FromDisk(n)' \subseteq {0, def'[n]}
  BY <1>1 DEF Named
<1>10. Asked(n)' # {} => n \in upset'
  BY <1>1 DEF Served, UpsetStays
<1> QED
  BY <1>1, <1>6, <1>8, <1>9, <1>10, NotDone

\* add_to_dns(): the address is that of the machine that was made.
LEMMA NamedEnlists ==
    ASSUME Sound, NEW n \in Nodes, Known(n), Named(n), Served(n), lab' = lab, Enlists(n)
    PROVE  Named(n)' /\ Served(n)'
<1>1. /\ HostsOf(n)' = HostsOf(n) /\ FromDisk(n)' \subseteq FromDisk(n) /\ Installing(n)' \subseteq Installing(n)
      /\ (Asked(n)' \subseteq Asked(n) \/ n \in upset') /\ (Halted(n)' \subseteq Halted(n) \/ n \in upset')
      /\ dns'[n] = def[n] /\ def'[n] = def[n] /\ UpsetStays(n)
  BY DEF Enlists, LooksStay
<1>2. PICK t : At(n, "register") /\ Goes(n, "register", t, On(n))
  BY DEF Enlists, Call
<1>3. /\ Left(work[n].todo)' = Left(t) /\ Left(t) \subseteq Left(work[n].todo) /\ \A o \in Left(t) : Before("register", o)
  BY <1>2, GoesDone
<1>4. Done(n) /\ HostsOf(n) # {}
  <2>1. ~Making(n) /\ Busy(n)
    BY <1>2, Places DEF At
  <2>2. On(n) \in HostsOf(n)
    BY <2>1 DEF Known
  <2> QED
    BY <2>1, <2>2 DEF Done
<1>5. "edit" \notin Left(work[n].todo) /\ "virsh-start" \notin Left(work[n].todo)
  BY <1>2, Places
<1>6. "register" \notin Left(t)
  BY <1>3, Ranks DEF Before
<1>7. ~Window(n)' /\ "edit" \notin Left(work[n].todo)'
  BY <1>3, <1>5, <1>6 DEF Window
<1>8. OwnFiles' <=> OwnFiles
  BY DEF OwnFiles
<1>9. OwnFiles => FromDisk(n)' \subseteq {def[n]} /\ Installing(n)' = {}
  BY <1>1, <1>4, <1>5 DEF Named
<1>10. Named(n)'
  BY <1>1, <1>4, <1>7, <1>8, <1>9 DEF Named
<1>11. n \notin upset => Halted(n) = {}
  BY <1>4, <1>5 DEF Served
<1>12. Served(n)'
  BY <1>1, <1>11 DEF Served, UpsetStays
<1> QED
  BY <1>10, <1>12

\* set_boot_disk_only(): the machine of the installer is one that boots from disk.
LEMMA NamedEdits ==
    ASSUME Sound, NEW n \in Nodes, Named(n), Served(n), lab' = lab, Edits(n)
    PROVE  Named(n)' /\ Served(n)'
<1>1. /\ HostsOf(n)' = HostsOf(n) /\ FromDisk(n)' \subseteq FromDisk(n) \cup Installing(n) /\ Installing(n)' = {}
      /\ Asked(n)' \subseteq Asked(n) /\ Halted(n)' \subseteq Halted(n)
      /\ dns'[n] = dns[n] /\ def'[n] = def[n] /\ UpsetStays(n)
  BY DEF Edits, NetStays
<1>2. PICK t : /\ At(n, "edit") /\ Goes(n, "edit", t, On(n)) /\ Left(work[n].todo) = {"edit"} \cup Left(t)
  BY DEF Edits, Call
<1>3. Left(work[n].todo)' = Left(t) /\ \A o \in Left(t) : Before("edit", o)
  BY <1>2, GoesDone
<1>4. Done(n) /\ "edit" \in Left(work[n].todo) /\ "unregister" \notin Left(work[n].todo)
  <2>1. ~Making(n) /\ Busy(n) /\ "unregister" \notin Left(work[n].todo)
    BY <1>2, Places DEF At
  <2> QED
    BY <1>2, <2>1 DEF Done
<1>5. "edit" \notin Left(t)
  BY <1>3, Ranks DEF Before
<1>6. /\ "register" \in Left(work[n].todo)' <=> "register" \in Left(work[n].todo)
      /\ "virsh-start" \in Left(work[n].todo)' <=> "virsh-start" \in Left(work[n].todo)
      /\ Window(n)' <=> Window(n)
      /\ "edit" \notin Left(work[n].todo)'
      /\ Window(n) <=> "register" \in Left(work[n].todo)
  BY <1>2, <1>3, <1>4, <1>5 DEF Window
<1>7. OwnFiles' <=> OwnFiles
  BY DEF OwnFiles
<1>8. OwnFiles => FromDisk(n)' \subseteq {def[n]}
  BY <1>1, <1>4 DEF Named
<1>9. ~Window(n) => dns[n] = def[n]
  BY <1>4, <1>6 DEF Named
<1>10. (Window(n) => dns[n] = 0) /\ (~Window(n) /\ dns[n] # 0 => HostsOf(n) # {})
  BY DEF Named
<1>11. Named(n)'
  BY <1>1, <1>6, <1>7, <1>8, <1>9, <1>10 DEF Named
<1>12. n \notin upset => Halted(n) = {} \/ "virsh-start" \in Left(work[n].todo)
  BY <1>4 DEF Served
<1>13. Served(n)'
  BY <1>1, <1>6, <1>12 DEF Served, UpsetStays
<1> QED
  BY <1>11, <1>13

\* create_vm(): the machine has the address of the definition, and its record is not written yet.
LEMMA NamedBrings ==
    ASSUME Sound, NEW n \in Nodes, Named(n), Served(n), lab' = lab, Brings(n)
    PROVE  Named(n)' /\ Served(n)'
<1>0. PICK op \in Makers : \E t :
      /\ Call(n, op, t) /\ NetStays(n) /\ UpsetStays(n) /\ Asked(n)' = {} /\ (Halted(n)' = {} \/ "virsh-start" \in Left(t))
      /\ OwnFiles => /\ FromDisk(n)' \subseteq {def[n]} /\ Installing(n)' \subseteq {def[n]}
                     /\ IF "edit" \in Left(t) THEN FromDisk(n)' = {} ELSE Installing(n)' = {}
  BY DEF Brings
<1>1. PICK t :
      /\ Call(n, op, t) /\ NetStays(n) /\ UpsetStays(n) /\ Asked(n)' = {} /\ (Halted(n)' = {} \/ "virsh-start" \in Left(t))
      /\ OwnFiles => /\ FromDisk(n)' \subseteq {def[n]} /\ Installing(n)' \subseteq {def[n]}
                     /\ IF "edit" \in Left(t) THEN FromDisk(n)' = {} ELSE Installing(n)' = {}
  BY <1>0
<1>2. At(n, op) /\ Goes(n, op, t, On(n))
  BY <1>1 DEF Call
<1>3. Left(work[n].todo)' = Left(t) /\ Left(t) \subseteq Left(work[n].todo) /\ Must(lab, op) \subseteq Left(t)
  BY <1>2, GoesDone
<1>4. "register" \in Left(t)
  <2>1. Must(lab, op) = {"register"} \cup (IF lab.method = "autoinstall" THEN {"edit"} ELSE {})
                          \cup (IF lab.method \in {"autoinstall", "location"} THEN {"virsh-start"} ELSE {})
    BY <1>0, Musts
  <2> QED
    BY <1>3, <2>1
<1>5. "unregister" \notin Left(work[n].todo)
  BY <1>0, <1>2, Places
<1>6. Window(n) /\ Window(n)' /\ "register" \in Left(work[n].todo)'
  BY <1>3, <1>4, <1>5 DEF Window
<1>7. OwnFiles' <=> OwnFiles
  BY DEF OwnFiles
<1>8. dns'[n] = 0 /\ def'[n] = def[n]
  BY <1>1, <1>6 DEF Named, NetStays
<1>9. Named(n)'
  BY <1>1, <1>3, <1>6, <1>7, <1>8 DEF Named
<1>10. Served(n)'
  BY <1>1, <1>3 DEF Served
<1> QED
  BY <1>9, <1>10

\* A worker's call keeps the names of every node.
LEMMA NetGoes ==
    ASSUME Sound, AllKnown, LabNet, AllNamed, NEW n \in Nodes, WorkerNet(n)
    PROVE  LabNet' /\ AllNamed'
<1>1. /\ lab' = lab /\ Busy(n) /\ missed \subseteq missed' /\ (queue' = queue \/ (~lab.parallel /\ queue' = {}))
      /\ \A k \in Nodes \ {n} : work'[k] = work[k] /\ NetStays(k) /\ UpsetStays(k) /\ LooksStay(k)
      /\ dns'[n] \in {0, def[n], dns[n]} /\ (def'[n] = def[n] \/ def[n] = 0)
      /\ n \notin missed' => Own(n)
  BY DEF WorkerNet
<1>2. lab.caller \in {"setup_lab", "setup_vm"}
  BY LabIsLab DEF Sound, StateOK
<1>3. ASSUME lab.caller = "setup_lab"
      PROVE  /\ \A m, k \in Nodes : m # k /\ def'[m] # 0 => def'[m] # def'[k]
             /\ \A k \in Nodes : dns'[k] \in {0, def'[k]} /\ def'[k] # 0
  <2>1. \A k \in Nodes : def[k] # 0
    BY <1>1, <1>3 DEF LabNet
  <2>2. \A k \in Nodes : def'[k] = def[k]
    BY <1>1, <2>1 DEF NetStays
  <2>3. \A k \in Nodes : dns[k] \in {0, def[k]}
    BY <1>3 DEF LabNet
  <2>4. \A k \in Nodes : dns'[k] \in {0, def[k]}
    BY <1>1, <2>3 DEF NetStays
  <2>5. \A m, k \in Nodes : m # k /\ def[m] # 0 => def[m] # def[k]
    BY <1>3 DEF LabNet
  <2> QED
    BY <2>1, <2>2, <2>4, <2>5
<1>4. lab.caller = "setup_vm" /\ ~lab.parallel => queue = {} /\ queue' = {}
  BY <1>1 DEF LabNet
<1>5. LabNet'
  BY <1>1, <1>3, <1>4 DEF LabNet
<1>6. ASSUME NEW k \in Nodes \ {n} PROVE Done(k)' => Done(k)
  <2>1. work'[k] = work[k]
    BY <1>1
  <2>2. (Busy(k)' <=> Busy(k)) /\ (Making(k)' <=> Making(k))
    BY <2>1 DEF Busy, Making
  <2>3. k \notin queue' \/ lab.caller = "setup_lab" => k \notin queue \/ lab.caller = "setup_lab"
    BY <1>1, <1>2, <1>4
  <2> QED
    BY <1>1, <2>1, <2>2, <2>3 DEF Done
<1>7. ASSUME NEW k \in Nodes \ {n}, k \notin missed' PROVE Named(k)' /\ Served(k)'
  <2>1. Named(k) /\ Served(k) /\ work'[k] = work[k] /\ NetStays(k) /\ UpsetStays(k) /\ LooksStay(k)
    BY <1>1, <1>7 DEF AllNamed
  <2> QED
    BY <1>1, <1>6, <2>1, NamedOther
<1>8. ASSUME n \notin missed' PROVE Named(n)' /\ Served(n)'
  <2>1. Named(n) /\ Served(n) /\ Known(n) /\ Own(n)
    BY <1>1, <1>8 DEF AllNamed, AllKnown
  <2>2. CASE DiesThere(n)
    BY <1>1, <2>1, <2>2, NamedDies
  <2>3. CASE Finds(n)
    BY <1>1, <2>1, <2>3, NamedFinds
  <2>4. CASE Passes(n)
    BY <1>1, <2>1, <2>4, NamedPasses
  <2>5. CASE Jumps(n)
    BY <1>1, <2>1, <2>5, NamedJumps
  <2>6. CASE Misses(n)
    BY <1>1, <2>1, <2>6, NamedMisses
  <2>7. CASE Unlists(n)
    BY <1>1, <2>1, <2>7, NamedUnlists
  <2>8. CASE Enlists(n)
    BY <1>1, <2>1, <2>8, NamedEnlists
  <2>9. CASE Edits(n)
    BY <1>1, <2>1, <2>9, NamedEdits
  <2>10. CASE Brings(n)
    BY <1>1, <2>1, <2>10, NamedBrings
  <2> QED
    BY <2>1, <2>2, <2>3, <2>4, <2>5, <2>6, <2>7, <2>8, <2>9, <2>10 DEF Own
<1>9. AllNamed'
  <2> SUFFICES ASSUME NEW k \in Nodes \ missed' PROVE Named(k)' /\ Served(k)'
    BY DEF AllNamed
  <2>1. CASE k = n
    BY <1>8, <2>1 DEF Named, Served, Window, Done, Busy, HostsOf, FromDisk, Installing, Halted, Asked, Making
  <2> QED
    BY <1>7, <2>1
<1> QED
  BY <1>5, <1>9

(***************************************************************************)
(* What each call does to the names                                        *)
(***************************************************************************)
\* Nothing of n is new.
Steady(n) ==
    /\ HostsOf(n)' = HostsOf(n) /\ FromDisk(n)' \subseteq FromDisk(n) /\ Installing(n)' \subseteq Installing(n)
    /\ Asked(n)' \subseteq Asked(n) /\ Halted(n)' \subseteq Halted(n)
\* What is left alone by a call that is not about addresses.
Frame(n) == /\ lab' = lab /\ queue' = queue /\ dns' = dns /\ def' = def /\ missed \subseteq missed' /\ missed' \subseteq missed \cup {n}
            /\ upset \subseteq upset'

\* No machine changes.
LEMMA SameSteady == ASSUME domains' = domains PROVE (\A k : Steady(k)) /\ (Powered => Powered')
<1>1. ASSUME NEW k PROVE Steady(k)
  BY DEF Steady, HostsOf, FromDisk, Installing, Asked, Halted
<1>2. Powered => Powered'
  BY DEF Powered
<1> QED
  BY <1>1, <1>2

\* The machine d changes to e.
LEMMA SwapSteady ==
    ASSUME NEW d, NEW e, Swaps(d, e), Same(d, e), d \in MachineType
    PROVE  /\ \A k : k # d.name => Steady(k)
           /\ HostsOf(d.name)' = HostsOf(d.name)
           /\ e.boot = d.boot => FromDisk(d.name)' \subseteq FromDisk(d.name) /\ Installing(d.name)' \subseteq Installing(d.name)
           /\ e.boot = "disk" => FromDisk(d.name)' \subseteq FromDisk(d.name) \cup Installing(d.name)
           /\ ("shutdown" \in e.pend => "shutdown" \in d.pend) => Asked(d.name)' \subseteq Asked(d.name)
           /\ (d.on => e.on) => Halted(d.name)' \subseteq Halted(d.name)
           /\ Powered /\ (e.up => d.up \/ d.addr # 0) => Powered'
<1>1. domains' = (domains \ {d}) \cup {e} /\ d \in domains /\ e.host = d.host /\ e.name = d.name /\ e.addr = d.addr
      /\ e.on \in BOOLEAN /\ d.on \in BOOLEAN /\ d.boot \in {"disk", "installer"}
  BY DEF Swaps, Same, MachineType
<1>2. ASSUME NEW k, k # d.name PROVE Steady(k)
  <2>1. \A x \in domains' : x.name = k => x \in domains
    BY <1>1, <1>2
  <2>2. \A x \in domains : x.name = k => x \in domains'
    BY <1>1, <1>2
  <2>3. HostsOf(k)' = HostsOf(k)
    BY <2>1, <2>2 DEF HostsOf
  <2>4. FromDisk(k)' \subseteq FromDisk(k) /\ Installing(k)' \subseteq Installing(k)
    BY <2>1 DEF FromDisk, Installing
  <2>5. Asked(k)' \subseteq Asked(k) /\ Halted(k)' \subseteq Halted(k)
    BY <2>1 DEF Asked, Halted
  <2> QED
    BY <2>3, <2>4, <2>5 DEF Steady
<1>3. HostsOf(d.name)' = HostsOf(d.name)
  BY <1>1 DEF HostsOf
<1>4. ASSUME e.boot = d.boot PROVE FromDisk(d.name)' \subseteq FromDisk(d.name) /\ Installing(d.name)' \subseteq Installing(d.name)
  BY <1>1, <1>4 DEF FromDisk, Installing
<1>5. ASSUME e.boot = "disk" PROVE FromDisk(d.name)' \subseteq FromDisk(d.name) \cup Installing(d.name)
  BY <1>1, <1>5 DEF FromDisk, Installing
<1>6. ASSUME "shutdown" \in e.pend => "shutdown" \in d.pend PROVE Asked(d.name)' \subseteq Asked(d.name)
  BY <1>1, <1>6 DEF Asked
<1>7. ASSUME d.on => e.on PROVE Halted(d.name)' \subseteq Halted(d.name)
  BY <1>1, <1>7 DEF Halted
<1>8. ASSUME Powered, e.up => d.up \/ d.addr # 0 PROVE Powered'
  BY <1>1, <1>8 DEF Powered
<1> QED
  BY <1>2, <1>3, <1>4, <1>5, <1>6, <1>7, <1>8

\* Machines of n are removed.
LEMMA LessSteady ==
    ASSUME NEW n, NEW gone, gone \subseteq Mine(n), domains' = domains \ gone
    PROVE  /\ \A k : k # n => Steady(k)
           /\ FromDisk(n)' \subseteq FromDisk(n) /\ Installing(n)' \subseteq Installing(n)
           /\ Asked(n)' \subseteq Asked(n) /\ Halted(n)' \subseteq Halted(n)
           /\ Powered => Powered'
<1>1. ASSUME NEW k, k # n PROVE Steady(k)
  <2>1. \A x \in domains' : x \in domains
    OBVIOUS
  <2>2. \A x \in domains : x.name = k => x \in domains'
    BY <1>1 DEF Mine, Has
  <2>3. HostsOf(k)' = HostsOf(k)
    BY <2>1, <2>2 DEF HostsOf
  <2>4. FromDisk(k)' \subseteq FromDisk(k) /\ Installing(k)' \subseteq Installing(k)
    BY <2>1 DEF FromDisk, Installing
  <2>5. Asked(k)' \subseteq Asked(k) /\ Halted(k)' \subseteq Halted(k)
    BY <2>1 DEF Asked, Halted
  <2> QED
    BY <2>3, <2>4, <2>5 DEF Steady
<1>2. FromDisk(n)' \subseteq FromDisk(n) /\ Installing(n)' \subseteq Installing(n)
  BY DEF FromDisk, Installing
<1>3. Asked(n)' \subseteq Asked(n) /\ Halted(n)' \subseteq Halted(n)
  BY DEF Asked, Halted
<1>4. Powered => Powered'
  BY DEF Powered
<1> QED
  BY <1>1, <1>2, <1>3, <1>4

\* A machine of n is made.
LEMMA MakesSteady ==
    ASSUME Sound, NEW n \in Nodes, On(n) \in Hosts, NEW e, Makes(n, e)
    PROVE  (\A k : k # n => Steady(k)) /\ (Powered => Powered')
<1>1. domains' = domains \cup {e} /\ e.name = n /\ e.up = FALSE
  BY NewMachine DEF Makes
<1>2. ASSUME NEW k, k # n PROVE Steady(k)
  <2>1. \A x \in domains' : x.name = k => x \in domains
    BY <1>1, <1>2
  <2>2. \A x \in domains : x \in domains'
    BY <1>1
  <2>3. HostsOf(k)' = HostsOf(k)
    BY <2>1, <2>2 DEF HostsOf
  <2>4. FromDisk(k)' \subseteq FromDisk(k) /\ Installing(k)' \subseteq Installing(k)
    BY <2>1 DEF FromDisk, Installing
  <2>5. Asked(k)' \subseteq Asked(k) /\ Halted(k)' \subseteq Halted(k)
    BY <2>1 DEF Asked, Halted
  <2> QED
    BY <2>3, <2>4, <2>5 DEF Steady
<1>3. Powered => Powered'
  BY <1>1 DEF Powered
<1> QED
  BY <1>2, <1>3

\* The worker's call, with what it does to its own node.
LEMMA OwnNet ==
    ASSUME NEW n \in Nodes, NEW t, NEW h, NEW e, Becomes(n, t, h, e), Busy(n), Frame(n),
           \A k : k # n => Steady(k), n \notin missed' => Own(n)
    PROVE  WorkerNet(n)
<1>1. \A k \in Nodes \ {n} : work'[k] = work[k]
  BY DEF Becomes
<1>2. ASSUME NEW k \in Nodes \ {n} PROVE NetStays(k) /\ UpsetStays(k) /\ LooksStay(k)
  BY DEF Frame, NetStays, UpsetStays, LooksStay, Steady
<1>3. dns'[n] = dns[n] /\ def'[n] = def[n]
  BY DEF Frame
<1> QED
  BY <1>1, <1>2, <1>3 DEF WorkerNet, Frame

\* A node that has not been missed has one machine at most.
LEMMA OnlyMachine ==
    ASSUME Sound, NEW n, Known(n), NEW d \in domains, NEW e \in domains, d.name = n, e.name = n
    PROVE  d = e
<1>1. d.host \in HostsOf(n) /\ e.host \in HostsOf(n)
  BY DEF HostsOf
<1>2. d.host = e.host
  BY <1>1 DEF Known
<1> QED
  BY <1>2 DEF Sound, MachinesGood, OnePerHost

\* A call that is not about the names, and what it may do to the machine.
LEMMA PassNet ==
    ASSUME Sound, NEW n \in Nodes, NEW op, NEW t, NEW h, At(n, op), Goes(n, op, t, h), Left(work[n].todo) = {op} \cup Left(t),
           op \notin Makers \cup {"unregister", "register", "edit"}, Frame(n), \A k : k # n => Steady(k),
           n \notin missed' =>
             /\ HostsOf(n)' = HostsOf(n) \/ op \in {"undefine", "delete"}
             /\ FromDisk(n)' \subseteq FromDisk(n) /\ Installing(n)' \subseteq Installing(n)
             /\ Asked(n)' \subseteq Asked(n) \/ n \in upset'
             /\ Halted(n)' \subseteq Halted(n) \/ n \in upset' \/ op \in {"destroy", "stop", "virsh-destroy"}
             /\ op = "virsh-start" => Halted(n)' = {} \/ n \in upset'
    PROVE  WorkerNet(n)
<1>1. dns'[n] = dns[n] /\ def'[n] = def[n] /\ UpsetStays(n)
  BY DEF Frame, UpsetStays
<1>2. n \notin missed' => Passes(n)
  BY <1>1 DEF Passes
<1>3. Busy(n)
  BY DEF At
<1> QED
  BY <1>2, <1>3, OwnNet DEF Own, Goes

\* The same for a call that leaves every machine alone.
LEMMA QuietNet ==
    ASSUME Sound, NEW n \in Nodes, NEW op, NEW t, NEW h, At(n, op), Goes(n, op, t, h), Left(work[n].todo) = {op} \cup Left(t),
           op \notin Makers \cup {"unregister", "register", "edit"}, Frame(n), domains' = domains,
           op = "virsh-start" => n \in upset'
    PROVE  WorkerNet(n) /\ (Powered => Powered')
<1>1. (\A k : Steady(k)) /\ (Powered => Powered')
  BY SameSteady
<1>2. WorkerNet(n)
  BY <1>1, PassNet DEF Steady
<1> QED
  BY <1>1, <1>2

\* A call to the machine of n on the worker's host.
LEMMA TouchNet ==
    ASSUME Sound, NEW n \in Nodes, NEW op, NEW t, Call(n, op, t),
           op \notin Makers \cup {"unregister", "register", "edit", "virsh-start"}, Frame(n),
           \/ domains' = domains
           \/ \E d \in Mine(n) : \E e : /\ Swaps(d, e) /\ Same(d, e) /\ e.boot = d.boot /\ e.up \in {FALSE, d.up}
                                        /\ ("shutdown" \in e.pend => "shutdown" \in d.pend) \/ n \in upset'
                                        /\ (d.on => e.on) \/ op \in {"destroy", "stop", "virsh-destroy"}
    PROVE  WorkerNet(n) /\ (Powered => Powered')
<1>1. At(n, op) /\ Goes(n, op, t, On(n)) /\ Left(work[n].todo) = {op} \cup Left(t)
  BY DEF Call
<1>2. CASE domains' = domains
  BY <1>1, <1>2, QuietNet
<1>3. CASE \E d \in Mine(n) : \E e : /\ Swaps(d, e) /\ Same(d, e) /\ e.boot = d.boot /\ e.up \in {FALSE, d.up}
                                     /\ ("shutdown" \in e.pend => "shutdown" \in d.pend) \/ n \in upset'
                                     /\ (d.on => e.on) \/ op \in {"destroy", "stop", "virsh-destroy"}
  <2>0. PICK d \in Mine(n) : \E e : /\ Swaps(d, e) /\ Same(d, e) /\ e.boot = d.boot /\ e.up \in {FALSE, d.up}
                                    /\ ("shutdown" \in e.pend => "shutdown" \in d.pend) \/ n \in upset'
                                    /\ (d.on => e.on) \/ op \in {"destroy", "stop", "virsh-destroy"}
    BY <1>3
  <2>1. PICK e : /\ Swaps(d, e) /\ Same(d, e) /\ e.boot = d.boot /\ e.up \in {FALSE, d.up}
                 /\ ("shutdown" \in e.pend => "shutdown" \in d.pend) \/ n \in upset'
                 /\ (d.on => e.on) \/ op \in {"destroy", "stop", "virsh-destroy"}
    BY <2>0
  <2>2. d \in MachineType /\ d.name = n
    BY MineTyped
  <2>3. e.up => d.up \/ d.addr # 0
    BY <2>1
  <2>4. /\ \A k : k # n => Steady(k)
        /\ HostsOf(n)' = HostsOf(n) /\ FromDisk(n)' \subseteq FromDisk(n) /\ Installing(n)' \subseteq Installing(n)
        /\ ("shutdown" \in e.pend => "shutdown" \in d.pend) => Asked(n)' \subseteq Asked(n)
        /\ (d.on => e.on) => Halted(n)' \subseteq Halted(n)
        /\ Powered => Powered'
    BY <2>1, <2>2, <2>3, SwapSteady
  <2>5. WorkerNet(n)
    BY <1>1, <2>1, <2>4, PassNet
  <2> QED
    BY <2>4, <2>5
<1> QED
  BY <1>2, <1>3

\* A worker that raises.
LEMMA DiesNet ==
    ASSUME Sound, NEW n \in Nodes, NEW op \in Deadly, At(n, op), Becomes(n, <<>>, NoHost, "failed"), Frame(n), domains' = domains
    PROVE  WorkerNet(n) /\ (Powered => Powered')
<1>1. (\A k : Steady(k)) /\ (Powered => Powered')
  BY SameSteady
<1>2. dns'[n] = dns[n] /\ UpsetStays(n) /\ LooksStay(n)
  BY <1>1 DEF Frame, UpsetStays, Steady, LooksStay
<1>3. DiesThere(n)
  BY <1>2 DEF DiesThere
<1>4. Busy(n)
  BY DEF At
<1>5. WorkerNet(n)
  BY <1>1, <1>3, <1>4, OwnNet DEF Own
<1> QED
  BY <1>1, <1>5

\* The calls on files.
LEMMA FilesNet ==
    ASSUME Sound, NEW n \in Nodes,
           CopyImage(n) \/ Customize(n) \/ Stage(n) \/ Seed(n) \/ AnswerFile(n) \/ PushFiles(n)
    PROVE  WorkerNet(n) /\ (Powered => Powered')
<1>1. \E op \in {"copy", "customize", "stage", "seed", "answer", "push"} : \E t :
        Call(n, op, t) /\ domains' = domains /\ KeptStay /\ AddressesStay /\ MarksStay
  <2>1. CASE CopyImage(n)
    BY <2>1, CopyImageDoes DEF Command2
  <2>2. CASE Customize(n)
    BY <2>2, CustomizeDoes DEF Command2
  <2>3. CASE Stage(n)
    BY <2>3, StageDoes DEF Command2
  <2>4. CASE Seed(n)
    BY <2>4, SeedDoes DEF Command2
  <2>5. CASE AnswerFile(n) \/ PushFiles(n)
    BY <2>5, QuietlyDoes DEF RestStays
  <2> QED
    BY <2>1, <2>2, <2>3, <2>4, <2>5
<1>2. PICK op \in {"copy", "customize", "stage", "seed", "answer", "push"} : \E t :
        Call(n, op, t) /\ domains' = domains /\ KeptStay /\ AddressesStay /\ MarksStay
  BY <1>1
<1>3. PICK t : Call(n, op, t) /\ domains' = domains /\ KeptStay /\ AddressesStay /\ MarksStay
  BY <1>2
<1>4. Frame(n)
  BY <1>3 DEF Frame, KeptStay, AddressesStay, MarksStay
<1>5. op \notin Makers \cup {"unregister", "register", "edit", "virsh-start"}
  BY <1>2 DEF Makers
<1> QED
  BY <1>3, <1>4, <1>5, TouchNet

\* The calls to a machine, but for its start and its edit.
LEMMA MachineNet ==
    ASSUME Sound, NEW n \in Nodes, AskReboot(n) \/ Listen(n) \/ Reset(n) \/ AskShutdown(n) \/ Destroy(n)
    PROVE  WorkerNet(n) /\ (Powered => Powered')
<1>1. CASE AskReboot(n) \/ Listen(n) \/ Reset(n)
  <2>0. PICK op \in {"virsh-reboot", "listen", "reset", "restart"} : \E t :
             /\ Command1(n, op, t)
             /\ \/ Mine(n) = {} /\ domains' = domains
                \/ \E d \in Mine(n) : \E e : /\ Swaps(d, e) /\ Same(d, e) /\ e.on = d.on /\ e.boot = d.boot
                                             /\ e.pend \subseteq d.pend \cup {"reboot"} /\ e.up \in {FALSE, d.up}
    BY <1>1, TouchDoes
  <2>1. PICK t :
             /\ Command1(n, op, t)
             /\ \/ Mine(n) = {} /\ domains' = domains
                \/ \E d \in Mine(n) : \E e : /\ Swaps(d, e) /\ Same(d, e) /\ e.on = d.on /\ e.boot = d.boot
                                             /\ e.pend \subseteq d.pend \cup {"reboot"} /\ e.up \in {FALSE, d.up}
    BY <2>0
  <2>2. Frame(n) /\ Call(n, op, t)
    BY <2>1 DEF Command1, RestStays, Frame, KeptStay, AddressesStay, MarksStay
  <2>3. op \notin Makers \cup {"unregister", "register", "edit", "virsh-start"}
    BY <2>0 DEF Makers
  <2>4. \/ domains' = domains
        \/ \E d \in Mine(n) : \E e : /\ Swaps(d, e) /\ Same(d, e) /\ e.boot = d.boot /\ e.up \in {FALSE, d.up}
                                     /\ ("shutdown" \in e.pend => "shutdown" \in d.pend) \/ n \in upset'
                                     /\ (d.on => e.on) \/ op \in {"destroy", "stop", "virsh-destroy"}
    BY <2>1
  <2> QED
    BY <2>2, <2>3, <2>4, TouchNet
<1>2. CASE AskShutdown(n)
  <2>1. PICK t : /\ Call(n, "virsh-shutdown", t) /\ KeptStay /\ AddressesStay /\ missed' = missed /\ upset' = upset \cup {n}
                 /\ \/ Mine(n) = {} /\ domains' = domains
                    \/ \E d \in Mine(n) : \E e : /\ Swaps(d, e) /\ Same(d, e) /\ e.on = d.on /\ e.boot = d.boot /\ e.up = d.up
                                                 /\ e.pend \subseteq d.pend \cup {"shutdown"}
    BY <1>2, AskShutdownDoes
  <2>2. Frame(n) /\ n \in upset'
    BY <2>1 DEF Frame, KeptStay, AddressesStay
  <2>3. \/ domains' = domains
        \/ \E d \in Mine(n) : \E e : /\ Swaps(d, e) /\ Same(d, e) /\ e.boot = d.boot /\ e.up \in {FALSE, d.up}
                                     /\ ("shutdown" \in e.pend => "shutdown" \in d.pend) \/ n \in upset'
                                     /\ (d.on => e.on) \/ "virsh-shutdown" \in {"destroy", "stop", "virsh-destroy"}
    BY <2>1, <2>2
  <2> QED
    BY <2>1, <2>2, <2>3, TouchNet DEF Makers
<1>3. CASE Destroy(n)
  <2>0. PICK op \in {"destroy", "stop", "virsh-destroy"} : \E t :
             /\ Command1(n, op, t)
             /\ (Mine(n) = {} /\ domains' = domains) \/ \E d \in Mine(n) : \E e : Switched(d, e, FALSE) /\ e.up = FALSE /\ e.pend = {}
    BY <1>3, DestroyDoes
  <2>1. PICK t :
             /\ Command1(n, op, t)
             /\ (Mine(n) = {} /\ domains' = domains) \/ \E d \in Mine(n) : \E e : Switched(d, e, FALSE) /\ e.up = FALSE /\ e.pend = {}
    BY <2>0
  <2>2. Frame(n) /\ Call(n, op, t)
    BY <2>1 DEF Command1, RestStays, Frame, KeptStay, AddressesStay, MarksStay
  <2>3. op \notin Makers \cup {"unregister", "register", "edit", "virsh-start"}
    BY <2>0 DEF Makers
  <2>4. \/ domains' = domains
        \/ \E d \in Mine(n) : \E e : /\ Swaps(d, e) /\ Same(d, e) /\ e.boot = d.boot /\ e.up \in {FALSE, d.up}
                                     /\ ("shutdown" \in e.pend => "shutdown" \in d.pend) \/ n \in upset'
                                     /\ (d.on => e.on) \/ op \in {"destroy", "stop", "virsh-destroy"}
    BY <2>0, <2>1 DEF Switched
  <2> QED
    BY <2>2, <2>3, <2>4, TouchNet
<1> QED
  BY <1>1, <1>2, <1>3

\* A machine is switched on: where a worker starts its machine, it is the node's one.
LEMMA StartNet ==
    ASSUME Sound, NEW n \in Nodes, n \notin missed => Known(n), StartDomain(n)
    PROVE  WorkerNet(n) /\ (Powered => Powered')
<1>0. PICK op \in {"virsh-start", "start-again"} : \E t :
        /\ Command1(n, op, t)
        /\ (Mine(n) = {} /\ domains' = domains) \/ \E d \in Mine(n) : \E e : Switched(d, e, TRUE)
  BY StartDomainDoes
<1>1. PICK t :
        /\ Command1(n, op, t)
        /\ (Mine(n) = {} /\ domains' = domains) \/ \E d \in Mine(n) : \E e : Switched(d, e, TRUE)
  BY <1>0
<1>2. Frame(n) /\ Call(n, op, t) /\ missed' = missed
  BY <1>1 DEF Command1, RestStays, Frame, KeptStay, AddressesStay, MarksStay
<1>3. At(n, op) /\ Goes(n, op, t, On(n)) /\ Left(work[n].todo) = {op} \cup Left(t)
      /\ op \notin Makers \cup {"unregister", "register", "edit"}
  BY <1>0, <1>2 DEF Call, Makers
<1>4. ASSUME op = "virsh-start", n \notin missed PROVE Mine(n) # {}
  <2>1. ~Making(n) /\ Busy(n)
    BY <1>3, <1>4, Places DEF At
  <2>2. On(n) \in HostsOf(n)
    BY <1>4, <2>1 DEF Known
  <2> QED
    BY <2>2, MineHere
<1>5. CASE Mine(n) = {} /\ domains' = domains
  <2>1. (\A k : Steady(k)) /\ (Powered => Powered')
    BY <1>5, SameSteady
  <2>2. n \notin missed' => op # "virsh-start"
    BY <1>2, <1>4, <1>5
  <2>3. WorkerNet(n)
    BY <1>2, <1>3, <2>1, <2>2, PassNet DEF Steady
  <2> QED
    BY <2>1, <2>3
<1>6. CASE \E d \in Mine(n) : \E e : Switched(d, e, TRUE)
  <2>0. PICK d \in Mine(n) : \E e : Switched(d, e, TRUE)
    BY <1>6
  <2>1. PICK e : Switched(d, e, TRUE)
    BY <2>0
  <2>2. /\ Swaps(d, e) /\ Same(d, e) /\ e.on = TRUE /\ e.boot = d.boot /\ e.pend \subseteq d.pend /\ e.up \in {FALSE, d.up}
        /\ d \in MachineType /\ d.name = n /\ d \in domains
    BY <2>1, MineTyped DEF Switched
  <2>3. /\ \A k : k # n => Steady(k)
        /\ HostsOf(n)' = HostsOf(n) /\ FromDisk(n)' \subseteq FromDisk(n) /\ Installing(n)' \subseteq Installing(n)
        /\ Asked(n)' \subseteq Asked(n) /\ Halted(n)' \subseteq Halted(n)
        /\ Powered => Powered'
    BY <2>2, SwapSteady
  <2>4. ASSUME n \notin missed PROVE Halted(n)' = {}
    <3>1. \A x \in domains' : x.name = n => x.on = TRUE
      <4>1. domains' = (domains \ {d}) \cup {e}
        BY <2>2 DEF Swaps
      <4>2. \A x \in domains : x.name = n => x = d
        BY <2>2, <2>4, OnlyMachine
      <4> QED
        BY <2>2, <4>1, <4>2
    <3> QED
      BY <3>1 DEF Halted
  <2>5. WorkerNet(n)
    BY <1>2, <1>3, <2>3, <2>4, PassNet
  <2> QED
    BY <2>3, <2>5
<1> QED
  BY <1>1, <1>5, <1>6

\* The installer's kernel is taken out of the node's one machine.
LEMMA EditNet ==
    ASSUME Sound, NEW n \in Nodes, n \notin missed => Known(n), EditBoot(n)
    PROVE  WorkerNet(n) /\ (Powered => Powered')
<1>1. PICK t : /\ Command1(n, "edit", t)
               /\ \/ Mine(n) = {} /\ domains' = domains
                  \/ \E d \in Mine(n) : \E e : /\ Swaps(d, e) /\ Same(d, e) /\ e.on = d.on /\ e.boot = "disk" /\ e.pend = d.pend
                                               /\ e.up = d.up
  BY EditBootDoes
<1>2. Frame(n) /\ Call(n, "edit", t) /\ missed' = missed
  BY <1>1 DEF Command1, RestStays, Frame, KeptStay, AddressesStay, MarksStay
<1>3. At(n, "edit") /\ Becomes(n, t, On(n), IF t = <<>> THEN "ok" ELSE "none") /\ Busy(n)
  BY <1>2 DEF Call, Goes, At
<1>4. ASSUME n \notin missed PROVE Mine(n) # {}
  <2>1. ~Making(n)
    BY <1>3, Places
  <2>2. On(n) \in HostsOf(n)
    BY <1>3, <1>4, <2>1 DEF Known
  <2> QED
    BY <2>2, MineHere
<1>5. CASE Mine(n) = {} /\ domains' = domains
  <2>1. (\A k : Steady(k)) /\ (Powered => Powered')
    BY <1>5, SameSteady
  <2>2. n \in missed'
    BY <1>2, <1>4, <1>5
  <2>3. WorkerNet(n)
    BY <1>2, <1>3, <2>1, <2>2, OwnNet
  <2> QED
    BY <2>1, <2>3
<1>6. CASE \E d \in Mine(n) : \E e : /\ Swaps(d, e) /\ Same(d, e) /\ e.on = d.on /\ e.boot = "disk" /\ e.pend = d.pend
                                     /\ e.up = d.up
  <2>0. PICK d \in Mine(n) : \E e : /\ Swaps(d, e) /\ Same(d, e) /\ e.on = d.on /\ e.boot = "disk" /\ e.pend = d.pend
                                    /\ e.up = d.up
    BY <1>6
  <2>1. PICK e : /\ Swaps(d, e) /\ Same(d, e) /\ e.on = d.on /\ e.boot = "disk" /\ e.pend = d.pend /\ e.up = d.up
    BY <2>0
  <2>2. d \in MachineType /\ d.name = n /\ d \in domains
    BY MineTyped
  <2>3. /\ \A k : k # n => Steady(k)
        /\ HostsOf(n)' = HostsOf(n) /\ FromDisk(n)' \subseteq FromDisk(n) \cup Installing(n)
        /\ Asked(n)' \subseteq Asked(n) /\ Halted(n)' \subseteq Halted(n)
        /\ Powered => Powered'
    BY <2>1, <2>2, SwapSteady
  <2>4. ASSUME n \notin missed PROVE Installing(n)' = {}
    <3>1. \A x \in domains' : x.name = n => x.boot = "disk"
      <4>1. domains' = (domains \ {d}) \cup {e}
        BY <2>1 DEF Swaps
      <4>2. \A x \in domains : x.name = n => x = d
        BY <2>2, <2>4, OnlyMachine
      <4> QED
        BY <2>1, <4>1, <4>2
    <3> QED
      BY <3>1 DEF Installing
  <2>5. n \notin missed' => Edits(n)
    BY <1>2, <2>3, <2>4 DEF Edits, Frame, NetStays, UpsetStays
  <2>6. WorkerNet(n)
    BY <1>2, <1>3, <2>3, <2>5, OwnNet DEF Own
  <2> QED
    BY <2>3, <2>6
<1> QED
  BY <1>1, <1>5, <1>6

\* A machine is removed.
LEMMA RemoveNet ==
    ASSUME Sound, NEW n \in Nodes, Undefine(n) \/ Delete(n)
    PROVE  WorkerNet(n) /\ (Powered => Powered')
<1>1. \E op \in {"undefine", "delete"} : \E t : Call(n, op, t) /\ KeptStay /\ AddressesStay /\ MarksStay
                                                  /\ \E gone : gone \subseteq Mine(n) /\ domains' = domains \ gone
  <2>1. CASE Undefine(n)
    <3>1. PICK t : Command2(n, "undefine", t) /\ domains' = domains \ {d \in Mine(n) : ~d.on}
      BY <2>1, UndefineDoes
    <3>2. {d \in Mine(n) : ~d.on} \subseteq Mine(n)
      OBVIOUS
    <3> QED
      BY <3>1, <3>2 DEF Command2
  <2>2. CASE Delete(n)
    BY <2>2, DeleteDoes DEF Command1, RestStays
  <2> QED
    BY <2>1, <2>2
<1>2. PICK op \in {"undefine", "delete"} : \E t : Call(n, op, t) /\ KeptStay /\ AddressesStay /\ MarksStay
                                                  /\ \E gone : gone \subseteq Mine(n) /\ domains' = domains \ gone
  BY <1>1
<1>3. PICK t : Call(n, op, t) /\ KeptStay /\ AddressesStay /\ MarksStay
               /\ \E gone : gone \subseteq Mine(n) /\ domains' = domains \ gone
  BY <1>2
<1>4. PICK gone : gone \subseteq Mine(n) /\ domains' = domains \ gone
  BY <1>3
<1>5. Frame(n)
  BY <1>3 DEF Frame, KeptStay, AddressesStay, MarksStay
<1>6. At(n, op) /\ Goes(n, op, t, On(n)) /\ Left(work[n].todo) = {op} \cup Left(t)
      /\ op \notin Makers \cup {"unregister", "register", "edit"} /\ op # "virsh-start"
  BY <1>2, <1>3 DEF Call, Makers
<1>7. /\ \A k : k # n => Steady(k)
      /\ FromDisk(n)' \subseteq FromDisk(n) /\ Installing(n)' \subseteq Installing(n)
      /\ Asked(n)' \subseteq Asked(n) /\ Halted(n)' \subseteq Halted(n)
      /\ Powered => Powered'
  BY <1>4, LessSteady
<1>8. WorkerNet(n)
  BY <1>2, <1>5, <1>6, <1>7, PassNet
<1> QED
  BY <1>7, <1>8

\* The worker's call, when it changes the address of its own node.
LEMMA MovedNet ==
    ASSUME Sound, NEW n \in Nodes, NEW t, NEW h, NEW e, Becomes(n, t, h, e), Busy(n), lab' = lab, queue' = queue,
           missed' = missed, upset' = upset, domains' = domains,
           dns' = dns \/ dns' = [dns EXCEPT ![n] = 0] \/ dns' = [dns EXCEPT ![n] = def[n]],
           def' = def \/ (def[n] = 0 /\ \E a : def' = [def EXCEPT ![n] = a]),
           n \notin missed' => Own(n)
    PROVE  WorkerNet(n) /\ (Powered => Powered')
<1>1. (\A k : Steady(k)) /\ (Powered => Powered')
  BY SameSteady
<1>2. \A k \in Nodes \ {n} : work'[k] = work[k]
  BY DEF Becomes
<1>3. dns \in [Nodes -> 0..Size] /\ def \in [Nodes -> 0..Size]
  BY DEF Sound, StateOK
<1>4. (\A k \in Nodes \ {n} : dns'[k] = dns[k]) /\ dns'[n] \in {0, def[n], dns[n]}
  BY <1>3
<1>5. (\A k \in Nodes \ {n} : def'[k] = def[k]) /\ (def'[n] = def[n] \/ def[n] = 0)
  BY <1>3
<1>6. ASSUME NEW k \in Nodes \ {n} PROVE NetStays(k) /\ UpsetStays(k) /\ LooksStay(k)
  BY <1>1, <1>4, <1>5 DEF NetStays, UpsetStays, LooksStay, Steady
<1>7. WorkerNet(n)
  BY <1>2, <1>4, <1>5, <1>6 DEF WorkerNet
<1> QED
  BY <1>1, <1>7

\* The record of the node is written or deleted, its address chosen, or waited for.
LEMMA AddressNet ==
    ASSUME Sound, NEW n \in Nodes, Unregister(n) \/ Register(n) \/ AllocateIp(n) \/ Online(n)
    PROVE  WorkerNet(n) /\ (Powered => Powered')
<1>0. dns \in [Nodes -> 0..Size] /\ def \in [Nodes -> 0..Size]
  BY DEF Sound, StateOK
<1>1. CASE Unregister(n)
  <2>1. PICK t : Call(n, "unregister", t)
    BY <1>1, UnregisterDoes
  <2>2. dns' = [dns EXCEPT ![n] = 0] /\ def' = def /\ domains' = domains /\ KeptStay /\ MarksStay
    BY <1>1, UnregisterDoes
  <2>3. LooksStay(n) /\ UpsetStays(n)
    BY <2>2, SameSteady DEF Steady, LooksStay, UpsetStays, MarksStay
  <2>4. Unlists(n)
    BY <1>0, <2>1, <2>2, <2>3 DEF Unlists
  <2>5. Becomes(n, t, On(n), IF t = <<>> THEN "ok" ELSE "none") /\ Busy(n)
    BY <2>1 DEF Call, Goes, At
  <2> QED
    BY <2>2, <2>4, <2>5, MovedNet DEF Own, KeptStay, MarksStay
<1>2. CASE Register(n)
  <2>1. PICK t : Call(n, "register", t)
    BY <1>2, RegisterDoes
  <2>2. dns' = [dns EXCEPT ![n] = def[n]] /\ def' = def /\ domains' = domains /\ KeptStay /\ MarksStay
    BY <1>2, RegisterDoes
  <2>3. LooksStay(n) /\ UpsetStays(n)
    BY <2>2, SameSteady DEF Steady, LooksStay, UpsetStays, MarksStay
  <2>4. Enlists(n)
    BY <1>0, <2>1, <2>2, <2>3 DEF Enlists
  <2>5. Becomes(n, t, On(n), IF t = <<>> THEN "ok" ELSE "none") /\ Busy(n)
    BY <2>1 DEF Call, Goes, At
  <2> QED
    BY <2>2, <2>4, <2>5, MovedNet DEF Own, KeptStay, MarksStay
<1>3. CASE AllocateIp(n)
  <2>1. At(n, "allocate") /\ dns' = dns /\ domains' = domains /\ KeptStay /\ MarksStay
    BY <1>3, AllocateIpDoes
  <2>2. \/ def' = def /\ \E t : Call(n, "allocate", t)
        \/ /\ def[n] = 0 /\ \E a : def' = [def EXCEPT ![n] = a]
           /\ Becomes(n, <<>>, NoHost, "failed") \/ (\E t : Call(n, "allocate", t))
    BY <1>3, AllocateIpDoes
  <2>3. (\A k : Steady(k)) /\ UpsetStays(n) /\ LooksStay(n) /\ Busy(n)
    BY <2>1, SameSteady DEF Steady, LooksStay, UpsetStays, MarksStay, At
  <2>4. def' = def \/ (def[n] = 0 /\ \E a : def' = [def EXCEPT ![n] = a])
    BY <2>2
  <2>5. CASE Becomes(n, <<>>, NoHost, "failed")
    <3>1. DiesThere(n)
      BY <2>1, <2>3, <2>5 DEF DiesThere, Deadly
    <3> QED
      BY <2>1, <2>3, <2>4, <2>5, <3>1, MovedNet DEF Own, KeptStay, MarksStay
  <2>6. CASE \E t : Call(n, "allocate", t)
    <3>1. PICK t : Call(n, "allocate", t)
      BY <2>6
    <3>2. def'[n] = def[n] \/ def[n] = 0
      BY <2>2
    <3>3. /\ At(n, "allocate") /\ Goes(n, "allocate", t, On(n)) /\ Left(work[n].todo) = {"allocate"} \cup Left(t)
          /\ "allocate" \notin Makers \cup {"unregister", "register", "edit"}
      BY <3>1 DEF Call, Makers
    <3>4. Passes(n)
      BY <2>1, <2>3, <3>2, <3>3 DEF Passes, Steady
    <3>5. Becomes(n, t, On(n), IF t = <<>> THEN "ok" ELSE "none")
      BY <3>3 DEF Goes
    <3> QED
      BY <2>1, <2>3, <2>4, <3>4, <3>5, MovedNet DEF Own, KeptStay, MarksStay
  <2> QED
    BY <2>2, <2>5, <2>6
<1>4. CASE Online(n)
  <2>1. At(n, "online") /\ domains' = domains /\ RestStays
    BY <1>4, OnlineDoes
  <2>2. Frame(n)
    BY <2>1 DEF RestStays, Frame, KeptStay, AddressesStay, MarksStay
  <2>3. CASE Becomes(n, <<>>, NoHost, "failed")
    BY <2>1, <2>2, <2>3, DiesNet DEF Deadly
  <2>4. CASE \E t : Call(n, "online", t)
    <3>1. PICK t : Call(n, "online", t)
      BY <2>4
    <3> QED
      BY <2>1, <2>2, <3>1, QuietNet DEF Call, Makers
  <2> QED
    BY <1>4, <2>3, <2>4, OnlineDoes
<1> QED
  BY <1>1, <1>2, <1>3, <1>4

\* vm_is_reusable(): the machine that is kept runs, and its address is the one in the DNS.
LEMMA KeepNet ==
    ASSUME Sound, Powered, NEW n \in Nodes, n \notin missed => Known(n), Keep(n)
    PROVE  WorkerNet(n) /\ (Powered => Powered')
<1>1. At(n, "keep?") /\ domains' = domains /\ KeptStay /\ AddressesStay /\ missed' = missed
  BY KeepDoes
<1>2. (\A k : Steady(k)) /\ (Powered => Powered') /\ Busy(n)
  BY <1>1, SameSteady DEF At
<1>3. CASE \E h \in Hosts :
             /\ Reusable(h, n) /\ Becomes(n, <<>>, h, "ok")
             /\ upset' = IF \E d \in Has(h, n) : "shutdown" \in d.pend THEN upset ELSE upset \ {n}
  <2>1. PICK h \in Hosts :
             /\ Reusable(h, n) /\ Becomes(n, <<>>, h, "ok")
             /\ upset' = IF \E d \in Has(h, n) : "shutdown" \in d.pend THEN upset ELSE upset \ {n}
    BY <1>3
  <2>2. PICK d \in Has(h, n) : d.on
    BY <2>1 DEF Reusable
  <2>3. dns[n] = def[n] /\ dns[n] # 0
    BY <2>1 DEF Reusable, Powered, Ups
  <2>4. ASSUME n \notin missed PROVE Finds(n)
    <3>1. d \in domains /\ d.name = n
      BY DEF Has
    <3>2. \A x \in domains : x.name = n => x = d
      BY <2>4, <3>1, OnlyMachine
    <3>3. Halted(n) = {}
      BY <2>2, <3>2 DEF Halted
    <3>4. Asked(n) = {} \/ UpsetStays(n)
      <4>1. CASE "shutdown" \in d.pend
        BY <2>1, <2>2, <4>1 DEF UpsetStays
      <4>2. CASE "shutdown" \notin d.pend
        BY <3>2, <4>2 DEF Asked
      <4> QED
        BY <4>1, <4>2
    <3>5. Halted(n)' = {} /\ (Asked(n)' = {} \/ UpsetStays(n))
      BY <1>1, <3>3, <3>4 DEF Halted, Asked
    <3>6. NetStays(n) /\ LooksStay(n)
      BY <1>1, <1>2 DEF AddressesStay, NetStays, LooksStay, Steady
    <3> QED
      BY <1>1, <2>1, <2>3, <3>5, <3>6 DEF Finds
  <2>5. \A k \in Nodes \ {n} : work'[k] = work[k]
    BY <2>1 DEF Becomes
  <2>6. ASSUME NEW k \in Nodes \ {n} PROVE NetStays(k) /\ UpsetStays(k) /\ LooksStay(k)
    BY <1>1, <1>2, <2>1 DEF AddressesStay, NetStays, UpsetStays, LooksStay, Steady
  <2>7. WorkerNet(n)
    BY <1>1, <1>2, <2>4, <2>5, <2>6 DEF WorkerNet, KeptStay, AddressesStay, Own
  <2> QED
    BY <1>2, <2>7
<1>4. CASE (\E t : Call(n, "keep?", t)) /\ upset' = upset
  <2>1. PICK t : Call(n, "keep?", t)
    BY <1>4
  <2>2. Frame(n)
    BY <1>1, <1>4 DEF Frame, KeptStay, AddressesStay
  <2> QED
    BY <1>1, <2>1, <2>2, QuietNet DEF Call, Makers
<1> QED
  BY <1>3, <1>4, KeepDoes

\* A host is looked for: the one with the machine, or the one for it.
LEMMA FindNet ==
    ASSUME Sound, NEW n \in Nodes, Locate(n) \/ Select(n)
    PROVE  WorkerNet(n) /\ (Powered => Powered')
<1>1. CASE Locate(n)
  <2>0. PICK A \in SUBSET reach : Searched(n, A)
    BY <1>1, LocateDoes
  <2>1. /\ At(n, "locate") /\ domains' = domains /\ KeptStay /\ AddressesStay /\ upset' = upset
        /\ missed' = missed \cup {k \in {n} : \E h \in Hosts \ A : Has(h, n) # {}}
    BY <1>1, <2>0, LocateDoes DEF Searched
  <2>2. (\A k : Steady(k)) /\ (Powered => Powered') /\ Busy(n) /\ Frame(n)
    BY <2>1, SameSteady DEF At, Frame, KeptStay, AddressesStay
  <2>3. CASE (\A h \in A : Has(h, n) = {}) /\ \E t : Goes(n, "undefine", t, On(n))
    <3>1. PICK t : Goes(n, "undefine", t, On(n))
      BY <2>3
    <3>2. ASSUME n \notin missed' PROVE HostsOf(n) = {}
      <4>1. \A h \in Hosts : Has(h, n) = {}
        BY <2>1, <2>3, <3>2
      <4>2. \A d \in domains : d.host \in Hosts
        BY DEF Sound, MachinesGood, MachineType
      <4> QED
        BY <4>1, <4>2 DEF HostsOf, Has
    <3>3. LooksStay(n) /\ NetStays(n) /\ UpsetStays(n)
      BY <2>1, <2>2 DEF Steady, LooksStay, NetStays, UpsetStays, AddressesStay
    <3>4. n \notin missed' => Misses(n)
      BY <2>1, <3>1, <3>2, <3>3 DEF Misses
    <3>5. WorkerNet(n)
      BY <2>2, <3>1, <3>4, OwnNet DEF Own, Goes
    <3> QED
      BY <2>2, <3>5
  <2>4. CASE \E h \in A : \E t : Has(h, n) # {} /\ Goes(n, "locate", t, h) /\ Left(work[n].todo) = {"locate"} \cup Left(t)
    BY <2>1, <2>2, <2>4, QuietNet DEF Makers
  <2> QED
    BY <2>0, <2>3, <2>4 DEF Searched
<1>2. CASE Select(n)
  <2>1. At(n, "select") /\ domains' = domains /\ RestStays
    BY <1>2, SelectDoes
  <2>2. Frame(n)
    BY <2>1 DEF Frame, RestStays, KeptStay, AddressesStay, MarksStay
  <2>3. CASE Becomes(n, <<>>, NoHost, "failed")
    BY <2>1, <2>2, <2>3, DiesNet DEF Deadly
  <2>4. CASE \E h \in Fitting : \E t : Goes(n, "select", t, h) /\ Left(work[n].todo) = {"select"} \cup Left(t)
    BY <2>1, <2>2, <2>4, QuietNet DEF Makers
  <2> QED
    BY <1>2, <2>3, <2>4, SelectDoes
<1> QED
  BY <1>1, <1>2

\* The calls around the one that makes the machine.
LEMMA MakerCalls ==
    ASSUME Sound, NEW n \in Nodes, NEW op \in Makers, NEW t, Call(n, op, t)
    PROVE  /\ op \in {"install", "apply"} => "edit" \notin Left(t)
           /\ op = "install-iso" => "virsh-start" \in Left(t) /\ ("edit" \in Left(t) <=> lab.method = "autoinstall")
<1>1. At(n, op) /\ op \in Left(work[n].todo) /\ Left(t) \subseteq Left(work[n].todo) /\ Must(lab, op) \subseteq Left(t)
  BY CallIs
<1>2. Left(work[n].todo) \subseteq Calls(lab) /\ IsLab(lab)
  BY LeftCalls
<1>3. ASSUME "edit" \in Calls(lab) PROVE lab.kind = "libvirt" /\ lab.method = "autoinstall"
  BY <1>2, <1>3 DEF Calls, IsLab, Rebooting, FileCalls, CreateCalls
<1>4. "install" \in Calls(lab) => lab.method # "autoinstall"
  BY <1>2 DEF Calls, IsLab, Rebooting, FileCalls, CreateCalls
<1>5. "apply" \in Calls(lab) => lab.kind = "harvester"
  BY <1>2 DEF Calls, IsLab, Rebooting, FileCalls, CreateCalls
<1>6. "install-iso" \in Calls(lab) => lab.method \in {"autoinstall", "location"}
  BY <1>2 DEF Calls, IsLab, Rebooting, FileCalls, CreateCalls
<1>7. op \in {"install", "apply"} => "edit" \notin Left(t)
  BY <1>1, <1>2, <1>3, <1>4, <1>5 DEF IsLab
<1>8. Must(lab, op) = {"register"} \cup (IF lab.method = "autoinstall" THEN {"edit"} ELSE {})
                          \cup (IF lab.method \in {"autoinstall", "location"} THEN {"virsh-start"} ELSE {})
  BY Musts
<1>9. ASSUME op = "install-iso" PROVE "virsh-start" \in Left(t) /\ ("edit" \in Left(t) <=> lab.method = "autoinstall")
  <2>1. lab.method \in {"autoinstall", "location"}
    BY <1>1, <1>2, <1>6, <1>9
  <2>2. "virsh-start" \in Left(t)
    BY <1>1, <1>8, <2>1
  <2>3. lab.method = "autoinstall" => "edit" \in Left(t)
    BY <1>1, <1>8
  <2>4. "edit" \in Left(t) => lab.method = "autoinstall"
    BY <1>1, <1>2, <1>3
  <2> QED
    BY <2>2, <2>3, <2>4
<1> QED
  BY <1>7, <1>9

\* The fields of a new machine.
LEMMA NewFields ==
    ASSUME NEW n, NEW from, NEW running, NEW e, e = Domain(n, from, running)
    PROVE  /\ e.name = n /\ e.boot = from /\ e.on = running /\ e.pend = {}
           /\ e.addr = IF SeedOf(n) \in Nodes THEN def[SeedOf(n)] ELSE 0
BY DEF Domain

\* The machine that is made is the node's one, and has the address of the definition.
LEMMA BringsOne ==
    ASSUME Sound, NEW n \in Nodes, Known(n), Staged(n), NEW op \in Makers, NEW t, Call(n, op, t), On(n) \in Hosts,
           NEW from \in {"disk", "installer"}, NEW running \in BOOLEAN, Makes(n, Domain(n, from, running)), NetStays(n), UpsetStays(n),
           running \/ "virsh-start" \in Left(t), from = "disk" <=> "edit" \notin Left(t)
    PROVE  Brings(n)
<1>1. At(n, op)
  BY DEF Call
<1>2. Making(n) /\ ~Removing(n)
  BY <1>1, Places DEF Deadly, Fatal, Makers
<1>3. HostsOf(n) = {}
  BY <1>2 DEF Known
<1>4. PICK e : e = Domain(n, from, running)
  OBVIOUS
<1>5. /\ e.name = n /\ e.boot = from /\ e.on = running /\ e.pend = {}
      /\ e.addr = IF SeedOf(n) \in Nodes THEN def[SeedOf(n)] ELSE 0
  BY <1>4, NewFields
<1>6. domains' = domains \cup {e} /\ \A x \in domains : x.name # n
  BY <1>3, <1>4 DEF Makes, HostsOf
<1>7. \A x \in domains' : x.name = n => x = e
  BY <1>6
<1>8. Asked(n)' = {}
  BY <1>5, <1>7 DEF Asked
<1>9. Halted(n)' = {} \/ "virsh-start" \in Left(t)
  BY <1>5, <1>7 DEF Halted
<1>10. ASSUME OwnFiles PROVE e.addr = def[n]
  <2>1. SeedOf(n) = n
    BY <1>1, <1>10, SeedIsOwn
  <2> QED
    BY <1>5, <2>1
<1>11. ASSUME OwnFiles PROVE FromDisk(n)' \subseteq {def[n]} /\ Installing(n)' \subseteq {def[n]}
  BY <1>7, <1>10, <1>11 DEF FromDisk, Installing
<1>12. IF "edit" \in Left(t) THEN FromDisk(n)' = {} ELSE Installing(n)' = {}
  BY <1>5, <1>7 DEF FromDisk, Installing
<1> QED
  BY <1>8, <1>9, <1>11, <1>12 DEF Brings

\* create_vm() brings the machine up, or the name is taken.
LEMMA CreateNet ==
    ASSUME Sound, AllStaged, NEW n \in Nodes, n \notin missed => Known(n), Install(n) \/ InstallIso(n) \/ Apply(n)
    PROVE  WorkerNet(n) /\ (Powered => Powered')
<1>0. reach \subseteq Hosts /\ Staged(n)
  BY DEF Sound, StateOK, AllStaged
<1>1. ASSUME NEW op \in Makers, NEW t, Call(n, op, t), On(n) \in reach, KeptStay, AddressesStay, MarksStay,
             NEW from \in {"disk", "installer"}, NEW running \in BOOLEAN, Makes(n, Domain(n, from, running)),
             running \/ "virsh-start" \in Left(t), from = "disk" <=> "edit" \notin Left(t)
      PROVE  WorkerNet(n) /\ (Powered => Powered')
  <2>1. On(n) \in Hosts /\ Frame(n) /\ NetStays(n) /\ UpsetStays(n) /\ missed' = missed
    BY <1>0, <1>1 DEF Frame, NetStays, UpsetStays, KeptStay, AddressesStay, MarksStay
  <2>2. (\A k : k # n => Steady(k)) /\ (Powered => Powered')
    BY <1>1, <2>1, MakesSteady
  <2>3. n \notin missed' => Brings(n)
    BY <1>0, <1>1, <2>1, BringsOne
  <2>4. Becomes(n, t, On(n), IF t = <<>> THEN "ok" ELSE "none") /\ Busy(n)
    BY <1>1 DEF Call, Goes, At
  <2>5. WorkerNet(n)
    BY <2>1, <2>2, <2>3, <2>4, OwnNet DEF Own
  <2> QED
    BY <2>2, <2>5
<1>2. ASSUME NEW op \in Fatal, At(n, op), Becomes(n, <<>>, NoHost, "failed"), KeptStay, AddressesStay, MarksStay, domains' = domains
      PROVE  WorkerNet(n) /\ (Powered => Powered')
  <2>1. Frame(n) /\ op \in Deadly
    BY <1>2 DEF Frame, KeptStay, AddressesStay, MarksStay, Deadly
  <2> QED
    BY <1>2, <2>1, DiesNet
<1>3. CASE Install(n)
  <2>1. At(n, "install") /\ On(n) \in reach /\ KeptStay /\ AddressesStay /\ MarksStay
    BY <1>3, InstallDoes DEF RestStays
  <2>2. CASE Becomes(n, <<>>, NoHost, "failed") /\ domains' = domains
    BY <1>2, <2>1, <2>2 DEF Fatal
  <2>3. CASE Makes(n, Domain(n, "disk", TRUE)) /\ \E t : Call(n, "install", t)
    <3>1. PICK t : Call(n, "install", t)
      BY <2>3
    <3>2. "edit" \notin Left(t)
      BY <3>1, MakerCalls DEF Makers
    <3> QED
      BY <1>1, <2>1, <2>3, <3>1, <3>2 DEF Makers
  <2> QED
    BY <1>3, <2>2, <2>3, InstallDoes
<1>4. CASE InstallIso(n)
  <2>1. At(n, "install-iso") /\ On(n) \in reach /\ KeptStay /\ AddressesStay /\ MarksStay
    BY <1>4, InstallIsoDoes
  <2>2. CASE Becomes(n, <<>>, NoHost, "failed") /\ domains' = domains
    BY <1>2, <2>1, <2>2 DEF Fatal
  <2>3. CASE /\ \E t : Call(n, "install-iso", t)
             /\ \E running \in BOOLEAN :
                  Makes(n, Domain(n, IF lab.method = "autoinstall" THEN "installer" ELSE "disk", running))
    <3>1. PICK t : Call(n, "install-iso", t)
      BY <2>3
    <3>2. PICK running \in BOOLEAN :
                  Makes(n, Domain(n, IF lab.method = "autoinstall" THEN "installer" ELSE "disk", running))
      BY <2>3
    <3>3. "virsh-start" \in Left(t) /\ ("edit" \in Left(t) <=> lab.method = "autoinstall")
      BY <3>1, MakerCalls DEF Makers
    <3> QED
      BY <1>1, <2>1, <3>1, <3>2, <3>3 DEF Makers
  <2> QED
    BY <1>4, <2>2, <2>3, InstallIsoDoes
<1>5. CASE Apply(n)
  <2>1. PICK t : Command1(n, "apply", t) /\ ((Mine(n) # {} /\ domains' = domains) \/ Makes(n, Domain(n, "disk", TRUE)))
    BY <1>5, ApplyDoes
  <2>2. Call(n, "apply", t) /\ On(n) \in reach /\ KeptStay /\ AddressesStay /\ MarksStay
    BY <2>1 DEF Command1, RestStays
  <2>3. CASE Mine(n) # {} /\ domains' = domains
    <3>1. At(n, "apply") /\ Becomes(n, t, On(n), IF t = <<>> THEN "ok" ELSE "none") /\ Busy(n)
      BY <2>2 DEF Call, Goes, At
    <3>2. Making(n) /\ ~Removing(n)
      BY <3>1, Places DEF Deadly, Fatal
    <3>3. n \in missed
      BY <2>3, <3>2, MineHere DEF Known
    <3>4. (\A k : Steady(k)) /\ (Powered => Powered') /\ Frame(n) /\ missed' = missed
      BY <2>2, <2>3, SameSteady DEF Frame, KeptStay, AddressesStay, MarksStay
    <3>5. WorkerNet(n)
      BY <3>1, <3>3, <3>4, OwnNet
    <3> QED
      BY <3>4, <3>5
  <2>4. CASE Makes(n, Domain(n, "disk", TRUE))
    <3>1. "edit" \notin Left(t)
      BY <2>2, MakerCalls DEF Makers
    <3> QED
      BY <1>1, <2>2, <2>4, <3>1 DEF Makers
  <2> QED
    BY <2>1, <2>3, <2>4
<1> QED
  BY <1>3, <1>4, <1>5

\* Calls are left out, as the guest needs no more of them.
LEMMA JumpNet ==
    ASSUME Sound, NEW n \in Nodes, Probe(n) \/ Rebooted(n) \/ Stopped(n)
    PROVE  WorkerNet(n) /\ (Powered => Powered')
<1>1. ASSUME NEW x \in {"probe", "rebooted?", "stopped?"}, At(n, x), NEW op, NEW t, Goes(n, op, t, On(n)), RestStays,
             \A k : Steady(k)
      PROVE  WorkerNet(n)
  <2>1. Frame(n) /\ LooksStay(n) /\ NetStays(n) /\ UpsetStays(n) /\ Busy(n)
    BY <1>1 DEF RestStays, KeptStay, AddressesStay, MarksStay, Frame, LooksStay, Steady, NetStays, UpsetStays, At
  <2>2. Jumps(n)
    BY <1>1, <2>1 DEF Jumps
  <2> QED
    BY <1>1, <2>1, <2>2, OwnNet DEF Own, Goes
<1>2. CASE Probe(n)
  <2>1. At(n, "probe") /\ RestStays
    BY <1>2, ProbeDoes
  <2>2. CASE (\E t : Call(n, "probe", t)) /\ domains' = domains
    <3>1. PICK t : Call(n, "probe", t)
      BY <2>2
    <3>2. Frame(n)
      BY <2>1 DEF Frame, RestStays, KeptStay, AddressesStay, MarksStay
    <3> QED
      BY <2>1, <2>2, <3>1, <3>2, QuietNet DEF Call, Makers
  <2>3. CASE \E t, d, e : /\ Goes(n, "reset", t, On(n)) /\ Swaps(d, e) /\ Same(d, e) /\ e.on = d.on /\ e.boot = d.boot
                          /\ e.pend \subseteq d.pend \cup {"reboot"} /\ e.up = d.up
    <3>1. PICK t, d, e : /\ Goes(n, "reset", t, On(n)) /\ Swaps(d, e) /\ Same(d, e) /\ e.on = d.on /\ e.boot = d.boot
                         /\ e.pend \subseteq d.pend \cup {"reboot"} /\ e.up = d.up
      BY <2>3
    <3>2. d \in MachineType
      BY <3>1 DEF Swaps, Sound, MachinesGood
    <3>3. "shutdown" \in e.pend => "shutdown" \in d.pend
      BY <3>1
    <3>4. (\A k : k # d.name => Steady(k)) /\ (Powered => Powered')
      BY <3>1, <3>2, SwapSteady
    <3>5. Steady(d.name)
      BY <3>1, <3>2, <3>3, SwapSteady DEF Steady
    <3>6. \A k : Steady(k)
      BY <3>4, <3>5
    <3> QED
      BY <1>1, <2>1, <3>1, <3>4, <3>6
  <2> QED
    BY <1>2, <2>2, <2>3, ProbeDoes
<1>3. CASE Rebooted(n)
  <2>1. PICK op \in {"rebooted?", "reset"} : \E t : /\ At(n, "rebooted?") /\ On(n) \in reach /\ domains' = domains /\ RestStays
                                                     /\ Goes(n, op, t, On(n))
    BY <1>3, RebootedDoes
  <2>2. (\A k : Steady(k)) /\ (Powered => Powered')
    BY <2>1, SameSteady
  <2> QED
    BY <1>1, <2>1, <2>2
<1>4. CASE Stopped(n)
  <2>1. PICK op \in {"start-again", "reset"} : \E t : /\ At(n, "stopped?") /\ On(n) \in reach /\ domains' = domains /\ RestStays
                                                       /\ Goes(n, op, t, On(n))
    BY <1>4, StoppedDoes
  <2>2. (\A k : Steady(k)) /\ (Powered => Powered')
    BY <2>1, SameSteady
  <2> QED
    BY <1>1, <2>1, <2>2
<1> QED
  BY <1>2, <1>3, <1>4

\* A call fails, or its answer does not come.
LEMMA FailNet ==
    ASSUME Sound, NEW n \in Nodes, CallFails(n) \/ StopTimesOut(n)
    PROVE  WorkerNet(n) /\ (Powered => Powered')
<1>1. CASE CallFails(n)
  <2>1. /\ domains' = domains /\ KeptStay /\ AddressesStay /\ upset' = upset \cup {n}
        /\ missed' = missed \cup {k \in {n} : At(n, "destroy") \/ At(n, "undefine") \/ At(n, "delete")}
    BY <1>1, CallFailsDoes
  <2>2. Frame(n)
    BY <2>1 DEF Frame, KeptStay, AddressesStay
  <2>3. CASE (\E op \in Fatal : At(n, op)) /\ Becomes(n, <<>>, NoHost, "failed")
    <3>1. PICK op \in Fatal : At(n, op)
      BY <2>3
    <3>2. op \in Deadly
      BY DEF Deadly
    <3> QED
      BY <2>1, <2>2, <2>3, <3>1, <3>2, DiesNet
  <2>4. CASE \E op \in Ignored : \E t : Call(n, op, t)
    <3>0. PICK op \in Ignored : \E t : Call(n, op, t)
      BY <2>4
    <3>1. PICK t : Call(n, op, t)
      BY <3>0
    <3>2. op \notin Makers \cup {"unregister", "register", "edit"}
      BY <3>0 DEF Ignored, Makers
    <3> QED
      BY <2>1, <2>2, <3>1, <3>2, QuietNet DEF Call
  <2> QED
    BY <1>1, <2>3, <2>4, CallFailsDoes
<1>2. CASE StopTimesOut(n)
  <2>1. /\ At(n, "stop") /\ domains' = domains /\ AddressesStay /\ upset' = upset /\ missed' = missed \cup {n}
        /\ lab' = lab /\ queue' = (IF lab.parallel THEN queue ELSE {}) /\ Becomes(n, <<>>, NoHost, "failed")
    BY <1>2, StopTimesOutDoes
  <2>2. (\A k : Steady(k)) /\ (Powered => Powered') /\ Busy(n)
    BY <2>1, SameSteady DEF At
  <2>3. \A k \in Nodes \ {n} : work'[k] = work[k]
    BY <2>1 DEF Becomes
  <2>4. ASSUME NEW k \in Nodes \ {n} PROVE NetStays(k) /\ UpsetStays(k) /\ LooksStay(k)
    BY <2>1, <2>2 DEF AddressesStay, NetStays, UpsetStays, LooksStay, Steady
  <2>5. queue' = queue \/ (~lab.parallel /\ queue' = {})
    BY <2>1
  <2>6. WorkerNet(n)
    BY <2>1, <2>2, <2>3, <2>4, <2>5 DEF WorkerNet, AddressesStay
  <2> QED
    BY <2>2, <2>6
<1> QED
  BY <1>1, <1>2

\* A step of a worker.
LEMMA StepNet ==
    ASSUME Sound, AllKnown, AllStaged, Powered, NEW n \in Nodes, Step(n) \/ StopTimesOut(n)
    PROVE  WorkerNet(n) /\ Powered'
<1>1. n \notin missed => Known(n)
  BY DEF AllKnown
<1>2. CASE StopTimesOut(n) \/ CallFails(n)
  BY <1>2, FailNet
<1>3. CASE Keep(n)
  BY <1>1, <1>3, KeepNet
<1>4. CASE Locate(n) \/ Select(n)
  BY <1>4, FindNet
<1>5. CASE Unregister(n) \/ Register(n) \/ AllocateIp(n) \/ Online(n)
  BY <1>5, AddressNet
<1>6. CASE AskReboot(n) \/ Listen(n) \/ Reset(n) \/ AskShutdown(n) \/ Destroy(n)
  BY <1>6, MachineNet
<1>7. CASE CopyImage(n) \/ Customize(n) \/ Stage(n) \/ Seed(n) \/ AnswerFile(n) \/ PushFiles(n)
  BY <1>7, FilesNet
<1>8. CASE Undefine(n) \/ Delete(n)
  BY <1>8, RemoveNet
<1>9. CASE Install(n) \/ InstallIso(n) \/ Apply(n)
  BY <1>1, <1>9, CreateNet
<1>10. CASE StartDomain(n)
  BY <1>1, <1>10, StartNet
<1>11. CASE EditBoot(n)
  BY <1>1, <1>11, EditNet
<1>12. CASE Probe(n) \/ Rebooted(n) \/ Stopped(n)
  BY <1>12, JumpNet
<1> QED
  BY <1>2, <1>3, <1>4, <1>5, <1>6, <1>7, <1>8, <1>9, <1>10, <1>11, <1>12 DEF Step

\* A step that no worker takes, and that moves no address.
LEMMA StillNet ==
    ASSUME Sound, LabNet, AllNamed, lab' = lab, work' = work, queue' = queue, dns' = dns, def' = def, missed' = missed,
           upset \subseteq upset', \A k \in Nodes \ missed : LooksStay(k)
    PROVE  LabNet' /\ AllNamed'
<1>1. \A k : (Busy(k)' <=> Busy(k)) /\ (Making(k)' <=> Making(k))
  BY DEF Busy, Making
<1>2. LabNet'
  BY <1>1 DEF LabNet
<1>3. ASSUME NEW k \in Nodes \ missed PROVE Named(k)' /\ Served(k)'
  <2>1. Named(k) /\ Served(k) /\ work'[k] = work[k] /\ NetStays(k) /\ UpsetStays(k) /\ LooksStay(k)
    BY DEF AllNamed, NetStays, UpsetStays
  <2>2. Done(k)' => Done(k)
    BY <1>1 DEF Done
  <2> QED
    BY <2>1, <2>2, NamedOther
<1>4. AllNamed'
  BY <1>3 DEF AllNamed
<1> QED
  BY <1>2, <1>4

\* A worker that begins: nothing of its machine has been made.
LEMMA TakeNet ==
    ASSUME Sound, LabNet, AllNamed, NEW n \in Nodes, Take(n)
    PROVE  LabNet' /\ AllNamed' /\ (Powered => Powered')
<1>1. /\ lab' = lab /\ domains' = domains /\ AddressesStay /\ missed' = missed /\ upset' = upset /\ n \in queue
      /\ queue' = queue \ {n} /\ Program(lab) # <<>> /\ Left(Program(lab)) = Calls(lab)
      /\ (\A k \in Nodes \ {n} : work'[k] = work[k]) /\ work'[n].todo = Program(lab) /\ work'[n].end = "none"
  BY TakeDoes DEF Becomes, MarksStay
<1>2. ~Busy(n)
  BY <1>1 DEF Sound, WorkersGood, Turns
<1>3. (\A k : Steady(k)) /\ (Powered => Powered')
  BY <1>1, SameSteady
<1>4. IsLab(lab) /\ MakeOf(lab) \subseteq Makers /\ MakeOf(lab) # {} /\ MakeOf(lab) \subseteq Calls(lab) /\ "unregister" \in Calls(lab)
  BY LabIsLab, LabCalls DEF Sound, StateOK
<1>5. ~Done(n)' /\ ~Window(n)'
  <2>1. Left(work[n].todo)' = Calls(lab)
    BY <1>1
  <2> QED
    BY <1>1, <1>4, <2>1 DEF Done, Window, Making
<1>6. LabNet'
  <2>1. lab.caller = "setup_lab" => \A k \in Nodes : def[k] # 0
    BY <1>1 DEF LabNet
  <2>2. lab.caller = "setup_vm" /\ ~lab.parallel => queue' = {}
    BY <1>1, <1>2 DEF LabNet, Sound, StateOK
  <2> QED
    BY <1>1, <2>1, <2>2 DEF LabNet, AddressesStay
<1>7. ASSUME NEW k \in Nodes \ missed, k # n PROVE Named(k)' /\ Served(k)'
  <2>1. Named(k) /\ Served(k) /\ work'[k] = work[k] /\ NetStays(k) /\ UpsetStays(k) /\ LooksStay(k)
    BY <1>1, <1>3, <1>7 DEF AllNamed, NetStays, UpsetStays, AddressesStay, LooksStay, Steady
  <2>2. Done(k)' => Done(k)
    BY <1>1, <1>7, <2>1 DEF Done, Busy, Making
  <2> QED
    BY <1>1, <2>1, <2>2, NamedOther
<1>8. ASSUME n \notin missed PROVE Named(n)' /\ Served(n)'
  <2>1. Named(n) /\ Served(n)
    BY <1>8 DEF AllNamed
  <2>2. ~Window(n)
    BY <1>2, LeftCalls DEF Window
  <2>3. /\ HostsOf(n)' = HostsOf(n) /\ FromDisk(n)' \subseteq FromDisk(n) /\ Installing(n)' \subseteq Installing(n)
        /\ Asked(n)' \subseteq Asked(n) /\ dns'[n] = dns[n] /\ def'[n] = def[n]
    BY <1>1, <1>3 DEF Steady, AddressesStay
  <2>4. OwnFiles' <=> OwnFiles
    BY <1>1 DEF OwnFiles
  <2>5. Named(n)'
    BY <1>1, <1>5, <2>1, <2>2, <2>3, <2>4 DEF Named
  <2>6. Served(n)'
    BY <1>1, <1>5, <2>1, <2>3 DEF Served
  <2> QED
    BY <2>5, <2>6
<1>9. AllNamed'
  <2> SUFFICES ASSUME NEW k \in Nodes \ missed' PROVE Named(k)' /\ Served(k)'
    BY DEF AllNamed
  <2>1. CASE k = n
    BY <1>1, <1>8, <2>1 DEF Named, Served, Window, Done, Busy, HostsOf, FromDisk, Installing, Halted, Asked, Making
  <2> QED
    BY <1>1, <1>7, <2>1
<1> QED
  BY <1>3, <1>6, <1>9

\* setup_vm begins: its definition has no address yet.
LEMMA StartVmNet ==
    ASSUME Sound, LabNet, AllNamed, NEW n \in Nodes, StartVm(n)
    PROVE  LabNet' /\ AllNamed' /\ (Powered => Powered')
<1>1. /\ lab' = lab /\ domains' = domains /\ dns' = dns /\ missed' = missed /\ upset' = upset /\ work' = work
      /\ lab.caller = "setup_vm" /\ ~Busy(n) /\ n \notin queue /\ (lab.parallel \/ Quiet)
      /\ queue' = queue \cup {n} /\ def' = [def EXCEPT ![n] = 0]
  BY StartsDo DEF MarksStay
<1>2. (\A k : Steady(k)) /\ (Powered => Powered')
  BY <1>1, SameSteady
<1>3. \A k : (Busy(k)' <=> Busy(k)) /\ (Making(k)' <=> Making(k))
  BY <1>1 DEF Busy, Making
<1>4. LabNet'
  BY <1>1, <1>3 DEF LabNet, Quiet
<1>5. def \in [Nodes -> 0..Size]
  BY DEF Sound, StateOK
<1>6. ASSUME NEW k \in Nodes \ missed, k # n PROVE Named(k)' /\ Served(k)'
  <2>1. def'[k] = def[k]
    BY <1>1, <1>5, <1>6
  <2>2. Named(k) /\ Served(k) /\ work'[k] = work[k] /\ NetStays(k) /\ UpsetStays(k) /\ LooksStay(k)
    BY <1>1, <1>2, <1>6, <2>1 DEF AllNamed, NetStays, UpsetStays, LooksStay, Steady
  <2>3. Done(k)' => Done(k)
    BY <1>1, <1>3, <1>6 DEF Done
  <2> QED
    BY <1>1, <2>2, <2>3, NamedOther
<1>7. ASSUME n \notin missed PROVE Named(n)' /\ Served(n)'
  <2>1. Named(n) /\ Served(n)
    BY <1>7 DEF AllNamed
  <2>2. ~Window(n) /\ (Window(n)' <=> Window(n))
    BY <1>1, LeftCalls DEF Window
  <2>3. /\ HostsOf(n)' = HostsOf(n) /\ FromDisk(n)' \subseteq FromDisk(n) /\ Installing(n)' \subseteq Installing(n)
        /\ Asked(n)' \subseteq Asked(n) /\ dns'[n] = dns[n]
    BY <1>1, <1>2 DEF Steady
  <2>4. OwnFiles' <=> OwnFiles
    BY <1>1 DEF OwnFiles
  <2>5. ~Done(n)'
    BY <1>1, <1>3 DEF Done
  <2>6. Named(n)'
    BY <1>1, <2>1, <2>2, <2>3, <2>4, <2>5 DEF Named
  <2>7. Served(n)'
    BY <1>1, <2>1, <2>3, <2>5 DEF Served
  <2> QED
    BY <2>6, <2>7
<1>8. AllNamed'
  <2> SUFFICES ASSUME NEW k \in Nodes \ missed' PROVE Named(k)' /\ Served(k)'
    BY DEF AllNamed
  <2>1. CASE k = n
    BY <1>1, <1>7, <2>1 DEF Named, Served, Window, Done, Busy, HostsOf, FromDisk, Installing, Halted, Asked, Making
  <2> QED
    BY <1>1, <1>6, <2>1
<1> QED
  BY <1>2, <1>4, <1>8

\* The tables phase_allocate_ips() goes through: an address of the zone is kept, and no two nodes share one.
Fresh(d) == /\ d \in [Nodes -> 0..Size]
            /\ \A n \in Nodes : d[n] # 0 => IF dns[n] # 0 THEN d[n] = dns[n] ELSE \A k \in Nodes : d[n] # dns[k]
            /\ \A m, n \in Nodes : m # n /\ d[m] # 0 => d[m] # d[n]

\* One node's allocation keeps the table of those before it.
LEMMA FreshOne ==
    ASSUME dns \in [Nodes -> 0..Size], \A m, n \in Nodes : m # n /\ dns[m] # 0 => dns[m] # dns[n],
           NEW d, Fresh(d), NEW n \in Nodes, NEW seen, NEW e, e = [d EXCEPT ![n] = Allocate(n, d, seen)]
    PROVE  Fresh(e)
<1> DEFINE I == 0..Size
<1>0. dns \in [Nodes -> I] /\ d \in [Nodes -> I]
  BY DEF Fresh
<1> HIDE DEF I
<1>1. PICK a : a = Allocate(n, d, seen)
  OBVIOUS
<1>2. a \in I
  BY <1>1, AllocateType DEF I
<1>3. dns[n] # 0 => a = dns[n]
  BY <1>1, AllocateGives
<1>4. dns[n] = 0 => a = 0 \/ ((\A k \in Nodes \ {n} : a # d[k]) /\ (\A k \in Nodes : a # dns[k]))
  BY <1>1, AllocateGives
<1>5. e \in [Nodes -> I] /\ e[n] = a /\ \A k \in Nodes \ {n} : e[k] = d[k]
  BY <1>0, <1>1, <1>2
<1>6. \A k \in Nodes : d[k] # 0 => IF dns[k] # 0 THEN d[k] = dns[k] ELSE \A m \in Nodes : d[k] # dns[m]
  BY DEF Fresh
<1>7. \A m, k \in Nodes : m # k /\ d[m] # 0 => d[m] # d[k]
  BY DEF Fresh
<1>8. \A k \in Nodes : e[k] # 0 => IF dns[k] # 0 THEN e[k] = dns[k] ELSE \A m \in Nodes : e[k] # dns[m]
  BY <1>3, <1>4, <1>5, <1>6
<1>9. ASSUME NEW k \in Nodes \ {n}, a # 0 PROVE a # d[k]
  <2>1. CASE dns[n] = 0
    BY <1>4, <1>9, <2>1
  <2>2. CASE dns[n] # 0
    <3>1. a = dns[n] /\ dns[n] # dns[k]
      BY <1>3, <2>2
    <3> QED
      BY <1>6, <1>9, <3>1
  <2> QED
    BY <2>1, <2>2
<1>10. ASSUME NEW m \in Nodes, NEW k \in Nodes, m # k, e[m] # 0 PROVE e[m] # e[k]
  <2>1. CASE m = n
    BY <1>5, <1>9, <1>10, <2>1
  <2>2. CASE k = n
    BY <1>5, <1>9, <1>10, <2>2
  <2>3. CASE m # n /\ k # n
    BY <1>5, <1>7, <1>10, <2>3
  <2> QED
    BY <2>1, <2>2, <2>3
<1> QED
  BY <1>5, <1>8, <1>10 DEF Fresh, I

\* The addresses of the definition when the VMs of a lab begin to be made.
LEMMA FreshAll ==
    ASSUME dns \in [Nodes -> 0..Size], \A m, n \in Nodes : m # n /\ dns[m] # 0 => dns[m] # dns[n], NEW seen
    PROVE  Fresh(AllocateAll(seen))
<1> DEFINE S == {d \in [Nodes -> 0..Size] : Fresh(d)}
<1>1. [n \in Nodes |-> 0] \in S
  BY KvmVmsAssumption DEF Fresh
<1>2. ASSUME NEW d \in S, NEW n \in Nodes PROVE [d EXCEPT ![n] = Allocate(n, d, seen[n])] \in S
  <2>1. Fresh([d EXCEPT ![n] = Allocate(n, d, seen[n])])
    BY FreshOne
  <2> QED
    BY <2>1 DEF Fresh
<1> HIDE DEF S
<1>3. AllocateAll(seen) \in S
  BY <1>1, <1>2, AllocateAllKeeps
<1> QED
  BY <1>3 DEF S

\* setup_lab begins again: the addresses of the machines that are there stay theirs.
LEMMA StartLabNet ==
    ASSUME Sound, LabNet, AllNamed, StartLab
    PROVE  LabNet' /\ AllNamed' /\ (Powered => Powered')
<1>1. /\ lab' = lab /\ domains' = domains /\ dns' = dns /\ missed' = missed /\ upset' = upset /\ work' = work
      /\ lab.caller = "setup_lab" /\ Quiet
      /\ \/ def' = def /\ queue' = queue
         \/ \E seen \in [Nodes -> Seen] :
              def' = AllocateAll(seen) /\ queue' = Nodes /\ \A n \in Nodes : AllocateAll(seen)[n] # 0
  BY StartLabDoes DEF MarksStay
<1>2. (\A k : Steady(k)) /\ (Powered => Powered')
  BY <1>1, SameSteady
<1>3. CASE def' = def /\ queue' = queue
  <2>1. \A k \in Nodes \ missed : LooksStay(k)
    BY <1>2 DEF LooksStay, Steady
  <2> QED
    BY <1>1, <1>2, <1>3, <2>1, StillNet
<1>4. CASE \E seen \in [Nodes -> Seen] :
             def' = AllocateAll(seen) /\ queue' = Nodes /\ \A n \in Nodes : AllocateAll(seen)[n] # 0
  <2>1. dns \in [Nodes -> 0..Size]
    BY DEF Sound, StateOK
  <2>2. /\ \A m, n \in Nodes : m # n /\ def[m] # 0 => def[m] # def[n]
        /\ \A n \in Nodes : dns[n] \in {0, def[n]}
        /\ \/ \A n \in Nodes : def[n] # 0
           \/ queue = {} /\ \A n \in Nodes : ~Busy(n) /\ work[n].end # "ok"
    BY <1>1 DEF LabNet
  <2>3. \A m, n \in Nodes : m # n /\ dns[m] # 0 => dns[m] # dns[n]
    BY <2>2
  <2>4. Fresh(def') /\ queue' = Nodes /\ \A n \in Nodes : def'[n] # 0
    BY <1>4, <2>1, <2>3, FreshAll
  <2>5. \A n \in Nodes : dns[n] # 0 => def'[n] = dns[n]
    BY <2>4 DEF Fresh
  <2>6. \A m, n \in Nodes : m # n /\ def'[m] # 0 => def'[m] # def'[n]
    BY <2>4 DEF Fresh
  <2>7. LabNet'
    BY <1>1, <2>4, <2>5, <2>6 DEF LabNet
  <2>8. ASSUME NEW n \in Nodes \ missed PROVE Named(n)' /\ Served(n)'
    <3>1. Named(n) /\ Served(n) /\ work'[n] = work[n] /\ ~Busy(n)
      BY <1>1 DEF AllNamed, Quiet
    <3>2. UpsetStays(n) /\ LooksStay(n)
      BY <1>1, <1>2 DEF UpsetStays, LooksStay, Steady
    <3>3. ~Window(n) /\ Left(work[n].todo) = {}
      BY <3>1, LeftCalls DEF Window
    <3>4. Done(n)' <=> Done(n)
      BY <1>1, <3>1 DEF Done, Busy
    <3>5. CASE Done(n)
      <4>1. dns[n] = def[n] /\ def[n] # 0
        BY <2>2, <3>1, <3>3, <3>5 DEF Named, Done
      <4>2. NetStays(n)
        BY <1>1, <2>5, <4>1 DEF NetStays
      <4> QED
        BY <1>1, <3>1, <3>2, <3>4, <4>2, NamedOther
    <3>6. CASE ~Done(n)
      <4>1. /\ HostsOf(n)' = HostsOf(n) /\ FromDisk(n)' \subseteq FromDisk(n) /\ Installing(n)' \subseteq Installing(n)
            /\ Asked(n)' \subseteq Asked(n)
        BY <1>2 DEF Steady
      <4>2. (OwnFiles' <=> OwnFiles) /\ ~Window(n)'
        BY <1>1, <3>3 DEF OwnFiles, Window
      <4>3. OwnFiles => FromDisk(n)' \subseteq {0, def'[n]}
        BY <2>5, <3>1, <3>3, <4>1 DEF Named
      <4>4. Named(n)'
        BY <1>1, <3>1, <3>3, <3>4, <3>6, <4>1, <4>2, <4>3 DEF Named
      <4>5. Served(n)'
        BY <1>1, <3>1, <3>4, <3>6, <4>1 DEF Served
      <4> QED
        BY <4>4, <4>5
    <3> QED
      BY <3>5, <3>6
  <2>9. AllNamed'
    BY <1>1, <2>8 DEF AllNamed
  <2> QED
    BY <1>2, <2>7, <2>9
<1> QED
  BY <1>1, <1>3, <1>4

\* The hosts and the guests: a guest that is shut down was asked to, and then its node is upset.
LEMMA ElseNet ==
    ASSUME Sound, LabNet, AllNamed, Powered,
           (\E h \in Hosts : HostDown(h) \/ HostUp(h)) \/ (\E d \in domains : Boots(d) \/ Hangs(d) \/ Acts(d)) \/ UNCHANGED vars
    PROVE  LabNet' /\ AllNamed' /\ Powered'
<1>1. CASE \E h \in Hosts : HostDown(h) \/ HostUp(h)
  <2>1. PICK h \in Hosts : HostDown(h) \/ HostUp(h)
    BY <1>1
  <2>2. /\ lab' = lab /\ queue' = queue /\ work' = work /\ domains' = domains /\ AddressesStay /\ missed' = missed
        /\ upset \subseteq upset'
    BY <2>1, HostDoes
  <2>3. (\A k : Steady(k)) /\ Powered'
    BY <2>2, SameSteady
  <2>4. \A k \in Nodes \ missed : LooksStay(k)
    BY <2>3 DEF LooksStay, Steady
  <2> QED
    BY <2>2, <2>3, <2>4, StillNet DEF AddressesStay
<1>2. CASE \E d \in domains : Boots(d) \/ Hangs(d) \/ Acts(d)
  <2>1. PICK d \in domains : Boots(d) \/ Hangs(d) \/ Acts(d)
    BY <1>2
  <2>2. /\ lab' = lab /\ queue' = queue /\ work' = work /\ AddressesStay /\ missed' = missed /\ upset \subseteq upset'
    BY <2>1, GuestDoes
  <2>3. PICK e : /\ Swaps(d, e) /\ Same(d, e) /\ e.boot = d.boot /\ e.pend \subseteq d.pend
                 /\ e.on = d.on \/ (d.on /\ e.on = FALSE /\ "shutdown" \in d.pend)
                 /\ \/ e.up \in {FALSE, d.up} /\ past' = past
                    \/ d.addr # 0 /\ past' = past \cup {d.addr}
    BY <2>1, GuestDoes
  <2>4. d \in MachineType
    BY DEF Sound, MachinesGood
  <2>5. e.up => d.up \/ d.addr # 0
    BY <2>3
  <2>6. /\ \A k : k # d.name => Steady(k)
        /\ HostsOf(d.name)' = HostsOf(d.name)
        /\ FromDisk(d.name)' \subseteq FromDisk(d.name) /\ Installing(d.name)' \subseteq Installing(d.name)
        /\ Asked(d.name)' \subseteq Asked(d.name)
        /\ (d.on => e.on) => Halted(d.name)' \subseteq Halted(d.name)
        /\ Powered'
    BY <2>3, <2>4, <2>5, SwapSteady
  <2>7. ASSUME d.name \notin missed, "shutdown" \in d.pend PROVE d.name \in upset'
    <3>1. d.name \in Nodes /\ d.host \in Asked(d.name)
      BY <2>4, <2>7 DEF MachineType, Asked
    <3>2. d.name \in upset
      BY <2>7, <3>1 DEF AllNamed, Served
    <3> QED
      BY <2>2, <3>2
  <2>8. d.name \notin missed => LooksStay(d.name)
    BY <2>3, <2>6, <2>7 DEF LooksStay
  <2>9. \A k \in Nodes \ missed : LooksStay(k)
    BY <2>6, <2>8 DEF LooksStay, Steady
  <2> QED
    BY <2>2, <2>6, <2>9, StillNet DEF AddressesStay
<1>3. CASE UNCHANGED vars
  <2>1. (\A k : Steady(k)) /\ Powered'
    BY <1>3, SameSteady DEF vars
  <2>2. \A k \in Nodes \ missed : LooksStay(k)
    BY <2>1 DEF LooksStay, Steady
  <2> QED
    BY <1>3, <2>1, <2>2, StillNet DEF vars
<1> QED
  BY <1>1, <1>2, <1>3

\* Nothing has an address at the start.
LEMMA InitNet == Init => NetOK
<1> SUFFICES ASSUME Init PROVE NetOK
  OBVIOUS
<1>1. /\ domains = {} /\ queue = {} /\ \A n \in Nodes : dns[n] = 0 /\ def[n] = 0 /\ work[n].todo = <<>> /\ work[n].end = "none"
  BY DEF Init, Idle
<1>2. \A n \in Nodes : ~Busy(n) /\ Left(work[n].todo) = {}
  BY <1>1, NoCalls DEF Busy
<1>3. LabNet
  BY <1>1, <1>2 DEF LabNet
<1>4. Powered
  BY <1>1 DEF Powered
<1>5. ASSUME NEW n \in Nodes PROVE Named(n) /\ Served(n)
  <2>1. HostsOf(n) = {} /\ FromDisk(n) = {} /\ Installing(n) = {} /\ Halted(n) = {} /\ Asked(n) = {}
    <3>1. HostsOf(n) = {}
      BY <1>1 DEF HostsOf
    <3> QED
      BY <3>1, NoMachine
  <2>2. ~Done(n) /\ ~Window(n)
    BY <1>1, <1>2 DEF Done, Window
  <2>3. Named(n)
    BY <1>1, <1>2, <2>1, <2>2 DEF Named
  <2>4. Served(n)
    BY <2>1, <2>2 DEF Served
  <2> QED
    BY <2>3, <2>4
<1> QED
  BY <1>3, <1>4, <1>5 DEF NetOK, AllNamed

\* Every step keeps the names and the addresses.
LEMMA NetStep == Sound /\ AllKnown /\ AllStaged /\ NetOK /\ [Next]_vars => NetOK'
<1> SUFFICES ASSUME Sound, AllKnown, AllStaged, NetOK, [Next]_vars PROVE NetOK'
  OBVIOUS
<1> USE DEF NetOK
<1>1. ASSUME NEW n \in Nodes, Step(n) \/ StopTimesOut(n) PROVE NetOK'
  BY <1>1, StepNet, NetGoes
<1>2. ASSUME NEW n \in Nodes, Take(n) PROVE NetOK'
  BY <1>2, TakeNet
<1>3. ASSUME NEW n \in Nodes, StartVm(n) PROVE NetOK'
  BY <1>3, StartVmNet
<1>4. CASE StartLab
  BY <1>4, StartLabNet
<1>5. CASE (\E h \in Hosts : HostDown(h) \/ HostUp(h)) \/ (\E d \in domains : Boots(d) \/ Hangs(d) \/ Acts(d)) \/ UNCHANGED vars
  BY <1>5, ElseNet
<1> QED
  BY <1>1, <1>2, <1>3, <1>4, <1>5 DEF Next

\* The invariant of the addresses, with those it rests on.
LEMMA NetAlways == Spec => [](Sound /\ AllKnown /\ OwnConfiguration /\ NetOK)
<1> QED
  BY KnownAlways, StagedAlways, InitNet, NetStep, PTL DEF Spec

\* Two nodes have no address in common.
LEMMA NetDistinct == Sound /\ NetOK => AddressesDistinct
<1> SUFFICES ASSUME Sound, NetOK PROVE AddressesDistinct
  OBVIOUS
<1>1. TypeOK
  BY SoundIsTyped
<1>2. lab.caller = "setup_lab" => \A m, n \in Nodes : m # n /\ def[m] # 0 => def[m] # def[n]
  BY DEF NetOK, LabNet
<1>3. ASSUME lab.caller = "setup_lab", OwnFiles, NEW d \in domains, d.boot = "disk", d.name \notin missed
      PROVE  d.name \in Nodes /\ d.addr \in {0, def[d.name]}
  <2>1. d.name \in Nodes
    BY DEF Sound, MachinesGood, MachineType
  <2>2. d.addr \in FromDisk(d.name)
    BY <1>3 DEF FromDisk
  <2>3. FromDisk(d.name) \subseteq {0, def[d.name]}
    BY <1>3, <2>1 DEF NetOK, AllNamed, Named
  <2> QED
    BY <2>1, <2>2, <2>3
<1>4. ASSUME lab.caller = "setup_lab", OwnFiles, NEW d \in {x \in domains : x.boot = "disk" /\ x.name \notin missed},
             NEW e \in {x \in domains : x.boot = "disk" /\ x.name \notin missed}, d.name # e.name, d.addr # 0
      PROVE  d.addr # e.addr
  <2>1. d.name \in Nodes /\ d.addr = def[d.name]
    BY <1>3, <1>4
  <2>2. e.name \in Nodes /\ e.addr \in {0, def[e.name]}
    BY <1>3, <1>4
  <2>3. def[d.name] # def[e.name]
    BY <1>2, <1>4, <2>1, <2>2
  <2> QED
    BY <1>4, <2>1, <2>2, <2>3
<1> QED
  BY <1>1, <1>2, <1>4 DEF AddressesDistinct

\* A node that was provisioned has its machine.
LEMMA NetRunning == Sound /\ AllKnown /\ OwnConfiguration /\ NetOK => OkRunning
<1> SUFFICES ASSUME Sound, AllKnown, OwnConfiguration, NetOK PROVE OkRunning
  OBVIOUS
<1>1. ASSUME OwnFiles, NEW n \in Nodes \ (upset \cup missed \cup queue), work[n].end = "ok"
      PROVE  \E d \in Mine(n) : d.on /\ d.boot = "disk" /\ d.addr = def[n] /\ dns[n] = def[n]
  <2>1. Known(n) /\ Named(n) /\ Served(n)
    BY DEF AllKnown, NetOK, AllNamed
  <2>2. ~Busy(n) /\ Left(work[n].todo) = {}
    <3>1. ~Busy(n)
      BY <1>1 DEF Sound, WorkersGood, Turns
    <3> QED
      BY <3>1, LeftCalls
  <2>3. Done(n)
    BY <1>1 DEF Done
  <2>4. PICK d \in Mine(n) : TRUE
    BY <1>1, <2>1, MineHere DEF Known
  <2>5. d \in domains /\ d \in MachineType /\ d.name = n
    BY MineTyped
  <2>6. d.on \in BOOLEAN /\ d.boot \in {"disk", "installer"}
    BY <2>5 DEF MachineType
  <2>7. Halted(n) = {} /\ Installing(n) = {} /\ FromDisk(n) \subseteq {def[n]} /\ dns[n] = def[n]
    BY <1>1, <2>1, <2>2, <2>3 DEF Named, Served
  <2>8. d.on
    BY <2>5, <2>6, <2>7 DEF Halted
  <2>9. d.boot = "disk"
    BY <2>5, <2>6, <2>7 DEF Installing
  <2>10. d.addr = def[n]
    BY <2>5, <2>7, <2>9 DEF FromDisk
  <2> QED
    BY <2>7, <2>8, <2>9, <2>10
<1> QED
  BY <1>1 DEF OkRunning

\* However phase_allocate_ips() and allocate() are called, whatever fails and is built again, and whatever the
\* leases and the neighbour table of a host have, no two nodes of a lab that setup_lab builds get one address,
\* and no two of its machines that boot from disk have one, but for those destroy_vm() could not get at and,
\* in parallel, those whose cloud-init files are staged under the names of another's.
THEOREM KvmAddressesDistinct == Spec => []AddressesDistinct
<1> QED
  BY NetAlways, NetDistinct, PTL

\* When provision_vm() has ended well, and nothing was amiss with the node since, its machine runs on the host
\* that select_kvm_host() or locate_kvm_host() gave, from its own disk and not the installer's kernel, with its own
\* configuration, and at the address that add_to_dns() has written.
THEOREM KvmOkRunning == Spec => []OkRunning
<1> QED
  BY NetAlways, NetRunning, PTL

(***************************************************************************)
(* What a registry of machines promises, of whatever machines              *)
(***************************************************************************)
CONSTANTS Names, Ids, None
VARIABLES at, told
R == INSTANCE MachineRegistry

\* A name has one machine at most, no two names share one, and the machine
\* that provision_vm() ended with is the one that has the name, however
\* creations and removals of several nodes follow one another.
THEOREM RegistrySound == R!Spec => []R!OneMachine
<1> USE DEF R!TypeOK, R!OneMachine
<1>1. R!Init => R!TypeOK /\ R!OneMachine
  BY DEF R!Init
<1>2. ASSUME R!TypeOK, R!OneMachine, [R!Next]_R!regvars PROVE R!TypeOK' /\ R!OneMachine'
  <2>1. ASSUME NEW x \in Names, R!Destroy(x) PROVE R!TypeOK' /\ R!OneMachine'
    BY <1>2, <2>1 DEF R!Destroy
  <2>2. ASSUME NEW x \in Names, R!Make(x) PROVE R!TypeOK' /\ R!OneMachine'
    <3>1. PICK i \in Ids : (\A y \in Names : i \notin at[y]) /\ at' = [at EXCEPT ![x] = {i}]
      BY <2>2 DEF R!Make
    <3>2. at[x] = {} /\ told' = told
      BY <2>2 DEF R!Make
    <3> QED
      BY <1>2, <3>1, <3>2
  <2>3. ASSUME NEW x \in Names, R!Tell(x) PROVE R!TypeOK' /\ R!OneMachine'
    <3>1. PICK i \in at[x] : told' = [told EXCEPT ![x] = i]
      BY <2>3 DEF R!Tell
    <3>2. at' = at /\ i \in Ids
      BY <1>2, <2>3, <3>1 DEF R!Tell
    <3> QED
      BY <1>2, <3>1, <3>2
  <2>4. ASSUME NEW x \in Names, R!Forget(x) PROVE R!TypeOK' /\ R!OneMachine'
    BY <1>2, <2>4 DEF R!Forget
  <2>5. CASE UNCHANGED R!regvars
    BY <1>2, <2>5 DEF R!regvars
  <2> QED
    BY <1>2, <2>1, <2>2, <2>3, <2>4, <2>5 DEF R!Next
<1> QED
  BY <1>1, <1>2, PTL DEF R!Spec
=============================================================================
