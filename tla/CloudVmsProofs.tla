--------------------------- MODULE CloudVmsProofs ---------------------------
(***************************************************************************)
(* What the cloud backends keep to, for any number of nodes, of workers    *)
(* and of calls that fail: the address a node is registered with is that   *)
(* of the machine that was made for it, and a shared machine is made once. *)
(***************************************************************************)
EXTENDS CloudVms, SequenceTheorems, TLAPS

(***************************************************************************)
(* The calls that are left                                                 *)
(***************************************************************************)
Makes == {"create", "create-off"}
NetOps == {"gateway?", "make-gateway", "attach-gateway", "route?", "add-route", "rules?", "rule"}
LaterOps == {"reboot", "user-data", "power-on", "put-rule", "tag", "dhcp?", "make-options", "dhcp", "forward",
             "ready", "register", "online", "reuse", "address"}
CallOps == Makes \cup NetOps \cup LaterOps \cup {"unregister", "find", "delete"}
Calls == [op : CallOps, name : Nodes \cup Shared \cup {"vpc", "ssh", "internal"}]

\* After the machine of node n is made and known, only shared machines are.
Posts(n) == {c \in Calls : /\ c.op \notin {"unregister", "delete"}
                           /\ c.op \in Makes \cup {"address", "reuse"} => c.name \in Shared}
\* The two calls between the making of a machine and its address.
Mids == {c \in Calls : c.op \in {"user-data", "power-on"}}

\* The i-th call is one of those before the machine of node n is made, by the k-th: its first three
\* calls remove an earlier machine, and what a look-up passes over does not go beyond the k-th.
Pre(n, s, i, k) ==
    /\ s[i].op \in {"unregister", "find", "delete"} \cup NetOps
    /\ s[i].op \in {"find", "delete"} => s[i].name = n
    /\ s[i].op = "unregister" => i + 1 < k /\ s[i + 1].op = "find"
    /\ s[i].op = "find" => i + 1 < k /\ s[i + 1].op = "delete"
    /\ s[i].op = "delete" => i <= 3 /\ \A j \in 1..(i - 1) : s[j].op \in {"unregister", "find"}
    /\ s[i].op = "gateway?" => i + 2 < k
    /\ s[i].op = "route?" => i + 1 < k

\* The machine of node n is still to be made, by the k-th call, and its address to be got, by the a-th.
MakesAt(n, s, k, a) ==
    /\ k < a /\ s[k].op \in Makes /\ s[k].name = n /\ s[a] = Call("address", n)
    /\ \A i \in 1..(k - 1) : Pre(n, s, i, k)
    /\ \A i \in (k + 1)..(a - 1) : s[i] \in Mids
    /\ \A i \in (a + 1)..Len(s) : s[i] \in Posts(n)
Unmade(n, s) == \E k, a \in 1..Len(s) : MakesAt(n, s, k, a)

\* It is made, and its address is got by the a-th call.
GetsAt(n, s, a) ==
    /\ s[a] = Call("address", n)
    /\ \A i \in 1..(a - 1) : s[i] \in Mids
    /\ \A i \in (a + 1)..Len(s) : s[i] \in Posts(n)
Made(n, s) == \E a \in 1..Len(s) : GetsAt(n, s, a)

\* Its address is known.
Placed(n, s) == s \in Seq(Posts(n))

\* A shared machine that is used as it is was to be ready at the end.
ReuseReady(s) ==
    \A i \in 1..Len(s) : s[i].op = "reuse" => \E j \in 1..Len(s) : i < j /\ s[j] = Call("ready", s[i].name)
HasDelete(s) == \E i \in 1..Len(s) : s[i].op = "delete"

(***************************************************************************)
(* Sequences of calls                                                      *)
(***************************************************************************)
\* What is left of a sequence after its first k elements.
LEMMA Suffix ==
    ASSUME NEW S, NEW s \in Seq(S), NEW k \in Nat \ {0}, NEW t, t = SubSeq(s, k + 1, Len(s))
    PROVE  /\ t \in Seq(S) /\ Len(s) \in Nat /\ Len(t) = IF k < Len(s) THEN Len(s) - k ELSE 0
           /\ \A i \in 1..Len(t) : i + k \in 1..Len(s) /\ t[i] = s[i + k]
           /\ k >= Len(s) => t = <<>>
           /\ k < Len(s) => t # <<>>
<1>1. Len(s) \in Nat /\ \A i \in k + 1..Len(s) : s[i] \in S
  BY LenProperties, ElementOfSeq
<1>2. /\ t \in Seq(S) /\ Len(t) = IF k + 1 <= Len(s) THEN Len(s) - (k + 1) + 1 ELSE 0
      /\ \A i \in 1..Len(s) - (k + 1) + 1 : t[i] = s[k + 1 + i - 1]
  BY <1>1, SubSeqProperties
<1>3. Len(t) = IF k < Len(s) THEN Len(s) - k ELSE 0
  BY <1>1, <1>2
<1>4. ASSUME NEW i \in 1..Len(t) PROVE i + k \in 1..Len(s) /\ t[i] = s[i + k]
  <2>1. i \in 1..Len(s) - (k + 1) + 1 /\ k + 1 + i - 1 = i + k /\ i + k \in 1..Len(s)
    BY <1>1, <1>3
  <2> QED
    BY <1>2, <2>1
<1>5. k >= Len(s) => t = <<>>
  BY <1>1, <1>2, <1>3, EmptySeq
<1>6. k < Len(s) => t # <<>>
  <2>1. k < Len(s) => Len(t) # 0
    BY <1>1, <1>3
  <2>2. t = <<>> => Len(t) = 0
    BY EmptySeq
  <2> QED
    BY <2>1, <2>2
<1> QED
  BY <1>1, <1>2, <1>3, <1>4, <1>5, <1>6

\* Two sequences of calls, each with a "ready" for every "reuse", one after the other.
LEMMA ReuseConcat ==
    ASSUME NEW s \in Seq(Calls), NEW t \in Seq(Calls), ReuseReady(s), ReuseReady(t) PROVE ReuseReady(s \o t)
<1>1. /\ Len(s) \in Nat /\ Len(t) \in Nat /\ Len(s \o t) = Len(s) + Len(t)
      /\ \A i \in 1..Len(s) + Len(t) : (s \o t)[i] = IF i <= Len(s) THEN s[i] ELSE t[i - Len(s)]
  BY ConcatProperties, LenProperties
<1> SUFFICES ASSUME NEW i \in 1..Len(s) + Len(t), (s \o t)[i].op = "reuse"
             PROVE  \E j \in 1..Len(s) + Len(t) : i < j /\ (s \o t)[j] = Call("ready", (s \o t)[i].name)
  BY <1>1 DEF ReuseReady
<1>2. CASE i <= Len(s)
  <2>1. (s \o t)[i] = s[i] /\ i \in 1..Len(s)
    BY <1>1, <1>2
  <2>2. PICK j \in 1..Len(s) : i < j /\ s[j] = Call("ready", s[i].name)
    BY <2>1 DEF ReuseReady
  <2>3. (s \o t)[j] = s[j] /\ j \in 1..Len(s) + Len(t)
    BY <1>1
  <2> QED
    BY <2>1, <2>2, <2>3
<1>3. CASE i > Len(s)
  <2>1. (s \o t)[i] = t[i - Len(s)] /\ i - Len(s) \in 1..Len(t)
    BY <1>1, <1>3
  <2>2. PICK j \in 1..Len(t) : i - Len(s) < j /\ t[j] = Call("ready", t[i - Len(s)].name)
    BY <2>1 DEF ReuseReady
  <2>3. (s \o t)[j + Len(s)] = t[j] /\ j + Len(s) \in 1..Len(s) + Len(t) /\ i < j + Len(s)
    <3>1. j + Len(s) \in 1..Len(s) + Len(t) /\ ~(j + Len(s) <= Len(s)) /\ (j + Len(s)) - Len(s) = j /\ i < j + Len(s)
      BY <1>1, <2>2
    <3> QED
      BY <1>1, <3>1
  <2> QED
    BY <2>1, <2>2, <2>3
<1> QED
  BY <1>1, <1>2, <1>3

\* The calls for a node whose machine is to be made, with calls after them.
LEMMA UnmadeConcat ==
    ASSUME NEW n \in Nodes, NEW s \in Seq(Calls), NEW t \in Seq(Posts(n)), Unmade(n, s)
    PROVE  Unmade(n, s \o t) /\ (HasDelete(s \o t) => HasDelete(s))
<1>1. t \in Seq(Calls)
  BY DEF Posts
<1>2. /\ Len(s) \in Nat /\ Len(t) \in Nat /\ Len(s \o t) = Len(s) + Len(t)
      /\ \A i \in 1..Len(s) + Len(t) : (s \o t)[i] = IF i <= Len(s) THEN s[i] ELSE t[i - Len(s)]
  BY <1>1, ConcatProperties, LenProperties
<1>3. PICK k \in 1..Len(s), a \in 1..Len(s) : MakesAt(n, s, k, a)
  BY DEF Unmade
<1> DEFINE u == s \o t
<1>4. \A i \in 1..Len(s) : u[i] = s[i]
  BY <1>2
<1>5. k \in 1..Len(u) /\ a \in 1..Len(u) /\ k < a /\ u[k].op \in Makes /\ u[k].name = n /\ u[a] = Call("address", n)
  BY <1>2, <1>3, <1>4 DEF MakesAt
<1>6. ASSUME NEW i \in 1..(k - 1) PROVE Pre(n, u, i, k)
  <2>1. Pre(n, s, i, k) /\ i \in 1..Len(s) /\ u[i] = s[i] /\ (i + 1 < k => i + 1 \in 1..Len(s))
        /\ \A j \in 1..(i - 1) : j \in 1..Len(s)
    BY <1>2, <1>3, <1>4 DEF MakesAt
  <2>2. i + 1 < k => u[i + 1] = s[i + 1]
    BY <1>4, <2>1
  <2>3. \A j \in 1..(i - 1) : u[j] = s[j]
    BY <1>4, <2>1
  <2> HIDE DEF u
  <2> QED
    BY <2>1, <2>2, <2>3 DEF Pre
<1>7. \A i \in (k + 1)..(a - 1) : u[i] \in Mids
  <2>1. \A i \in (k + 1)..(a - 1) : i \in 1..Len(s)
    BY <1>2
  <2> QED
    BY <1>3, <1>4, <2>1 DEF MakesAt
<1>8. ASSUME NEW i \in (a + 1)..Len(u) PROVE u[i] \in Posts(n)
  <2>1. CASE i <= Len(s)
    <3>1. i \in (a + 1)..Len(s) /\ i \in 1..Len(s)
      BY <1>2, <2>1
    <3> QED
      BY <1>3, <1>4, <3>1 DEF MakesAt
  <2>2. CASE i > Len(s)
    <3>1. i - Len(s) \in 1..Len(t) /\ u[i] = t[i - Len(s)]
      BY <1>2, <2>2
    <3> QED
      BY <3>1, ElementOfSeq
  <2> QED
    BY <1>2, <2>1, <2>2
<1>9. ASSUME NEW i \in 1..Len(u), u[i].op = "delete" PROVE \E j \in 1..Len(s) : s[j].op = "delete"
  <2>1. CASE i <= Len(s)
    <3>1. i \in 1..Len(s) /\ u[i] = s[i]
      BY <1>2, <2>1
    <3> QED
      BY <1>9, <3>1
  <2>2. CASE i > Len(s)
    <3>1. i \in (a + 1)..Len(u)
      BY <1>2, <2>2
    <3> QED
      BY <1>8, <1>9, <3>1 DEF Posts
  <2> QED
    BY <1>2, <2>1, <2>2
<1> HIDE DEF u
<1>10. Unmade(n, u)
  BY <1>5, <1>6, <1>7, <1>8 DEF Unmade, MakesAt
<1>11. HasDelete(u) => HasDelete(s)
  BY <1>9 DEF HasDelete
<1> QED
  BY <1>10, <1>11 DEF u

\* The calls of delete_vm(), with a node's machine to be made after them.
LEMMA DeleteFirst ==
    ASSUME NEW n \in Nodes, NEW s \in Seq(Calls), Unmade(n, s), ReuseReady(s),
           ~HasDelete(s),
           NEW d \in Seq(Calls), Len(d) = 3, d[1] = Call("unregister", n), d[2] = Call("find", n), d[3] = Call("delete", n)
    PROVE  Unmade(n, d \o s) /\ ReuseReady(d \o s) /\ d \o s \in Seq(Calls)
<1>1. /\ Len(s) \in Nat /\ Len(d \o s) = 3 + Len(s) /\ d \o s \in Seq(Calls)
      /\ \A i \in 1..3 + Len(s) : (d \o s)[i] = IF i <= 3 THEN d[i] ELSE s[i - 3]
  <2>1. /\ Len(d \o s) = Len(d) + Len(s) /\ d \o s \in Seq(Calls)
        /\ \A i \in 1..Len(d) + Len(s) : (d \o s)[i] = IF i <= Len(d) THEN d[i] ELSE s[i - Len(d)]
    BY ConcatProperties
  <2> QED
    BY <2>1, LenProperties
<1>2. PICK k \in 1..Len(s), a \in 1..Len(s) : MakesAt(n, s, k, a)
  BY DEF Unmade
<1> DEFINE u == d \o s
<1>3. \A i \in 4..3 + Len(s) : i - 3 \in 1..Len(s) /\ u[i] = s[i - 3]
  BY <1>1
<1>4. u[1] = Call("unregister", n) /\ u[2] = Call("find", n) /\ u[3] = Call("delete", n)
  BY <1>1
<1>5. k + 3 \in 4..3 + Len(s) /\ a + 3 \in 4..3 + Len(s) /\ (k + 3) - 3 = k /\ (a + 3) - 3 = a /\ k + 3 < a + 3
  BY <1>1, <1>2 DEF MakesAt
<1>6. u[k + 3].op \in Makes /\ u[k + 3].name = n /\ u[a + 3] = Call("address", n)
  BY <1>2, <1>3, <1>5 DEF MakesAt
<1>7. ASSUME NEW i \in 1..((k + 3) - 1) PROVE Pre(n, u, i, k + 3)
  <2>1. CASE i \in {1, 2, 3}
    <3>1. 3 < k + 3 /\ 2 < k + 3
      BY <1>1
    <3> HIDE DEF u
    <3>2. CASE i = 1
      BY <1>4, <3>1, <3>2 DEF Pre, Call
    <3>3. CASE i = 2
      BY <1>4, <3>1, <3>3 DEF Pre, Call
    <3>4. CASE i = 3
      <4>1. \A j \in 1..(i - 1) : j = 1 \/ j = 2
        BY <3>4
      <4>2. u[1].op \in {"unregister", "find"} /\ u[2].op \in {"unregister", "find"}
        BY <1>4 DEF Call
      <4>3. \A j \in 1..(i - 1) : u[j].op \in {"unregister", "find"}
        BY <4>1, <4>2
      <4> QED
        BY <1>4, <3>4, <4>3 DEF Pre, Call
    <3> QED
      BY <2>1, <3>2, <3>3, <3>4
  <2>2. CASE i > 3
    <3>1. i \in 4..3 + Len(s) /\ i - 3 \in 1..(k - 1) /\ i - 3 \in 1..Len(s) /\ u[i] = s[i - 3]
      BY <1>1, <1>3, <2>2
    <3>2. Pre(n, s, i - 3, k) /\ s[i - 3].op # "delete"
      BY <1>2, <3>1 DEF MakesAt, HasDelete
    <3>5. s[i - 3].op \notin {"unregister", "find"}
      <4>1. \A j \in 1..(k - 1) : s[j].op # "find"
        <5>1. \A j \in 1..(k - 1) : j + 1 < k => j + 1 \in 1..Len(s)
          BY <1>1, <1>2
        <5> QED
          BY <1>2, <5>1 DEF MakesAt, Pre, HasDelete
      <4>2. (i - 3) + 1 < k => (i - 3) + 1 \in 1..(k - 1)
        BY <1>1, <3>1
      <4> QED
        BY <3>1, <3>2, <4>1, <4>2 DEF Pre
    <3>3. (i - 3) + 2 < k => i + 2 < k + 3
      BY <3>1
    <3>4. (i - 3) + 1 < k => i + 1 < k + 3
      BY <3>1
    <3> HIDE DEF u
    <3> QED
      BY <3>1, <3>2, <3>3, <3>4, <3>5 DEF Pre
  <2> QED
    BY <2>1, <2>2
<1>8. \A i \in ((k + 3) + 1)..((a + 3) - 1) : u[i] \in Mids
  <2>1. \A i \in ((k + 3) + 1)..((a + 3) - 1) : i \in 4..3 + Len(s) /\ i - 3 \in (k + 1)..(a - 1)
    BY <1>1
  <2> QED
    BY <1>2, <1>3, <2>1 DEF MakesAt
<1>9. \A i \in ((a + 3) + 1)..Len(u) : u[i] \in Posts(n)
  <2>1. \A i \in ((a + 3) + 1)..Len(u) : i \in 4..3 + Len(s) /\ i - 3 \in (a + 1)..Len(s)
    BY <1>1
  <2> QED
    BY <1>2, <1>3, <2>1 DEF MakesAt
<1>10. Unmade(n, u)
  <2>1. k + 3 \in 1..Len(u) /\ a + 3 \in 1..Len(u)
    BY <1>1
  <2> HIDE DEF u
  <2>2. MakesAt(n, u, k + 3, a + 3)
    BY <1>5, <1>6, <1>7, <1>8, <1>9 DEF MakesAt
  <2> QED
    BY <2>1, <2>2 DEF Unmade
<1>11. ReuseReady(d)
  <2>1. \A i \in 1..Len(d) : i \in {1, 2, 3}
    OBVIOUS
  <2> QED
    BY <2>1 DEF ReuseReady, Call
<1>12. ReuseReady(u)
  BY <1>11, ReuseConcat
<1> QED
  BY <1>1, <1>10, <1>12

(***************************************************************************)
(* The calls of destroy_vm() and provision_vm()                            *)
(***************************************************************************)
\* Calls for node n up to its address, and calls after it.
Begun(n, s) == s \in Seq(Calls) /\ Unmade(n, s) /\ ~HasDelete(s) /\ ReuseReady(s)
Rest(n, t) == t \in Seq(Posts(n)) /\ ReuseReady(t)
Plain(n) == {c \in Posts(n) : c.op # "reuse"}

\* Calls of a node's later steps may follow a run that has not made its machine.
LEMMA BegunConcat ==
    ASSUME NEW n \in Nodes, NEW s, NEW t, Begun(n, s), Rest(n, t) PROVE Begun(n, s \o t)
<1>1. t \in Seq(Calls) /\ s \in Seq(Calls)
  BY DEF Begun, Rest, Posts
<1>2. s \o t \in Seq(Calls)
  BY <1>1, ConcatProperties
<1> QED
  BY <1>1, <1>2, UnmadeConcat, ReuseConcat DEF Begun, Rest

\* Two sequences of later calls are one.
LEMMA RestConcat ==
    ASSUME NEW n \in Nodes, NEW s, NEW t, Rest(n, s), Rest(n, t) PROVE Rest(n, s \o t)
<1>1. t \in Seq(Calls) /\ s \in Seq(Calls)
  BY DEF Rest, Posts
<1>2. s \o t \in Seq(Posts(n))
  BY ConcatProperties DEF Rest
<1> QED
  BY <1>1, <1>2, ReuseConcat DEF Rest

\* Calls among which is no "reuse".
LEMMA PlainRest ==
    ASSUME NEW n \in Nodes, NEW t \in Seq(Plain(n)) PROVE Rest(n, t)
<1>1. t \in Seq(Posts(n))
  BY DEF Plain
<1>2. \A i \in 1..Len(t) : t[i].op # "reuse"
  BY ElementOfSeq DEF Plain
<1> QED
  BY <1>1, <1>2 DEF Rest, ReuseReady

\* The calls of the model that are plain.
LEMMA PlainCalls ==
    ASSUME NEW n \in Nodes, NEW x \in Nodes \cup Shared \cup {"vpc", "ssh", "internal"},
           NEW op \in CallOps \ {"unregister", "delete", "reuse"}, op \in Makes \cup {"address"} => x \in Shared
    PROVE  Call(op, x) \in Plain(n)
<1>1. Call(op, x) \in Calls /\ Call(op, x).op = op /\ Call(op, x).name = x
  BY DEF Call, Calls
<1> QED
  BY <1>1 DEF Plain, Posts

\* create_vm() of a shared machine consists of later calls, whatever the provider.
LEMMA CreateRest ==
    ASSUME NEW n \in Nodes, NEW x \in Shared, NEW c \in Providers PROVE Create(c, x) \in Seq(Plain(n))
<1> USE PlainCalls DEF CallOps, Makes, NetOps, LaterOps
<1>1. /\ Call("create", x) \in Plain(n) /\ Call("address", x) \in Plain(n) /\ Call("create-off", x) \in Plain(n)
      /\ Call("user-data", x) \in Plain(n) /\ Call("power-on", x) \in Plain(n)
  OBVIOUS
<1>2. /\ Call("gateway?", "vpc") \in Plain(n) /\ Call("make-gateway", "vpc") \in Plain(n)
      /\ Call("attach-gateway", "vpc") \in Plain(n) /\ Call("route?", "vpc") \in Plain(n)
      /\ Call("add-route", "vpc") \in Plain(n)
  OBVIOUS
<1>3. Call("rules?", x) \in Plain(n) /\ Call("rule", "ssh") \in Plain(n) /\ Call("rule", x) \in Plain(n)
  OBVIOUS
<1>4. InternetGateway \in Seq(Plain(n)) /\ SecurityGroup(x) \in Seq(Plain(n))
      /\ <<Call("create", x), Call("address", x)>> \in Seq(Plain(n))
  BY <1>1, <1>2, <1>3 DEF InternetGateway, SecurityGroup
<1>5. AWSCreate(x) \in Seq(Plain(n))
  BY <1>4, ConcatProperties DEF AWSCreate
<1>6. ScalewayCreate(x) \in Seq(Plain(n))
  BY <1>1 DEF ScalewayCreate
<1> QED
  BY <1>4, <1>5, <1>6
  DEF Create, Providers, HetznerCreate, GCPCreate, AlibabaCreate, UpCloudCreate, OVHcloudCreate, ExoscaleCreate

\* A node's machine is made by one call, or by three, or on AWS after the network's.
LEMMA CreateBegun ==
    ASSUME NEW n \in Nodes, NEW c \in Providers PROVE Begun(n, Create(c, n))
<1>1. ASSUME NEW s, s = <<Call("create", n), Call("address", n)>> PROVE Begun(n, s)
  <2>1. s \in Seq(Calls) /\ Len(s) = 2 /\ s[1] = Call("create", n) /\ s[2] = Call("address", n)
    BY <1>1 DEF Calls, Call, CallOps, Makes, NetOps, LaterOps
  <2>2. \A i \in 1..Len(s) : i = 1 \/ i = 2
    BY <2>1
  <2>3. MakesAt(n, s, 1, 2)
    BY <2>1 DEF MakesAt, Call, Makes
  <2>4. ~HasDelete(s) /\ ReuseReady(s)
    BY <2>1, <2>2 DEF HasDelete, ReuseReady, Call
  <2>5. Unmade(n, s)
    <3>1. 1 \in 1..Len(s) /\ 2 \in 1..Len(s)
      BY <2>1
    <3> QED
      BY <2>3, <3>1 DEF Unmade
  <2> QED
    BY <2>1, <2>4, <2>5 DEF Begun
<1>2. Begun(n, ScalewayCreate(n))
  <2> DEFINE s == ScalewayCreate(n)
  <2>1. /\ s \in Seq(Calls) /\ Len(s) = 4 /\ s[1] = Call("create-off", n) /\ s[2] = Call("user-data", n)
        /\ s[3] = Call("power-on", n) /\ s[4] = Call("address", n)
    BY DEF ScalewayCreate, Calls, Call, CallOps, Makes, NetOps, LaterOps
  <2> HIDE DEF s
  <2>2. \A i \in 1..Len(s) : i = 1 \/ i = 2 \/ i = 3 \/ i = 4
    BY <2>1
  <2>3. \A i \in 2..3 : s[i] \in Mids
    <3>1. s[2] \in Mids /\ s[3] \in Mids
      BY <2>1 DEF Mids, Calls, Call, CallOps, LaterOps
    <3>2. \A i \in 2..3 : i = 2 \/ i = 3
      OBVIOUS
    <3> QED
      BY <3>1, <3>2
  <2>4. MakesAt(n, s, 1, 4)
    BY <2>1, <2>3 DEF MakesAt, Call, Makes
  <2>5. ~HasDelete(s) /\ ReuseReady(s)
    BY <2>1, <2>2 DEF HasDelete, ReuseReady, Call
  <2>6. Unmade(n, s)
    <3>1. 1 \in 1..Len(s) /\ 4 \in 1..Len(s)
      BY <2>1
    <3> QED
      BY <2>4, <3>1 DEF Unmade
  <2> QED
    BY <2>1, <2>5, <2>6 DEF Begun, s
<1>3. Begun(n, AWSCreate(n))
  <2> DEFINE s == AWSCreate(n)
  <2>1. /\ InternetGateway \in Seq(Calls) /\ Len(InternetGateway) = 5
        /\ InternetGateway[1] = Call("gateway?", "vpc") /\ InternetGateway[2] = Call("make-gateway", "vpc")
        /\ InternetGateway[3] = Call("attach-gateway", "vpc") /\ InternetGateway[4] = Call("route?", "vpc")
        /\ InternetGateway[5] = Call("add-route", "vpc")
    BY DEF InternetGateway, Calls, Call, CallOps, Makes, NetOps, LaterOps
  <2>2. /\ SecurityGroup(n) \in Seq(Calls) /\ Len(SecurityGroup(n)) = 3
        /\ SecurityGroup(n)[1] = Call("rules?", n) /\ SecurityGroup(n)[2] = Call("rule", "ssh")
        /\ SecurityGroup(n)[3] = Call("rule", n)
    BY DEF SecurityGroup, Calls, Call, CallOps, Makes, NetOps, LaterOps
  <2> DEFINE e == <<Call("create", n), Call("address", n)>>
  <2>3. e \in Seq(Calls) /\ Len(e) = 2 /\ e[1] = Call("create", n) /\ e[2] = Call("address", n)
    BY DEF Calls, Call, CallOps, Makes, NetOps, LaterOps
  <2> HIDE DEF e
  <2> DEFINE h == InternetGateway \o SecurityGroup(n)
  <2>4. /\ h \in Seq(Calls) /\ Len(h) = 8 /\ \A i \in 1..8 : h[i] = IF i <= 5 THEN InternetGateway[i]
                                                                     ELSE SecurityGroup(n)[i - 5]
    <3>1. /\ h \in Seq(Calls) /\ Len(h) = Len(InternetGateway) + Len(SecurityGroup(n))
          /\ \A i \in 1..Len(InternetGateway) + Len(SecurityGroup(n)) :
                h[i] = IF i <= Len(InternetGateway) THEN InternetGateway[i]
                       ELSE SecurityGroup(n)[i - Len(InternetGateway)]
      BY <2>1, <2>2, ConcatProperties
    <3> HIDE DEF h
    <3> QED
      BY <2>1, <2>2, <3>1
  <2>5. s = h \o e
    BY DEF AWSCreate, e
  <2> HIDE DEF h, s
  <2>6. /\ s \in Seq(Calls) /\ Len(s) = 10 /\ \A i \in 1..10 : s[i] = IF i <= 8 THEN h[i] ELSE e[i - 8]
    <3>1. /\ s \in Seq(Calls) /\ Len(s) = Len(h) + Len(e)
          /\ \A i \in 1..Len(h) + Len(e) : s[i] = IF i <= Len(h) THEN h[i] ELSE e[i - Len(h)]
      BY <2>3, <2>4, <2>5, ConcatProperties
    <3> QED
      BY <2>3, <2>4, <3>1
  <2>7. /\ s[1] = Call("gateway?", "vpc") /\ s[2] = Call("make-gateway", "vpc")
        /\ s[3] = Call("attach-gateway", "vpc") /\ s[4] = Call("route?", "vpc") /\ s[5] = Call("add-route", "vpc")
    BY <2>1, <2>4, <2>6
  <2>8. /\ s[6] = Call("rules?", n) /\ s[7] = Call("rule", "ssh") /\ s[8] = Call("rule", n)
        /\ s[9] = Call("create", n) /\ s[10] = Call("address", n)
    <3>1. s[6] = SecurityGroup(n)[6 - 5] /\ s[7] = SecurityGroup(n)[7 - 5] /\ s[8] = SecurityGroup(n)[8 - 5]
      BY <2>4, <2>6
    <3>2. s[9] = e[9 - 8] /\ s[10] = e[10 - 8]
      BY <2>6
    <3> QED
      BY <2>2, <2>3, <3>1, <3>2
  <2>9. \A i \in 1..8 : s[i].op \in NetOps /\ (s[i].op = "gateway?" => i = 1) /\ (s[i].op = "route?" => i = 4)
    <3>1. \A i \in 1..8 : i = 1 \/ i = 2 \/ i = 3 \/ i = 4 \/ i = 5 \/ i = 6 \/ i = 7 \/ i = 8
      OBVIOUS
    <3> QED
      BY <2>7, <2>8, <3>1 DEF Call, NetOps
  <2>10. \A i \in 1..8 : Pre(n, s, i, 9)
    BY <2>9 DEF Pre, NetOps
  <2>11. MakesAt(n, s, 9, 10)
    BY <2>6, <2>8, <2>10 DEF MakesAt, Call, Makes
  <2>12. \A i \in 1..Len(s) : s[i].op \notin {"delete", "reuse"}
    <3>1. \A i \in 1..Len(s) : i \in 1..8 \/ i = 9 \/ i = 10
      BY <2>6
    <3>2. s[9].op = "create" /\ s[10].op = "address"
      BY <2>8 DEF Call
    <3>3. \A i \in 1..8 : s[i].op \notin {"delete", "reuse"}
      BY <2>9 DEF NetOps
    <3> QED
      BY <3>1, <3>2, <3>3
  <2>13. Unmade(n, s)
    <3>1. 9 \in 1..Len(s) /\ 10 \in 1..Len(s)
      BY <2>6
    <3> QED
      BY <2>11, <3>1 DEF Unmade
  <2> QED
    BY <2>6, <2>12, <2>13 DEF Begun, s, HasDelete, ReuseReady
<1> QED
  BY <1>1, <1>2, <1>3
  DEF Create, Providers, HetznerCreate, GCPCreate, AlibabaCreate, UpCloudCreate, OVHcloudCreate, ExoscaleCreate

\* So does ensure_cloud_dns_vm(), whose look-up is followed by the wait for the machine.
LEMMA EnsureRest ==
    ASSUME NEW n \in Nodes, NEW x \in Shared, NEW c \in Providers PROVE Rest(n, EnsureShared(c, x))
<1> DEFINE r == <<Call("reuse", x)>>
           m == Create(c, x)
           y == <<Call("ready", x)>>
           h == r \o m
           s == h \o y
<1>1. Call("reuse", x) \in Posts(n) /\ Call("ready", x) \in Posts(n)
  BY DEF Posts, Calls, Call, CallOps, LaterOps, Makes, NetOps
<1>2. r \in Seq(Posts(n)) /\ Len(r) = 1 /\ r[1] = Call("reuse", x)
  BY <1>1
<1>3. y \in Seq(Posts(n)) /\ Len(y) = 1 /\ y[1] = Call("ready", x)
  BY <1>1
<1>4. m \in Seq(Posts(n)) /\ Len(m) \in Nat /\ \A i \in 1..Len(m) : m[i].op # "reuse"
  <2>1. m \in Seq(Plain(n))
    BY CreateRest
  <2>2. m \in Seq(Posts(n))
    BY <2>1 DEF Plain
  <2>3. \A i \in 1..Len(m) : m[i].op # "reuse"
    BY <2>1, ElementOfSeq DEF Plain
  <2> QED
    BY <2>2, <2>3, LenProperties
<1>5. EnsureShared(c, x) = s
  BY DEF EnsureShared
<1> HIDE DEF r, y, m
<1>6. /\ h \in Seq(Posts(n)) /\ Len(h) = 1 + Len(m)
      /\ \A i \in 1..1 + Len(m) : h[i] = IF i <= 1 THEN r[i] ELSE m[i - 1]
  <2>1. /\ h \in Seq(Posts(n)) /\ Len(h) = Len(r) + Len(m)
        /\ \A i \in 1..Len(r) + Len(m) : h[i] = IF i <= Len(r) THEN r[i] ELSE m[i - Len(r)]
    BY <1>2, <1>4, ConcatProperties
  <2> HIDE DEF h
  <2> QED
    BY <1>2, <2>1
<1> HIDE DEF h
<1>7. /\ s \in Seq(Posts(n)) /\ Len(s) = 2 + Len(m)
      /\ \A i \in 1..2 + Len(m) : s[i] = IF i <= 1 + Len(m) THEN h[i] ELSE y[i - (1 + Len(m))]
  <2>1. /\ s \in Seq(Posts(n)) /\ Len(s) = Len(h) + Len(y)
        /\ \A i \in 1..Len(h) + Len(y) : s[i] = IF i <= Len(h) THEN h[i] ELSE y[i - Len(h)]
    BY <1>3, <1>6, ConcatProperties
  <2> HIDE DEF s
  <2> QED
    BY <1>3, <1>4, <1>6, <2>1
<1> HIDE DEF s
<1>8. s[2 + Len(m)] = Call("ready", x) /\ 2 + Len(m) \in 1..Len(s)
  <2>1. ~(2 + Len(m) <= 1 + Len(m)) /\ (2 + Len(m)) - (1 + Len(m)) = 1 /\ 2 + Len(m) \in 1..2 + Len(m)
    BY <1>4
  <2> QED
    BY <1>3, <1>7, <2>1
<1>9. ASSUME NEW i \in 1..Len(s), s[i].op = "reuse" PROVE i < 2 + Len(m) /\ s[i].name = x
  <2>1. CASE i = 1
    <3>1. s[1] = r[1]
      <4>1. 1 \in 1..2 + Len(m) /\ 1 \in 1..1 + Len(m) /\ 1 <= 1 + Len(m)
        BY <1>4
      <4>2. s[1] = h[1]
        BY <1>7, <4>1
      <4>3. h[1] = r[1]
        BY <1>6, <4>1
      <4> QED
        BY <4>2, <4>3
    <3> QED
      BY <1>2, <1>4, <2>1, <3>1 DEF Call
  <2>2. CASE i = 2 + Len(m)
    BY <1>8, <1>9, <2>2 DEF Call
  <2>3. CASE i # 1 /\ i # 2 + Len(m)
    <3>1. i - 1 \in 1..Len(m) /\ i <= 1 + Len(m) /\ i \in 1..1 + Len(m) /\ i \in 1..2 + Len(m) /\ ~(i <= 1)
      BY <1>4, <1>7, <2>3
    <3>2. s[i] = m[i - 1]
      BY <1>6, <1>7, <3>1
    <3> QED
      BY <1>4, <1>9, <3>1, <3>2
  <2> QED
    BY <2>1, <2>2, <2>3
<1>10. ReuseReady(s)
  BY <1>8, <1>9 DEF ReuseReady
<1> QED
  BY <1>5, <1>7, <1>10 DEF Rest

\* All the calls of a worker, from the removal of the node's records on.
LEMMA Program ==
    ASSUME NEW n \in Nodes, NEW c \in Providers, NEW g \in BOOLEAN,
           NEW p, p = <<Call("unregister", n)>> \o Delete(n) \o Provision(c, n, g)
    PROVE  p \in Seq(Calls) /\ Unmade(n, p) /\ ReuseReady(p) /\ p # <<>> /\ p[1].op = "unregister" /\ HasDelete(p)
<1>1. Rest(n, OpenPorts(c, n))
  <2>1. /\ Call("put-rule", n) \in Plain(n) /\ Call("tag", n) \in Plain(n) /\ Call("rules?", n) \in Plain(n)
        /\ Call("rule", n) \in Plain(n) /\ Call("rule", "ssh") \in Plain(n)
    BY PlainCalls DEF CallOps, Makes, NetOps, LaterOps
  <2>2. OpenPorts(c, n) \in Seq(Plain(n))
    BY <2>1 DEF OpenPorts, AWSPorts, GCPPorts, AlibabaPorts, ExoscalePorts, SecurityGroup, Providers
  <2> QED
    BY <2>2, PlainRest
<1>2. Rest(n, EnsureShared(c, "dns")) /\ Rest(n, EnsureShared(c, "gw"))
  BY EnsureRest DEF Shared
<1>3. Rest(n, <<>>)
  <2>1. <<>> \in Seq(Plain(n))
    BY EmptySeq
  <2> QED
    BY <2>1, PlainRest
<1>4. Rest(n, IF c = "aws" THEN UseDnsServer ELSE <<>>)
  <2>1. /\ Call("dhcp?", "dns") \in Plain(n) /\ Call("make-options", "dns") \in Plain(n)
        /\ Call("dhcp", "dns") \in Plain(n)
    BY PlainCalls DEF CallOps, Makes, NetOps, LaterOps, Shared
  <2>2. UseDnsServer \in Seq(Plain(n))
    BY <2>1 DEF UseDnsServer
  <2> QED
    BY <1>3, <2>2, PlainRest
<1>5. Rest(n, <<Call("register", n), Call("online", n)>>) /\ Rest(n, <<Call("online", n)>>)
  <2>1. Call("register", n) \in Plain(n) /\ Call("online", n) \in Plain(n)
    BY PlainCalls DEF CallOps, Makes, NetOps, LaterOps
  <2>2. <<Call("register", n), Call("online", n)>> \in Seq(Plain(n)) /\ <<Call("online", n)>> \in Seq(Plain(n))
    BY <2>1
  <2> QED
    BY <2>2, PlainRest
<1>6. Rest(n, Reboot(c, n))
  <2>1. Call("find", n) \in Plain(n) /\ Call("reboot", n) \in Plain(n)
    BY PlainCalls DEF CallOps, Makes, NetOps, LaterOps
  <2>2. Reboot(c, n) \in Seq(Plain(n))
    BY <2>1 DEF Reboot, Providers, HetznerPower, AWSPower, GCPPower, AlibabaPower, ScalewayPower, UpCloudPower,
                OVHcloudPower, ExoscalePower
  <2> QED
    BY <2>2, PlainRest
<1>7. Rest(n, IF g THEN EnsureGateway(c) ELSE <<>>)
  <2>1. /\ Call("find", "gw") \in Plain(n) /\ Call("forward", "gw") \in Plain(n)
        /\ Call("rules?", "internal") \in Plain(n) /\ Call("rule", "internal") \in Plain(n)
    BY PlainCalls DEF CallOps, Makes, NetOps, LaterOps, Shared
  <2>2. Forwarding \in Seq(Plain(n)) /\ InternalTraffic \in Seq(Plain(n))
    BY <2>1 DEF Forwarding, InternalTraffic
  <2>3. Rest(n, IF c = "aws" THEN Forwarding \o InternalTraffic ELSE <<>>)
    BY <1>3, <2>2, PlainRest, RestConcat
  <2>4. Rest(n, EnsureGateway(c))
    BY <1>2, <2>3, RestConcat DEF EnsureGateway
  <2> QED
    BY <1>3, <2>4
<1>8. Begun(n, Provision(c, n, g))
  <2> DEFINE s1 == Create(c, n) \o OpenPorts(c, n)
             s2 == s1 \o EnsureShared(c, "dns")
             s3 == s2 \o (IF c = "aws" THEN UseDnsServer ELSE <<>>)
             s4 == s3 \o <<Call("register", n), Call("online", n)>>
             s5 == s4 \o Reboot(c, n)
             s6 == s5 \o <<Call("online", n)>>
             s7 == s6 \o (IF g THEN EnsureGateway(c) ELSE <<>>)
  <2>0. Provision(c, n, g) = s7
    BY DEF Provision
  <2>1. Begun(n, s1)
    BY <1>1, CreateBegun, BegunConcat
  <2> HIDE DEF s1
  <2>2. Begun(n, s2)
    BY <1>2, <2>1, BegunConcat
  <2> HIDE DEF s2
  <2>3. Begun(n, s3)
    BY <1>4, <2>2, BegunConcat
  <2> HIDE DEF s3
  <2>4. Begun(n, s4)
    BY <1>5, <2>3, BegunConcat
  <2> HIDE DEF s4
  <2>5. Begun(n, s5)
    BY <1>6, <2>4, BegunConcat
  <2> HIDE DEF s5
  <2>6. Begun(n, s6)
    BY <1>5, <2>5, BegunConcat
  <2> HIDE DEF s6
  <2>7. Begun(n, s7)
    BY <1>7, <2>6, BegunConcat
  <2> QED
    BY <2>0, <2>7
<1> DEFINE d == <<Call("unregister", n)>> \o Delete(n)
<1>9. /\ d \in Seq(Calls) /\ Len(d) = 3 /\ d[1] = Call("unregister", n) /\ d[2] = Call("find", n)
      /\ d[3] = Call("delete", n)
  <2>1. Call("unregister", n) \in Calls /\ Call("find", n) \in Calls /\ Call("delete", n) \in Calls
    BY DEF Calls, Call, CallOps
  <2> DEFINE u == <<Call("unregister", n)>>
             v == Delete(n)
  <2>2. u \in Seq(Calls) /\ Len(u) = 1 /\ u[1] = Call("unregister", n)
    BY <2>1
  <2>3. v \in Seq(Calls) /\ Len(v) = 2 /\ v[1] = Call("find", n) /\ v[2] = Call("delete", n)
    BY <2>1 DEF Delete
  <2>4. d = u \o v
    OBVIOUS
  <2> HIDE DEF u, v, d
  <2>5. /\ d \in Seq(Calls) /\ Len(d) = Len(u) + Len(v)
        /\ \A i \in 1..Len(u) + Len(v) : d[i] = IF i <= Len(u) THEN u[i] ELSE v[i - Len(u)]
    BY <2>2, <2>3, <2>4, ConcatProperties
  <2>6. d[1] = u[1] /\ d[2] = v[2 - 1] /\ d[3] = v[3 - 1]
    BY <2>2, <2>3, <2>5
  <2> QED
    BY <2>2, <2>3, <2>5, <2>6
<1> DEFINE q == Provision(c, n, g)
<1>10. p = d \o q
  OBVIOUS
<1> HIDE DEF d, q
<1>11. q \in Seq(Calls) /\ Unmade(n, q) /\ ~HasDelete(q) /\ ReuseReady(q)
  BY <1>8 DEF Begun, q
<1>12. Unmade(n, p) /\ ReuseReady(p) /\ p \in Seq(Calls)
  BY <1>9, <1>10, <1>11, DeleteFirst
<1>13. Len(p) # 0 /\ p[1] = d[1] /\ p[3] = d[3] /\ 3 \in 1..Len(p)
  <2>1. /\ Len(d \o q) = Len(d) + Len(q)
        /\ \A i \in 1..Len(d) + Len(q) : (d \o q)[i] = IF i <= Len(d) THEN d[i] ELSE q[i - Len(d)]
    BY <1>9, <1>11, ConcatProperties
  <2>2. Len(q) \in Nat
    BY <1>11, LenProperties
  <2>3. 1 \in 1..Len(d) + Len(q) /\ 1 <= Len(d) /\ Len(d) + Len(q) # 0 /\ 3 \in 1..Len(d) + Len(q) /\ 3 <= Len(d)
    BY <1>9, <2>2
  <2> QED
    BY <1>10, <2>1, <2>3
<1>14. HasDelete(p)
  BY <1>9, <1>13 DEF HasDelete, Call
<1> QED
  BY <1>9, <1>12, <1>13, <1>14, EmptySeq DEF Call

(***************************************************************************)
(* The calls that are left after some are done                             *)
(***************************************************************************)
\* What a worker can be at, before its machine is made, between, and after.
LEMMA UnmadeHead ==
    ASSUME NEW n \in Nodes, NEW s \in Seq(Calls), NEW k \in 1..Len(s), NEW a \in 1..Len(s), MakesAt(n, s, k, a)
    PROVE  /\ Len(s) \in Nat /\ Len(s) >= 2
           /\ s[1].op \in Makes => k = 1 /\ s[1].name = n
           /\ s[1].op \notin Makes => 1 < k /\ Pre(n, s, 1, k)
           /\ s[1].op \in {"unregister", "find", "delete"} \cup NetOps \cup Makes
<1>1. Len(s) \in Nat /\ Len(s) >= 2
  BY LenProperties DEF MakesAt
<1>2. CASE k = 1
  BY <1>1, <1>2 DEF MakesAt, Makes
<1>3. CASE k # 1
  <2>1. 1 \in 1..(k - 1)
    BY <1>1, <1>3
  <2>2. Pre(n, s, 1, k)
    BY <2>1 DEF MakesAt
  <2> QED
    BY <1>1, <2>1, <2>2 DEF Pre, Makes, NetOps
<1> QED
  BY <1>2, <1>3

\* When the machine is made, its address comes before any other call that could get one.
LEMMA MadeHead ==
    ASSUME NEW n \in Nodes, NEW s \in Seq(Calls), NEW a \in 1..Len(s), GetsAt(n, s, a)
    PROVE  /\ a = 1 => s[1] = Call("address", n)
           /\ a # 1 => s[1].op \in {"user-data", "power-on"}
<1>1. a # 1 => 1 \in 1..(a - 1)
  BY LenProperties
<1> QED
  BY <1>1 DEF GetsAt, Mids

\* A worker that has its address is at one of the later calls.
LEMMA PlacedHead ==
    ASSUME NEW n \in Nodes, NEW s, s # <<>>, Placed(n, s)
    PROVE  s[1] \in Posts(n) /\ \A i \in 1..Len(s) : s[i] \in Posts(n)
<1>1. s \in Seq(Posts(n))
  BY DEF Placed
<1>2. Len(s) \in Nat /\ Len(s) # 0
  BY <1>1, LenProperties, EmptySeq
<1> QED
  BY <1>1, <1>2, ElementOfSeq

\* Calls before the machine is made are done.
LEMMA UnmadeTail ==
    ASSUME NEW n \in Nodes, NEW s \in Seq(Calls), NEW k \in 1..Len(s), NEW a \in 1..Len(s), MakesAt(n, s, k, a),
           NEW c \in Nat \ {0}, c < k, NEW t, t = SubSeq(s, c + 1, Len(s))
    PROVE  /\ c # Len(s) /\ t \in Seq(Calls) /\ 1 \in 1..Len(t) /\ Unmade(n, t)
           /\ t[1] = s[c + 1]
           /\ HasDelete(t) => \A j \in 1..c : s[j].op \in {"unregister", "find"}
           /\ HasDelete(t) => s[1].op \in {"unregister", "find"} /\ s[c].op \in {"unregister", "find"}
<1>1. /\ t \in Seq(Calls) /\ Len(s) \in Nat /\ Len(t) = IF c < Len(s) THEN Len(s) - c ELSE 0
      /\ \A i \in 1..Len(t) : i + c \in 1..Len(s) /\ t[i] = s[i + c]
  <2>1. t \in Seq(Calls)
    BY Suffix
  <2>2. Len(t) = IF c < Len(s) THEN Len(s) - c ELSE 0
    BY Suffix
  <2>3. \A i \in 1..Len(t) : i + c \in 1..Len(s) /\ t[i] = s[i + c]
    BY Suffix
  <2> QED
    BY <2>1, <2>2, <2>3, LenProperties
<1>0. Len(t) \in Nat
  BY <1>1, LenProperties
<1>2. Len(t) = Len(s) - c /\ c < Len(s) /\ c + 1 \in 1..Len(s) /\ k - c \in 1..Len(t) /\ a - c \in 1..Len(t)
      /\ k - c < a - c /\ 1 \in 1..Len(t)
  BY <1>1 DEF MakesAt
<1>3. t[k - c] = s[k] /\ t[a - c] = s[a] /\ t[1] = s[c + 1]
  <2>1. (k - c) + c = k /\ (a - c) + c = a /\ 1 + c = c + 1
    BY <1>1
  <2> QED
    BY <1>1, <1>2, <2>1
<1>4. ASSUME NEW i \in 1..((k - c) - 1) PROVE Pre(n, t, i, k - c)
  <2>1. i + c \in 1..(k - 1) /\ i \in 1..Len(t)
    <3>1. k \in Nat /\ c \in Nat /\ Len(t) \in Nat
      BY <1>0, <1>1
    <3>2. k - c \in 1..Len(t)
      BY <1>2
    <3>3. i \in 1..((k - c) - 1)
      OBVIOUS
    <3> QED
      BY ONLY <3>1, <3>2, <3>3
  <2>2. Pre(n, s, i + c, k) /\ t[i] = s[i + c]
    BY <1>1, <2>1 DEF MakesAt
  <2>3. (i + c) + 1 < k => i + 1 < k - c /\ t[i + 1] = s[(i + c) + 1]
    <3>1. k \in Nat /\ c \in Nat /\ Len(t) \in Nat
      BY <1>0, <1>1
    <3>2. k - c \in 1..Len(t)
      BY <1>2
    <3>3. i \in 1..((k - c) - 1)
      OBVIOUS
    <3>4. (i + c) + 1 < k => i + 1 < k - c /\ i + 1 \in 1..Len(t) /\ (i + 1) + c = (i + c) + 1
      BY ONLY <3>1, <3>2, <3>3
    <3> QED
      BY <1>1, <3>4
  <2>4. ASSUME t[i].op = "delete" PROVE i <= 3 /\ \A j \in 1..(i - 1) : t[j].op \in {"unregister", "find"}
    <3>1. i + c <= 3 /\ \A j \in 1..((i + c) - 1) : s[j].op \in {"unregister", "find"}
      BY <2>2, <2>4 DEF Pre
    <3>2. i \in Nat /\ c \in Nat /\ Len(t) \in Nat /\ i <= Len(t)
      BY <1>1, <2>1
    <3>3. i <= 3
      BY <3>1, <3>2
    <3>4. \A j \in 1..(i - 1) : j + c \in 1..((i + c) - 1) /\ j \in 1..Len(t)
      BY <3>2
    <3> QED
      BY <1>1, <3>1, <3>3, <3>4
  <2>5. (i + c) + 2 < k => i + 2 < k - c
    <3>1. k \in Nat /\ c \in Nat /\ i \in Nat
      BY <1>0, <1>1, <2>1
    <3> QED
      BY ONLY <3>1
  <2> QED
    BY <2>2, <2>3, <2>4, <2>5 DEF Pre
<1>5. \A i \in ((k - c) + 1)..((a - c) - 1) : t[i] \in Mids
  <2>1. \A i \in ((k - c) + 1)..((a - c) - 1) : i \in 1..Len(t) /\ i + c \in (k + 1)..(a - 1)
    <3>1. a \in Nat /\ k \in Nat /\ c \in Nat /\ Len(t) \in Nat
      BY <1>0, <1>1
    <3>2. k - c \in 1..Len(t) /\ a - c \in 1..Len(t)
      BY <1>2
    <3> QED
      BY ONLY <3>1, <3>2
  <2> QED
    BY <1>1, <2>1 DEF MakesAt
<1>6. \A i \in ((a - c) + 1)..Len(t) : t[i] \in Posts(n)
  <2>1. \A i \in ((a - c) + 1)..Len(t) : i \in 1..Len(t) /\ i + c \in (a + 1)..Len(s)
    <3>1. a \in Nat /\ k \in Nat /\ c \in Nat /\ Len(s) \in Nat
      BY <1>1
    <3>2. k - c < a - c /\ 1 <= k - c /\ Len(t) = Len(s) - c
      BY <1>2
    <3> SUFFICES ASSUME NEW i \in ((a - c) + 1)..Len(t) PROVE i \in 1..Len(t) /\ i + c \in (a + 1)..Len(s)
      OBVIOUS
    <3>3. i \in Int /\ (a - c) + 1 <= i /\ i <= Len(t)
      BY <1>0, <3>1
    <3>4. 1 <= a - c /\ i <= Len(s) - c
      BY ONLY <3>1, <3>2, <3>3
    <3> QED
      BY ONLY <1>0, <3>1, <3>3, <3>4
  <2> QED
    BY <1>1, <2>1 DEF MakesAt
<1>7. Unmade(n, t)
  <2>1. MakesAt(n, t, k - c, a - c)
    BY <1>2, <1>3, <1>4, <1>5, <1>6 DEF MakesAt
  <2> QED
    BY <1>2, <2>1 DEF Unmade
<1>8. ASSUME HasDelete(t) PROVE \A j \in 1..c : s[j].op \in {"unregister", "find"}
  <2>1. PICK i \in 1..Len(t) : t[i].op = "delete"
    BY <1>8 DEF HasDelete
  <2>2. s[i + c].op = "delete" /\ i + c \in 1..Len(s)
    BY <1>1, <2>1
  <2>3. i + c \in 1..(k - 1)
    <3>1. i + c # k
      BY <2>2 DEF MakesAt, Makes
    <3>2. i + c # a
      BY <2>2 DEF MakesAt, Call
    <3>3. i + c \notin (k + 1)..(a - 1)
      BY <2>2 DEF MakesAt, Mids
    <3>4. i + c \notin (a + 1)..Len(s)
      BY <2>2 DEF MakesAt, Posts
    <3>5. k \in Nat /\ a \in Nat /\ i + c \in Nat /\ Len(s) \in Nat /\ 1 <= i + c /\ i + c <= Len(s)
      BY <1>1, <2>2
    <3>6. ~(k + 1 <= i + c /\ i + c <= a - 1) /\ ~(a + 1 <= i + c)
      BY <3>3, <3>4, <3>5
    <3> QED
      BY <3>1, <3>2, <3>5, <3>6
  <2>4. \A j \in 1..((i + c) - 1) : s[j].op \in {"unregister", "find"}
    BY <2>2, <2>3 DEF MakesAt, Pre
  <2>5. \A j \in 1..c : j \in 1..((i + c) - 1)
    BY <1>1
  <2> QED
    BY <2>4, <2>5
<1>10. c # Len(s)
  <2>1. c < Len(s) /\ Len(s) \in Nat /\ c \in Nat
    BY <1>1, <1>2
  <2> QED
    BY ONLY <2>1
<1>11. 1 \in 1..Len(t)
  BY <1>2
<1>12. HasDelete(t) => s[1].op \in {"unregister", "find"} /\ s[c].op \in {"unregister", "find"}
  <2>1. 1 \in 1..c /\ c \in 1..c
    OBVIOUS
  <2> QED
    BY <1>8, <2>1
<1> QED
  BY <1>1, <1>3, <1>7, <1>8, <1>10, <1>11, <1>12, Zenon

\* What is to be deleted is deleted by one of the calls that are done, or by one of the others.
LEMMA DeleteTail ==
    ASSUME NEW s \in Seq(Calls), NEW c \in Nat \ {0}, NEW t, t = SubSeq(s, c + 1, Len(s)), HasDelete(s), ~HasDelete(t)
    PROVE  \E j \in 1..c : s[j].op = "delete"
<1>1. /\ Len(s) \in Nat /\ Len(t) \in Nat /\ Len(t) = IF c < Len(s) THEN Len(s) - c ELSE 0
      /\ \A i \in 1..Len(t) : i + c \in 1..Len(s) /\ t[i] = s[i + c]
  BY Suffix, LenProperties
<1>2. PICK j \in 1..Len(s) : s[j].op = "delete"
  BY DEF HasDelete
<1>3. CASE j <= c
  BY <1>1, <1>2, <1>3
<1>4. CASE c < j
  <2>1. j - c \in 1..Len(t) /\ (j - c) + c = j
    BY <1>1, <1>4
  <2>2. t[j - c] = s[j]
    BY <1>1, <2>1
  <2> QED
    BY <1>2, <2>1, <2>2 DEF HasDelete
<1>5. j \in Nat /\ c \in Nat
  BY <1>1
<1>6. j <= c \/ c < j
  BY ONLY <1>5
<1> QED
  BY <1>3, <1>4, <1>6

\* The machine is made.
LEMMA MakeTail ==
    ASSUME NEW n \in Nodes, NEW s \in Seq(Calls), NEW a \in 1..Len(s), MakesAt(n, s, 1, a),
           NEW t, t = SubSeq(s, 2, Len(s))
    PROVE  Len(s) # 1 /\ t \in Seq(Calls) /\ Made(n, t) /\ ~HasDelete(s)
<1>1. 1 + 1 = 2 /\ Len(s) \in Nat /\ 1 < a
  BY LenProperties DEF MakesAt
<1>2. /\ t \in Seq(Calls) /\ Len(t) = IF 1 < Len(s) THEN Len(s) - 1 ELSE 0
      /\ \A i \in 1..Len(t) : i + 1 \in 1..Len(s) /\ t[i] = s[i + 1]
  <2> PICK c \in Nat \ {0} : c = 1
    OBVIOUS
  <2>1. t = SubSeq(s, c + 1, Len(s))
    BY <1>1
  <2>2. t \in Seq(Calls)
    BY <2>1, Suffix
  <2>3. Len(t) = IF c < Len(s) THEN Len(s) - c ELSE 0
    BY <2>1, Suffix
  <2>4. \A i \in 1..Len(t) : i + c \in 1..Len(s) /\ t[i] = s[i + c]
    BY <2>1, Suffix
  <2> QED
    BY <2>2, <2>3, <2>4
<1>3. Len(t) = Len(s) - 1 /\ a - 1 \in 1..Len(t) /\ (a - 1) + 1 = a
  BY <1>1, <1>2
<1>4. GetsAt(n, t, a - 1)
  <2>1. t[a - 1] = Call("address", n)
    BY <1>2, <1>3 DEF MakesAt
  <2>2. \A i \in 1..((a - 1) - 1) : t[i] \in Mids
    <3>1. \A i \in 1..((a - 1) - 1) : i \in 1..Len(t) /\ i + 1 \in (1 + 1)..(a - 1)
      BY <1>1, <1>3
    <3> QED
      BY <1>2, <3>1 DEF MakesAt
  <2>3. \A i \in ((a - 1) + 1)..Len(t) : t[i] \in Posts(n)
    <3>1. \A i \in ((a - 1) + 1)..Len(t) : i \in 1..Len(t) /\ i + 1 \in (a + 1)..Len(s)
      BY <1>1, <1>3
    <3> QED
      BY <1>2, <3>1 DEF MakesAt
  <2> QED
    BY <2>1, <2>2, <2>3 DEF GetsAt
<1>5. ~HasDelete(s)
  <2> SUFFICES ASSUME NEW i \in 1..Len(s), s[i].op = "delete" PROVE FALSE
    BY DEF HasDelete
  <2>1. i # 1 /\ i # a
    BY DEF MakesAt, Makes, Call
  <2>2. i \notin (1 + 1)..(a - 1)
    BY DEF MakesAt, Mids
  <2>3. i \notin (a + 1)..Len(s)
    BY DEF MakesAt, Posts
  <2> QED
    BY <1>1, <2>1, <2>2, <2>3
<1> QED
  BY <1>1, <1>2, <1>3, <1>4, <1>5 DEF Made

\* The user data and the power of a machine, and its address.
LEMMA MadeTail ==
    ASSUME NEW n \in Nodes, NEW s \in Seq(Calls), NEW a \in 1..Len(s), GetsAt(n, s, a),
           NEW t, t = SubSeq(s, 2, Len(s))
    PROVE  /\ t \in Seq(Calls)
           /\ a # 1 => Len(s) # 1 /\ Made(n, t)
           /\ a = 1 => Placed(n, t)
           /\ ~HasDelete(s)
<1>1. 1 + 1 = 2 /\ Len(s) \in Nat
  BY LenProperties
<1>2. /\ t \in Seq(Calls) /\ Len(t) = IF 1 < Len(s) THEN Len(s) - 1 ELSE 0
      /\ \A i \in 1..Len(t) : i + 1 \in 1..Len(s) /\ t[i] = s[i + 1]
  <2>1. t = SubSeq(s, 1 + 1, Len(s)) /\ 1 \in Nat \ {0}
    BY <1>1
  <2> QED
    BY <2>1, Suffix
<1>3. Len(t) = Len(s) - 1
  <2>1. 1 <= Len(s)
    BY <1>1
  <2>2. Len(s) = 1 \/ 1 < Len(s)
    BY ONLY <1>1, <2>1
  <2>3. 1 < Len(s) => Len(t) = Len(s) - 1
    BY <1>2
  <2>4. Len(s) = 1 => Len(t) = 0 /\ Len(s) - 1 = 0
    BY <1>2
  <2> QED
    BY <2>2, <2>3, <2>4
<1>4. ASSUME a # 1 PROVE Len(s) # 1 /\ Made(n, t)
  <2>0. a - 1 \in 1..Len(t) /\ (a - 1) + 1 = a /\ Len(s) # 1
    BY <1>1, <1>3, <1>4
  <2>1. t[a - 1] = Call("address", n)
    BY <1>2, <2>0 DEF GetsAt
  <2>2. \A i \in 1..((a - 1) - 1) : t[i] \in Mids
    <3>1. \A i \in 1..((a - 1) - 1) : i \in 1..Len(t) /\ i + 1 \in 1..(a - 1)
      BY <1>1, <1>3
    <3> QED
      BY <1>2, <3>1 DEF GetsAt
  <2>3. \A i \in ((a - 1) + 1)..Len(t) : t[i] \in Posts(n)
    <3>1. \A i \in ((a - 1) + 1)..Len(t) : i \in 1..Len(t) /\ i + 1 \in (a + 1)..Len(s)
      BY <1>1, <1>3, <2>0
    <3> QED
      BY <1>2, <3>1 DEF GetsAt
  <2> QED
    BY <2>0, <2>1, <2>2, <2>3 DEF GetsAt, Made
<1>5. ASSUME a = 1 PROVE Placed(n, t)
  <2>1. \A i \in 1..Len(t) : i + 1 \in (a + 1)..Len(s)
    BY <1>1, <1>3, <1>5
  <2>2. \A i \in 1..Len(t) : t[i] \in Posts(n)
    BY <1>2, <2>1 DEF GetsAt
  <2>3. t \in Seq(Posts(n))
    <3>1. t = [i \in 1..Len(t) |-> t[i]]
      BY <1>2
    <3>2. [i \in 1..Len(t) |-> t[i]] \in Seq(Posts(n))
      BY <1>1, <1>2, <2>2, IsASeq
    <3> QED
      BY <3>1, <3>2
  <2> QED
    BY <2>3 DEF Placed
<1>6. ~HasDelete(s)
  <2> SUFFICES ASSUME NEW i \in 1..Len(s), s[i].op = "delete" PROVE FALSE
    BY DEF HasDelete
  <2>1. i # a
    BY DEF GetsAt, Call
  <2>2. i \notin 1..(a - 1)
    BY DEF GetsAt, Mids
  <2>3. i \notin (a + 1)..Len(s)
    BY DEF GetsAt, Posts
  <2> QED
    BY <1>1, <2>1, <2>2, <2>3
<1> QED
  BY <1>2, <1>4, <1>5, <1>6

\* Every "reuse" that is left still has its "ready".
LEMMA ReuseTail ==
    ASSUME NEW s \in Seq(Calls), ReuseReady(s), NEW c \in Nat \ {0}, NEW t, t = SubSeq(s, c + 1, Len(s))
    PROVE  ReuseReady(t)
<1>1. /\ Len(s) \in Nat /\ Len(t) \in Nat /\ Len(t) = IF c < Len(s) THEN Len(s) - c ELSE 0
      /\ \A i \in 1..Len(t) : i + c \in 1..Len(s) /\ t[i] = s[i + c]
  BY Suffix, LenProperties
<1> SUFFICES ASSUME NEW i \in 1..Len(t), t[i].op = "reuse"
             PROVE  \E j \in 1..Len(t) : i < j /\ t[j] = Call("ready", t[i].name)
  BY DEF ReuseReady
<1>2. PICK j \in 1..Len(s) : i + c < j /\ s[j] = Call("ready", s[i + c].name)
  BY <1>1 DEF ReuseReady
<1>3. j - c \in 1..Len(t) /\ i < j - c /\ (j - c) + c = j
  BY <1>1, <1>2
<1> QED
  BY <1>1, <1>2, <1>3

(***************************************************************************)
(* The invariant                                                           *)
(***************************************************************************)
AnyName == Nodes \cup Shared \cup {"vpc", "ssh", "internal"}
MachineType(k) == [id : 1..k, name : Nodes \cup Shared, on : BOOLEAN, data : BOOLEAN, addr : BOOLEAN, up : BOOLEAN]
WorkerType(k) == [todo : Seq(Calls), seen : 0..k, lack : SUBSET AnyName, mine : SUBSET (1..k), own : 0..k, got : 0..k,
                  dns : 0..k, end : {"none", "ok", "failed"}]
OneEach(M) == \A m1, m2 \in M : m1.id = m2.id => m1 = m2

LabType == \E l \in Labs : cloud = l.cloud /\ mode = l.mode /\ overlay = l.overlay /\ starts \in 0..l.starts
StockType == made \in Nat /\ machines \subseteq MachineType(made) /\ OneEach(machines)
WorkType == work \in [Nodes -> WorkerType(made)]
AccountType == /\ \A r \in records : r[1] \in 1..made /\ r[2] \in Nodes /\ r[3] \in 1..made
               /\ net \in [attached : BOOLEAN, routed : BOOLEAN, dhcp : 0..made]
GhostType == undeleted \subseteq Nodes /\ unsure \in BOOLEAN /\ faults \in 0..MaxFaults
Types == LabType /\ StockType /\ WorkType /\ AccountType /\ GhostType

\* There is a machine i of name x.
Is(M, i, x) == \E m \in M : m.id = i /\ m.name = x

\* A worker that has not made its machine knows none; what it is about to remove is there, and when
\* nothing is left to remove no machine of the name is there.
Before(M, U, n, w) ==
    /\ w.own = 0 /\ w.got = 0 /\ w.mine = {}
    /\ w.todo[1].op = "delete" => Is(M, w.seen, n)
    /\ n \notin U /\ ~HasDelete(w.todo) => \A m \in M : m.name # n
\* One that has made it is to get its address.
Between(M, n, w) == w.own # 0 /\ w.got = 0 /\ w.mine = {w.own} /\ Is(M, w.own, n)

\* The worker w of node n, on cloud c with the machines M, when the nodes U were not destroyed.
Phases(M, U, n, w) ==
    \/ w.todo = <<>>
    \/ Unmade(n, w.todo) /\ Before(M, U, n, w)
    \/ Made(n, w.todo) /\ Between(M, n, w)
    \/ Placed(n, w.todo) /\ w.got # 0
Kept(M, c, U, n, w) ==
    /\ ReuseReady(w.todo)
    /\ w.got # 0 => w.own # 0 /\ (Find[c].kept \/ n \notin U => w.got = w.own)
    /\ n \notin U => \A m1, m2 \in M : m1.name = n /\ m2.name = n => m1.id = m2.id
    /\ \A m \in M : m.id \in {w.own, w.got} => m.name = n
OwnedBy(M, c, U, n, w) == Phases(M, U, n, w) /\ Kept(M, c, U, n, w)

Owned == \A n \in Nodes : OwnedBy(machines, cloud, undeleted, n, work[n])
\* No worker knows the machine that another made.
Apart == \A n, k \in Nodes : n # k /\ work[k].own # 0 => work[n].got # work[k].own
CloudInv == Types /\ Owned /\ Apart

(***************************************************************************)
(* What a worker is after a call                                           *)
(***************************************************************************)
After(w, k) == IF Len(w.todo) = k THEN [Idle EXCEPT !.own = w.own, !.got = w.got, !.end = "ok"]
               ELSE [w EXCEPT !.todo = SubSeq(@, k + 1, Len(@))]
Dead == [Idle EXCEPT !.end = "failed"]

\* A worker after k calls is a worker, with the same machine and address.
LEMMA AfterType ==
    ASSUME NEW m \in Nat, NEW w \in WorkerType(m), NEW k \in Nat \ {0}
    PROVE  /\ After(w, k) \in WorkerType(m)
           /\ After(w, k).own = w.own /\ After(w, k).got = w.got
           /\ Len(w.todo) = k => After(w, k).todo = <<>>
           /\ Len(w.todo) # k => /\ After(w, k).todo = SubSeq(w.todo, k + 1, Len(w.todo))
                                 /\ After(w, k).seen = w.seen /\ After(w, k).mine = w.mine
<1>1. SubSeq(w.todo, k + 1, Len(w.todo)) \in Seq(Calls)
  BY Suffix DEF WorkerType
<1>2. <<>> \in Seq(Calls)
  BY EmptySeq
<1>3. CASE Len(w.todo) = k
  <2>1. After(w, k) = [todo |-> <<>>, seen |-> 0, lack |-> {}, mine |-> {}, own |-> w.own, got |-> w.got, dns |-> 0,
                       end |-> "ok"]
    BY <1>3 DEF After, Idle
  <2>2. 0 \in 0..m /\ w.own \in 0..m /\ w.got \in 0..m
    BY DEF WorkerType
  <2> HIDE DEF After
  <2>3. After(w, k) \in WorkerType(m)
    BY <1>2, <2>1, <2>2 DEF WorkerType
  <2> QED
    BY <1>3, <2>1, <2>3
<1>4. CASE Len(w.todo) # k
  <2>1. After(w, k) = [w EXCEPT !.todo = SubSeq(w.todo, k + 1, Len(w.todo))]
    BY <1>4 DEF After
  <2> DEFINE t == SubSeq(w.todo, k + 1, Len(w.todo))
  <2> HIDE DEF t
  <2>2. /\ After(w, k) \in WorkerType(m) /\ After(w, k).own = w.own /\ After(w, k).got = w.got
        /\ After(w, k).todo = t /\ After(w, k).seen = w.seen /\ After(w, k).mine = w.mine
    BY <1>1, <2>1 DEF WorkerType, t
  <2> QED
    BY <1>4, <2>2 DEF t
<1> QED
  BY <1>3, <1>4

\* After one call in particular.
LEMMA AfterOne ==
    ASSUME NEW m \in Nat, NEW w \in WorkerType(m)
    PROVE  /\ After(w, 1) \in WorkerType(m)
           /\ After(w, 1).own = w.own /\ After(w, 1).got = w.got
           /\ Len(w.todo) = 1 => After(w, 1).todo = <<>>
           /\ Len(w.todo) # 1 => /\ After(w, 1).todo = SubSeq(w.todo, 1 + 1, Len(w.todo))
                                 /\ After(w, 1).seen = w.seen /\ After(w, 1).mine = w.mine
<1> PICK c \in Nat \ {0} : c = 1
  OBVIOUS
<1> PICK v : v = After(w, c)
  OBVIOUS
<1>1. v \in WorkerType(m) /\ v.own = w.own /\ v.got = w.got
  BY AfterType
<1>2. Len(w.todo) = c => v.todo = <<>>
  BY AfterType
<1>3. Len(w.todo) # c => v.todo = SubSeq(w.todo, c + 1, Len(w.todo)) /\ v.seen = w.seen /\ v.mine = w.mine
  BY AfterType
<1> QED
  BY <1>1, <1>2, <1>3

\* So is one that failed, which knows nothing.
LEMMA DeadType ==
    ASSUME NEW m \in Nat PROVE Dead \in WorkerType(m) /\ Dead.todo = <<>> /\ Dead.own = 0 /\ Dead.got = 0
<1>1. <<>> \in Seq(Calls)
  BY EmptySeq
<1>2. 0 \in 0..m
  OBVIOUS
<1>3. Idle \in WorkerType(m) /\ Idle.todo = <<>> /\ Idle.own = 0 /\ Idle.got = 0
  BY <1>1, <1>2 DEF Idle, WorkerType
<1> HIDE DEF Idle
<1> QED
  BY <1>3 DEF Dead, WorkerType

\* Nothing left to do is nothing wrong.
LEMMA EmptyTodo == ReuseReady(<<>>) /\ \A n \in Nodes : Placed(n, <<>>)
<1>1. Len(<<>>) = 0 /\ \A n \in Nodes : <<>> \in Seq(Posts(n))
  BY EmptySeq
<1> QED
  BY <1>1 DEF ReuseReady, Placed

\* A worker that ends keeps what is said of it.
LEMMA DeadOwned ==
    ASSUME NEW M, NEW k \in Nat, M \subseteq MachineType(k), NEW c, NEW U, NEW n \in Nodes, NEW w, OwnedBy(M, c, U, n, w)
    PROVE  OwnedBy(M, c, U, n, Dead)
<1>1. \A m \in M : m.id # 0
  BY DEF MachineType
<1> QED
  BY <1>1, DeadType, EmptyTodo DEF OwnedBy, Phases, Kept

\* Machines of other names may come and go, and more nodes count as not destroyed.
LEMMA OthersOwned ==
    ASSUME NEW M, NEW N, NEW k \in Nat, M \subseteq MachineType(k), NEW c, NEW U, NEW V, U \subseteq V,
           NEW n \in Nodes, NEW w \in WorkerType(k), OwnedBy(M, c, U, n, w),
           \A i : Is(N, i, n) <=> Is(M, i, n),
           \A m \in N : Is(M, m.id, m.name) \/ m.id > k
    PROVE  OwnedBy(N, c, V, n, w)
<1>1. \A m \in N : m.name = n => \E l \in M : l.id = m.id /\ l.name = n
  BY DEF Is
<1>2. (Before(M, U, n, w) => Before(N, V, n, w)) /\ (Between(M, n, w) => Between(N, n, w))
  BY <1>1 DEF Before, Between
<1>3. n \notin V => \A m1, m2 \in N : m1.name = n /\ m2.name = n => m1.id = m2.id
  BY <1>1 DEF OwnedBy, Phases, Kept
<1>4. \A m \in N : m.id \in {w.own, w.got} => m.name = n
  <2> SUFFICES ASSUME NEW m \in N, m.id \in {w.own, w.got} PROVE m.name = n
    OBVIOUS
  <2>1. w.own <= k /\ w.got <= k
    BY DEF WorkerType
  <2>2. w.own \in Nat /\ w.got \in Nat
    BY DEF WorkerType
  <2>3. ~(m.id > k)
    BY <2>1, <2>2
  <2>4. PICK l \in M : l.id = m.id /\ l.name = m.name
    BY <2>3 DEF Is
  <2> QED
    BY <2>4 DEF OwnedBy, Phases, Kept
<1>5. /\ ReuseReady(w.todo)
      /\ w.got # 0 => w.own # 0 /\ (Find[c].kept \/ n \notin V => w.got = w.own)
  BY DEF OwnedBy, Phases, Kept
<1>6. \/ w.todo = <<>>
      \/ Unmade(n, w.todo) /\ Before(N, V, n, w)
      \/ Made(n, w.todo) /\ Between(N, n, w)
      \/ Placed(n, w.todo) /\ w.got # 0
  BY <1>2 DEF OwnedBy, Phases, Kept
<1> QED
  BY <1>3, <1>4, <1>5, <1>6 DEF OwnedBy, Phases, Kept

\* A worker at one of the calls that tell its phase.
LEMMA Phase ==
    ASSUME NEW k \in Nat, NEW M, NEW c, NEW U, NEW n \in Nodes, NEW w \in WorkerType(k), w.todo # <<>>,
           OwnedBy(M, c, U, n, w), NEW o, o = w.todo[1].op
    PROVE  /\ o \in {"unregister", "delete"} => Unmade(n, w.todo) /\ Before(M, U, n, w)
           /\ o \in LaterOps \ {"user-data", "power-on", "address"} => Placed(n, w.todo) /\ w.got # 0
           /\ o \in {"find"} \cup NetOps \cup Makes =>
                 (Unmade(n, w.todo) /\ Before(M, U, n, w)) \/ (Placed(n, w.todo) /\ w.got # 0)
           /\ o \in {"user-data", "power-on", "address"} =>
                 (Made(n, w.todo) /\ Between(M, n, w)) \/ (Placed(n, w.todo) /\ w.got # 0)
<1>0. w.todo \in Seq(Calls)
  BY DEF WorkerType
<1>1. Unmade(n, w.todo) => o \in {"unregister", "find", "delete"} \cup NetOps \cup Makes
  BY <1>0, UnmadeHead DEF Unmade
<1>2. ASSUME Made(n, w.todo) PROVE o \in {"user-data", "power-on", "address"}
  <2>1. PICK a \in 1..Len(w.todo) : GetsAt(n, w.todo, a)
    BY <1>2 DEF Made
  <2>2. w.todo[1] = Call("address", n) \/ o \in {"user-data", "power-on"}
    BY <1>0, <2>1, MadeHead
  <2> QED
    BY <2>2 DEF Call
<1>3. Placed(n, w.todo) => o \notin {"unregister", "delete"}
  BY PlacedHead DEF Posts
<1>4. \/ Unmade(n, w.todo) /\ Before(M, U, n, w)
      \/ Made(n, w.todo) /\ Between(M, n, w)
      \/ Placed(n, w.todo) /\ w.got # 0
  BY DEF OwnedBy, Phases, Kept
<1> QED
  BY <1>1, <1>2, <1>3, <1>4 DEF LaterOps, NetOps, Makes

\* After some calls, a worker that knows what it knew keeps what is said of it, its phase apart.
LEMMA AfterKept ==
    ASSUME NEW M, NEW c, NEW U, NEW n, NEW k \in Nat, NEW w \in WorkerType(k), NEW x \in WorkerType(k),
           x.todo = w.todo, x.own = w.own, x.got = w.got, Kept(M, c, U, n, w), NEW j \in Nat \ {0}
    PROVE  Kept(M, c, U, n, After(x, j))
<1>1. ReuseReady(After(x, j).todo)
  <2>1. x.todo \in Seq(Calls) /\ ReuseReady(x.todo)
    BY DEF WorkerType, Kept
  <2>2. ReuseReady(SubSeq(x.todo, j + 1, Len(x.todo)))
    BY <2>1, ReuseTail
  <2> QED
    BY <2>2, AfterType, EmptyTodo
<1>2. After(x, j).own = w.own /\ After(x, j).got = w.got
  BY AfterType
<1> QED
  BY <1>1, <1>2 DEF Kept

\* A worker that has its address keeps it.
LEMMA PlacedAfter ==
    ASSUME NEW M, NEW c, NEW U, NEW n \in Nodes, NEW k \in Nat, NEW w \in WorkerType(k), NEW x \in WorkerType(k),
           x.todo = w.todo, x.own = w.own, x.got = w.got, Kept(M, c, U, n, w), NEW j \in Nat \ {0},
           Placed(n, w.todo), w.got # 0
    PROVE  OwnedBy(M, c, U, n, After(x, j))
<1>1. Kept(M, c, U, n, After(x, j))
  BY AfterKept
<1>2. After(x, j).todo = <<>> \/ Placed(n, After(x, j).todo)
  <2>1. x.todo \in Seq(Posts(n))
    BY DEF Placed
  <2>2. SubSeq(x.todo, j + 1, Len(x.todo)) \in Seq(Posts(n))
    BY <2>1, Suffix
  <2> QED
    BY <2>2, AfterType DEF Placed
<1>3. After(x, j).got # 0
  BY AfterType
<1> QED
  BY <1>1, <1>2, <1>3 DEF OwnedBy, Phases

\* A call before the node's machine is made.
LEMMA UnmadeAfter ==
    ASSUME NEW M, NEW c, NEW U, NEW n \in Nodes, NEW k \in Nat, NEW w \in WorkerType(k), NEW x \in WorkerType(k),
           x.todo = w.todo, x.own = w.own, x.got = w.got, x.mine = w.mine, Kept(M, c, U, n, w), NEW j \in Nat \ {0},
           NEW i \in 1..Len(w.todo), NEW a \in 1..Len(w.todo), MakesAt(n, w.todo, i, a), j < i,
           w.own = 0, w.got = 0, w.mine = {},
           w.todo[j + 1].op = "delete" => Is(M, x.seen, n),
           n \notin U /\ ~HasDelete(SubSeq(w.todo, j + 1, Len(w.todo))) => \A m \in M : m.name # n
    PROVE  OwnedBy(M, c, U, n, After(x, j))
<1> PICK s : s = w.todo
  OBVIOUS
<1> PICK t : t = SubSeq(s, j + 1, Len(s))
  OBVIOUS
<1>1. s \in Seq(Calls) /\ i \in 1..Len(s) /\ a \in 1..Len(s) /\ MakesAt(n, s, i, a)
  BY DEF WorkerType
<1>2. j # Len(s) /\ Unmade(n, t) /\ t[1] = s[j + 1]
  <2>1. j # Len(s)
    BY <1>1, UnmadeTail
  <2>2. Unmade(n, t)
    BY <1>1, UnmadeTail
  <2>3. t[1] = s[j + 1]
    BY <1>1, UnmadeTail
  <2> QED
    BY <2>1, <2>2, <2>3
<1>3. /\ After(x, j).todo = t /\ After(x, j).own = 0 /\ After(x, j).got = 0 /\ After(x, j).mine = {}
      /\ After(x, j).seen = x.seen
  <2>1. /\ Len(x.todo) # j => /\ After(x, j).todo = SubSeq(x.todo, j + 1, Len(x.todo))
                              /\ After(x, j).seen = x.seen /\ After(x, j).mine = x.mine
        /\ After(x, j).own = x.own /\ After(x, j).got = x.got
    BY AfterType
  <2>2. x.todo = s /\ Len(x.todo) # j
    BY <1>2
  <2> QED
    BY <2>1, <2>2
<1>4. n \notin U /\ ~HasDelete(t) => \A m \in M : m.name # n
  OBVIOUS
<1>5. Before(M, U, n, After(x, j))
  BY <1>2, <1>3, <1>4 DEF Before
<1>6. Kept(M, c, U, n, After(x, j))
  BY AfterKept
<1> QED
  BY <1>2, <1>3, <1>5, <1>6 DEF OwnedBy, Phases

\* A call that neither removes nor makes the node's machine, nor gets its address.
LEMMA AdvanceOwned ==
    ASSUME NEW M, NEW c, NEW U, NEW n \in Nodes, NEW k \in Nat, NEW w \in WorkerType(k), NEW x \in WorkerType(k),
           x.todo = w.todo, x.own = w.own, x.got = w.got, x.mine = w.mine, OwnedBy(M, c, U, n, w), NEW j \in Nat \ {0},
           w.todo # <<>>, NEW o, o = w.todo[1].op, o \in CallOps \ (Makes \cup {"find", "delete", "address"}),
           \/ j = 1
           \/ o = "gateway?" /\ j = 3
           \/ o = "route?" /\ j = 2
           \/ o \in {"dhcp?", "reuse"}
    PROVE  OwnedBy(M, c, U, n, After(x, j))
<1>1. w.todo \in Seq(Calls) /\ Kept(M, c, U, n, w)
  BY DEF WorkerType, OwnedBy
<1>2. CASE Placed(n, w.todo) /\ w.got # 0
  BY <1>1, <1>2, PlacedAfter
<1>3. CASE Made(n, w.todo) /\ Between(M, n, w) /\ o \in {"user-data", "power-on"}
  <2>1. PICK a \in 1..Len(w.todo) : GetsAt(n, w.todo, a)
    BY <1>3 DEF Made
  <2>2. a # 1
    <3>1. a = 1 => w.todo[1] = Call("address", n)
      BY <1>1, <2>1, MadeHead
    <3> QED
      BY <1>3, <3>1 DEF Call
  <2>3. j = 1 /\ j + 1 = 2
    BY <1>3
  <2>4. Len(w.todo) # 1 /\ Made(n, SubSeq(w.todo, 2, Len(w.todo)))
    BY <1>1, <2>1, <2>2, MadeTail
  <2>5. /\ After(x, j).todo = SubSeq(w.todo, 2, Len(w.todo)) /\ After(x, j).own = w.own
        /\ After(x, j).got = w.got /\ After(x, j).mine = w.mine
    <3>1. /\ Len(x.todo) # j => /\ After(x, j).todo = SubSeq(x.todo, j + 1, Len(x.todo))
                                /\ After(x, j).mine = x.mine
          /\ After(x, j).own = x.own /\ After(x, j).got = x.got
      BY AfterType
    <3>2. x.todo = w.todo /\ Len(x.todo) # j
      BY <2>3, <2>4
    <3> QED
      BY <2>3, <3>1, <3>2
  <2>6. Between(M, n, After(x, j))
    BY <1>3, <2>5 DEF Between
  <2>7. Kept(M, c, U, n, After(x, j))
    BY <1>1, AfterKept
  <2> QED
    BY <2>4, <2>5, <2>6, <2>7 DEF OwnedBy, Phases
<1>4. CASE Unmade(n, w.todo) /\ Before(M, U, n, w) /\ o \in {"unregister"} \cup NetOps
  <2>1. PICK i \in 1..Len(w.todo), a \in 1..Len(w.todo) : MakesAt(n, w.todo, i, a)
    BY <1>4 DEF Unmade
  <2>2. 1 < i /\ Pre(n, w.todo, 1, i) /\ Len(w.todo) \in Nat
    <3>1. o \notin Makes
      BY <1>4 DEF Makes, NetOps
    <3> QED
      BY <1>1, <2>1, <3>1, UnmadeHead
  <2>3. j < i
    <3>1. o = "gateway?" => 1 + 2 < i
      BY <2>2 DEF Pre
    <3>2. o = "route?" => 1 + 1 < i
      BY <2>2 DEF Pre
    <3>3. o \notin {"dhcp?", "reuse"}
      BY <1>4 DEF NetOps
    <3> QED
      BY <2>2, <3>1, <3>2, <3>3
  <2>4. w.own = 0 /\ w.got = 0 /\ w.mine = {}
    BY <1>4 DEF Before
  <2> PICK t : t = SubSeq(w.todo, j + 1, Len(w.todo))
    OBVIOUS
  <2> PICK s : s = w.todo
    OBVIOUS
  <2>11. s \in Seq(Calls) /\ i \in 1..Len(s) /\ a \in 1..Len(s) /\ MakesAt(n, s, i, a) /\ t = SubSeq(s, j + 1, Len(s))
    BY <1>1, <2>1
  <2>5. t[1] = s[j + 1] /\ 1 \in 1..Len(t)
    BY <2>3, <2>11, UnmadeTail
  <2>9. HasDelete(t) => \A l \in 1..j : s[l].op \in {"unregister", "find"}
    BY <2>3, <2>11, UnmadeTail
  <2>10. ASSUME ~HasDelete(t), HasDelete(s) PROVE \E l \in 1..j : s[l].op = "delete"
    BY <2>10, <2>11, DeleteTail
  <2>6. 1 \in 1..j
    OBVIOUS
  <2>7. w.todo[j + 1].op # "delete"
    <3>1. CASE o = "unregister"
      <4>1. j = 1 /\ 1 + 1 = j + 1
        BY <3>1
      <4>2. w.todo[1 + 1].op = "find"
        BY <2>2, <3>1 DEF Pre
      <4> QED
        BY <4>1, <4>2
    <3>2. CASE o # "unregister"
      <4>1. ~HasDelete(t)
        <5>1. o \notin {"unregister", "find"}
          BY <1>4, <3>2 DEF NetOps
        <5>2. s[1].op = o
          OBVIOUS
        <5> QED
          BY <2>6, <2>9, <5>1, <5>2
      <4> QED
        BY <2>5, <4>1 DEF HasDelete
    <3> QED
      BY <3>1, <3>2
  <2>8. ASSUME n \notin U, ~HasDelete(t) PROVE \A m \in M : m.name # n
    <3>1. ~HasDelete(w.todo)
      <4>1. ASSUME NEW l \in 1..j, w.todo[l].op = "delete" PROVE FALSE
        <5>1. l \in 1..(i - 1) /\ l \in Nat
          BY <2>2, <2>3
        <5>2. Pre(n, w.todo, l, i)
          BY <2>1, <5>1 DEF MakesAt
        <5>3. l = 1
          <6>1. l # 1 => 1 \in 1..(l - 1)
            BY <4>1
          <6>2. l # 1 => o \in {"unregister", "find"}
            BY <4>1, <5>2, <6>1 DEF Pre
          <6>3. l # 1 => j = 1
            BY <1>4, <6>2 DEF NetOps
          <6> QED
            BY <4>1, <6>3
        <5> QED
          BY <1>4, <4>1, <5>3 DEF NetOps
      <4> QED
        BY <2>8, <2>10, <4>1
    <3> QED
      BY <1>4, <2>8, <3>1 DEF Before
  <2> QED
    BY <1>1, <2>1, <2>3, <2>4, <2>7, <2>8, UnmadeAfter
<1> QED
  <2>1. /\ o \in {"unregister", "delete"} => Unmade(n, w.todo) /\ Before(M, U, n, w)
        /\ o \in LaterOps \ {"user-data", "power-on", "address"} => Placed(n, w.todo) /\ w.got # 0
        /\ o \in {"find"} \cup NetOps \cup Makes =>
              (Unmade(n, w.todo) /\ Before(M, U, n, w)) \/ (Placed(n, w.todo) /\ w.got # 0)
        /\ o \in {"user-data", "power-on", "address"} =>
              (Made(n, w.todo) /\ Between(M, n, w)) \/ (Placed(n, w.todo) /\ w.got # 0)
    BY Phase
  <2> QED
    BY <1>2, <1>3, <1>4, <2>1 DEF CallOps, LaterOps, Makes, NetOps

\* After a look-up: the machine found is the one to be removed, or there is none.
LEMMA FindOwned ==
    ASSUME NEW M, NEW c, NEW U, NEW n \in Nodes, NEW k \in Nat, NEW w \in WorkerType(k), NEW x \in WorkerType(k),
           x.todo = w.todo, x.own = w.own, x.got = w.got, x.mine = w.mine, OwnedBy(M, c, U, n, w), NEW j \in {1, 2},
           w.todo # <<>>, w.todo[1].op = "find", NEW y, y = w.todo[1].name,
           j = 1 => Is(M, x.seen, y),
           j = 2 => \A m \in M : m.name # y
    PROVE  OwnedBy(M, c, U, n, After(x, j))
<1>1. w.todo \in Seq(Calls) /\ Kept(M, c, U, n, w) /\ j \in Nat \ {0}
  BY DEF WorkerType, OwnedBy
<1>2. CASE Placed(n, w.todo) /\ w.got # 0
  BY <1>1, <1>2, PlacedAfter
<1>3. CASE Unmade(n, w.todo) /\ Before(M, U, n, w)
  <2> PICK s : s = w.todo
    OBVIOUS
  <2> PICK t : t = SubSeq(s, j + 1, Len(s))
    OBVIOUS
  <2>1. PICK i \in 1..Len(s), a \in 1..Len(s) : MakesAt(n, s, i, a)
    BY <1>3 DEF Unmade
  <2>2. s \in Seq(Calls) /\ Pre(n, s, 1, i) /\ Len(s) \in Nat
    <3>1. s \in Seq(Calls) /\ s[1].op \notin Makes
      BY <1>1 DEF Makes
    <3> QED
      BY <2>1, <3>1, UnmadeHead
  <2>3. y = n /\ 1 + 1 < i /\ s[1 + 1].op = "delete" /\ j < i
    <3>1. y = n /\ 1 + 1 < i /\ s[1 + 1].op = "delete"
      BY <2>2 DEF Pre
    <3> QED
      BY <2>2, <3>1
  <2>4. w.own = 0 /\ w.got = 0 /\ w.mine = {}
    BY <1>3 DEF Before
  <2>5. t[1] = s[j + 1] /\ 1 \in 1..Len(t)
    BY <1>1, <2>1, <2>2, <2>3, UnmadeTail
  <2>6. HasDelete(t) => \A l \in 1..j : s[l].op \in {"unregister", "find"}
    BY <1>1, <2>1, <2>2, <2>3, UnmadeTail
  <2>7. j = 2 => ~HasDelete(t)
    <3>1. j = 2 => 1 + 1 \in 1..j
      OBVIOUS
    <3> QED
      BY <2>3, <2>6, <3>1
  <2>8. j = 1 => HasDelete(t)
    <3>1. j = 1 => j + 1 = 1 + 1
      OBVIOUS
    <3> QED
      BY <2>3, <2>5, <3>1 DEF HasDelete
  <2>9. s[j + 1].op = "delete" => Is(M, x.seen, n)
    <3>1. j = 2 => s[j + 1].op # "delete"
      BY <2>5, <2>7 DEF HasDelete
    <3> QED
      BY <2>3, <3>1
  <2>10. n \notin U /\ ~HasDelete(t) => \A m \in M : m.name # n
    BY <2>3, <2>8
  <2> QED
    BY <1>1, <2>1, <2>3, <2>4, <2>9, <2>10, UnmadeAfter
<1> QED
  <2>1. "find" \in {"find"} \cup NetOps \cup Makes
    OBVIOUS
  <2> QED
    BY <1>2, <1>3, <2>1, Phase

\* After the removal of the machine, no machine of the name is left.
LEMMA DeleteOwned ==
    ASSUME NEW M, NEW c, NEW U, NEW n \in Nodes, NEW k \in Nat, NEW w \in WorkerType(k), OwnedBy(M, c, U, n, w),
           w.todo # <<>>, w.todo[1].op = "delete", NEW N, N = {m \in M : m.id # w.seen}, NEW V, U \subseteq V
    PROVE  OwnedBy(N, c, V, n, After(w, 1)) /\ Is(M, w.seen, n)
<1>1. w.todo \in Seq(Calls) /\ Kept(M, c, U, n, w)
  BY DEF WorkerType, OwnedBy
<1>2. Unmade(n, w.todo) /\ Before(M, U, n, w)
  BY Phase
<1> PICK s : s = w.todo
  OBVIOUS
<1> PICK t : t = SubSeq(s, 1 + 1, Len(s))
  OBVIOUS
<1>3. PICK i \in 1..Len(s), a \in 1..Len(s) : MakesAt(n, s, i, a)
  BY <1>2 DEF Unmade
<1>4. s \in Seq(Calls) /\ 1 < i /\ 1 \in Nat \ {0}
  <2>1. s \in Seq(Calls) /\ s[1].op \notin Makes
    BY <1>1 DEF Makes
  <2> QED
    BY <1>3, <2>1, UnmadeHead
<1>5. t[1] = s[1 + 1] /\ 1 \in 1..Len(t)
  BY <1>3, <1>4, UnmadeTail
<1>6. HasDelete(t) => s[1].op \in {"unregister", "find"}
  <2> PICK b \in Nat \ {0} : b = 1
    OBVIOUS
  <2>1. b < i /\ t = SubSeq(s, b + 1, Len(s))
    BY <1>4
  <2>2. HasDelete(t) => s[b].op \in {"unregister", "find"}
    BY ONLY <1>3, <1>4, <2>1, UnmadeTail
  <2> QED
    BY <2>2
<1>7. ~HasDelete(t) /\ s[1 + 1].op # "delete"
  <2>2. ~HasDelete(t)
    BY <1>6
  <2> QED
    BY <1>5, <2>2 DEF HasDelete
<1>8. Is(M, w.seen, n)
  BY <1>2 DEF Before
<1>9. n \notin V => \A m \in N : m.name # n
  BY <1>1, <1>8 DEF Kept, Is
<1>10. Kept(N, c, V, n, w)
  BY <1>1 DEF Kept
<1>11. w.own = 0 /\ w.got = 0 /\ w.mine = {}
  BY <1>2 DEF Before
<1>12. OwnedBy(N, c, V, n, After(w, 1))
  BY <1>1, <1>3, <1>4, <1>7, <1>9, <1>10, <1>11, UnmadeAfter
<1> QED
  BY <1>8, <1>12

\* A removal that failed is over: its node does not count any more.
LEMMA UndeletedOwned ==
    ASSUME NEW M, NEW c, NEW U, NEW n \in Nodes, NEW k \in Nat, NEW w \in WorkerType(k), OwnedBy(M, c, U, n, w),
           w.todo # <<>>, HasDelete(w.todo), NEW V, V = U \cup {n}
    PROVE  /\ Len(w.todo) >= 3 /\ Len(w.todo) \in Nat
           /\ \E i \in 1..3 : w.todo[i].op = "delete"
           /\ \A j \in 1..3 : w.todo[j].op = "delete" => OwnedBy(M, c, V, n, After(w, j))
<1>1. w.todo \in Seq(Calls) /\ Kept(M, c, V, n, w)
  BY DEF WorkerType, OwnedBy, Kept
<1> PICK s : s = w.todo
  OBVIOUS
<1>2. Unmade(n, s) /\ w.own = 0 /\ w.got = 0 /\ w.mine = {}
  <2>1. ~Made(n, s)
    BY <1>1, MadeTail DEF Made
  <2>2. ~Placed(n, s)
    BY PlacedHead DEF HasDelete, Posts
  <2> QED
    BY <2>1, <2>2 DEF OwnedBy, Phases, Before
<1>3. PICK i \in 1..Len(s), a \in 1..Len(s) : MakesAt(n, s, i, a)
  BY <1>2 DEF Unmade
<1>4. \A l \in 1..Len(s) : s[l].op = "delete" => l \in 1..(i - 1) /\ l <= 3
  <2> SUFFICES ASSUME NEW l \in 1..Len(s), s[l].op = "delete" PROVE l \in 1..(i - 1) /\ l <= 3
    OBVIOUS
  <2>1. l # i /\ l # a
    BY <1>3 DEF MakesAt, Makes, Call
  <2>2. l \notin (i + 1)..(a - 1)
    BY <1>3 DEF MakesAt, Mids
  <2>3. l \notin (a + 1)..Len(s)
    BY <1>3 DEF MakesAt, Posts
  <2>4. l \in Nat /\ i \in Nat /\ a \in Nat /\ Len(s) \in Nat /\ 1 <= l /\ l <= Len(s)
    BY <1>1, LenProperties
  <2>5. l \in 1..(i - 1)
    BY <2>1, <2>2, <2>3, <2>4
  <2> QED
    BY <1>3, <2>5 DEF MakesAt, Pre
<1>5. PICK l \in 1..Len(s) : s[l].op = "delete"
  BY DEF HasDelete
<1>6. l \in 1..3 /\ l \in 1..(i - 1)
  BY <1>4, <1>5
<1>7. \E b \in 1..3 : w.todo[b].op = "delete"
  BY <1>5, <1>6
<1>8. Len(s) >= 3 /\ Len(s) \in Nat
  <2>1. Len(s) \in Nat /\ i \in Nat /\ a \in Nat /\ l \in Nat
    BY <1>1, LenProperties
  <2>2. i < a
    BY <1>3 DEF MakesAt
  <2>3. l <= i - 1 /\ a <= Len(s) /\ 1 <= l
    BY <1>6
  <2> QED
    BY <2>1, <2>2, <2>3
<1> SUFFICES ASSUME NEW j \in 1..3, s[j].op = "delete" PROVE OwnedBy(M, c, V, n, After(w, j))
  BY <1>7, <1>8
<1>9. j \in 1..(i - 1) /\ j < i /\ j \in Nat \ {0}
  <2>1. j \in 1..Len(s)
    BY <1>8
  <2> QED
    BY <1>4, <2>1
<1> PICK t : t = SubSeq(s, j + 1, Len(s))
  OBVIOUS
<1>10. t[1] = s[j + 1] /\ 1 \in 1..Len(t)
  BY <1>1, <1>3, <1>9, UnmadeTail
<1>11. HasDelete(t) => s[j].op \in {"unregister", "find"}
  BY <1>1, <1>3, <1>9, UnmadeTail
<1>12. s[j + 1].op # "delete"
  <2>2. ~HasDelete(t)
    BY <1>11
  <2> QED
    BY <1>10, <2>2 DEF HasDelete
<1>13. n \in V
  OBVIOUS
<1> QED
  BY <1>1, <1>2, <1>3, <1>9, <1>12, <1>13, UnmadeAfter

\* There is room for one machine more.
LEMMA GrownTypes ==
    ASSUME NEW k \in Nat PROVE MachineType(k) \subseteq MachineType(k + 1) /\ WorkerType(k) \subseteq WorkerType(k + 1)
<1>1. 0..k \subseteq 0..(k + 1) /\ 1..k \subseteq 1..(k + 1)
  OBVIOUS
<1>2. MachineType(k) \subseteq MachineType(k + 1)
  BY <1>1 DEF MachineType
<1> QED
  BY <1>1, <1>2 DEF WorkerType

\* A worker about to make a machine makes its node's, of which there is none, or a shared one.
LEMMA MakerOwned ==
    ASSUME NEW M, NEW c, NEW U, NEW n \in Nodes, NEW k \in Nat, NEW w \in WorkerType(k), OwnedBy(M, c, U, n, w),
           w.todo # <<>>, w.todo[1].op \in Makes
    PROVE  \/ w.todo[1].name # n /\ w.todo[1].name \in Shared /\ Placed(n, w.todo) /\ w.got # 0
           \/ /\ w.todo[1].name = n /\ w.own = 0 /\ w.got = 0 /\ w.mine = {}
              /\ n \notin U => \A m \in M : m.name # n
              /\ Len(w.todo) # 1 /\ Made(n, SubSeq(w.todo, 2, Len(w.todo)))
<1>1. w.todo \in Seq(Calls)
  BY DEF WorkerType
<1>2. CASE Placed(n, w.todo) /\ w.got # 0
  <2>1. w.todo[1].name \in Shared
    BY <1>2, PlacedHead DEF Posts
  <2>2. w.todo[1].name # n
    BY <2>1, CloudVmsAssumption
  <2> QED
    BY <1>2, <2>1, <2>2
<1>3. CASE Unmade(n, w.todo) /\ Before(M, U, n, w)
  <2>1. PICK i \in 1..Len(w.todo), a \in 1..Len(w.todo) : MakesAt(n, w.todo, i, a)
    BY <1>3 DEF Unmade
  <2>2. i = 1 /\ w.todo[1].name = n
    BY <1>1, <2>1, UnmadeHead
  <2>3. MakesAt(n, w.todo, 1, a)
    BY <2>1, <2>2
  <2>4. Len(w.todo) # 1 /\ Made(n, SubSeq(w.todo, 2, Len(w.todo))) /\ ~HasDelete(w.todo)
    BY <1>1, <2>3, MakeTail
  <2> QED
    BY <1>3, <2>2, <2>4 DEF Before
<1> QED
  BY <1>2, <1>3, Phase

\* A machine is made: the worker has it, or failed without noting it.
LEMMA CreateOwned ==
    ASSUME NEW M, NEW c, NEW U, NEW n \in Nodes, NEW k \in Nat, NEW w \in WorkerType(k), OwnedBy(M, c, U, n, w),
           M \subseteq MachineType(k), w.todo # <<>>, w.todo[1].op \in Makes,
           NEW r \in MachineType(k + 1), r.id = k + 1, r.name = w.todo[1].name, NEW N, N = M \cup {r},
           NEW x \in WorkerType(k + 1), x.todo = w.todo, x.got = w.got, x.mine = w.mine \cup {k + 1},
           x.own = IF w.todo[1].name = n THEN k + 1 ELSE w.own
    PROVE  OwnedBy(N, c, U, n, After(x, 1)) /\ OwnedBy(N, c, U, n, Dead)
<1>3. \/ w.todo[1].name # n /\ w.todo[1].name \in Shared /\ Placed(n, w.todo) /\ w.got # 0
      \/ /\ w.todo[1].name = n /\ w.own = 0 /\ w.got = 0 /\ w.mine = {}
         /\ n \notin U => \A m \in M : m.name # n
         /\ Len(w.todo) # 1 /\ Made(n, SubSeq(w.todo, 2, Len(w.todo)))
  BY MakerOwned
<1>0. N \subseteq MachineType(k + 1) /\ k + 1 \in Nat /\ 1 \in Nat \ {0} /\ \A m \in M : m.id # k + 1 /\ m.id # 0
  <2>1. \A m \in M : m.id \in 1..k
    BY DEF MachineType
  <2>2. \A m \in M : m.id # k + 1 /\ m.id # 0
    BY <2>1
  <2> QED
    BY <2>2, GrownTypes
<1>1. CASE w.todo[1].name # n
  <2>1. Placed(n, w.todo) /\ w.got # 0 /\ x.own = w.own
    BY <1>1, <1>3
  <2>2. (\A i : Is(N, i, n) <=> Is(M, i, n)) /\ \A m \in N : Is(M, m.id, m.name) \/ m.id > k
    BY <1>1 DEF Is
  <2>3. OwnedBy(N, c, U, n, w)
    BY <2>2, OthersOwned
  <2>4. w \in WorkerType(k + 1) /\ Kept(N, c, U, n, w)
    BY <2>3, GrownTypes DEF OwnedBy
  <2>5. OwnedBy(N, c, U, n, After(x, 1))
    BY <1>0, <2>1, <2>4, PlacedAfter
  <2> QED
    BY <1>0, <2>3, <2>5, DeadOwned
<1>2. CASE w.todo[1].name = n
  <2>1. /\ w.own = 0 /\ w.got = 0 /\ w.mine = {} /\ x.own = k + 1 /\ x.mine = {k + 1}
        /\ n \notin U => \A m \in M : m.name # n
        /\ Len(w.todo) # 1 /\ Made(n, SubSeq(w.todo, 2, Len(w.todo)))
    BY <1>2, <1>3
  <2>2. /\ After(x, 1).todo = SubSeq(w.todo, 2, Len(w.todo)) /\ After(x, 1).own = k + 1
        /\ After(x, 1).got = 0 /\ After(x, 1).mine = {k + 1}
    <3>1. /\ Len(x.todo) # 1 => /\ After(x, 1).todo = SubSeq(x.todo, 1 + 1, Len(x.todo))
                                /\ After(x, 1).mine = x.mine
          /\ After(x, 1).own = x.own /\ After(x, 1).got = x.got
      <4>1. k + 1 \in Nat
        BY <1>0
      <4> QED
        BY ONLY x \in WorkerType(k + 1), <4>1, AfterOne
    <3>2. x.todo = w.todo /\ Len(x.todo) # 1 /\ 1 + 1 = 2
      BY <2>1
    <3> QED
      BY <2>1, <3>1, <3>2
  <2>3. Is(N, k + 1, n) /\ k + 1 # 0
    BY <1>2 DEF Is
  <2>4. Between(N, n, After(x, 1))
    BY <2>2, <2>3 DEF Between
  <2>5. n \notin U => \A m1, m2 \in N : m1.name = n /\ m2.name = n => m1.id = m2.id
    BY <2>1
  <2>6. \A m \in N : m.id = k + 1 => m.name = n
    BY <1>0, <1>2
  <2>7. \A m \in N : m.id # 0
    BY <1>0
  <2>8. ReuseReady(After(x, 1).todo)
    <3>1. w.todo \in Seq(Calls) /\ ReuseReady(w.todo)
      BY DEF WorkerType, OwnedBy, Kept
    <3>2. ReuseReady(SubSeq(w.todo, 1 + 1, Len(w.todo)))
      BY <1>0, <3>1, ReuseTail
    <3>3. 1 + 1 = 2
      OBVIOUS
    <3> QED
      BY <2>2, <3>2, <3>3
  <2>9. Kept(N, c, U, n, After(x, 1))
    BY <2>2, <2>5, <2>6, <2>7, <2>8 DEF Kept
  <2>10. OwnedBy(N, c, U, n, After(x, 1))
    BY <2>1, <2>2, <2>4, <2>9 DEF OwnedBy, Phases
  <2>11. OwnedBy(N, c, U, n, Dead)
    <3>1. Dead.todo = <<>> /\ Dead.own = 0 /\ Dead.got = 0
      BY DeadType
    <3> QED
      BY <2>5, <2>7, <3>1, EmptyTodo DEF OwnedBy, Phases, Kept
  <2> QED
    BY <2>10, <2>11
<1> QED
  BY <1>1, <1>2

\* After the address of a machine is got: of the node's, it is the one the worker made, when it is
\* looked up by its id, or when no other machine has its name.
LEMMA AddressOwned ==
    ASSUME NEW M, NEW c, NEW U, NEW n \in Nodes, NEW k \in Nat, NEW w \in WorkerType(k), OwnedBy(M, c, U, n, w),
           M \subseteq MachineType(k), OneEach(M), w.todo # <<>>, w.todo[1].op = "address",
           NEW y, y = w.todo[1].name, NEW m \in M, m.name = y,
           Find[c].kept /\ (\E l \in M : l.name = y /\ l.id \in w.mine) => m.id \in w.mine,
           NEW x \in WorkerType(k), x.todo = w.todo, x.own = w.own, x.got = IF y = n THEN m.id ELSE w.got
    PROVE  OwnedBy(M, c, U, n, After(x, 1)) /\ 1 \in Nat \ {0}
<1>0. Kept(M, c, U, n, w) /\ 1 \in Nat \ {0} /\ w.todo \in Seq(Calls) /\ 1 + 1 = 2
  BY DEF OwnedBy, WorkerType
<1>1. CASE Placed(n, w.todo) /\ w.got # 0
  <2>1. y \in Shared
    BY <1>1, PlacedHead DEF Posts
  <2>2. x.got = w.got
    BY <2>1, CloudVmsAssumption
  <2> QED
    BY <1>0, <1>1, <2>2, PlacedAfter
<1>2. CASE Made(n, w.todo) /\ Between(M, n, w)
  <2>1. PICK a \in 1..Len(w.todo) : GetsAt(n, w.todo, a)
    BY <1>2 DEF Made
  <2>2. a = 1 /\ w.todo[1] = Call("address", n)
    <3>1. a # 1 => w.todo[1].op \in {"user-data", "power-on"}
      BY <1>0, <2>1, MadeHead
    <3>2. a = 1
      BY <3>1
    <3> QED
      BY <2>1, <3>2 DEF GetsAt
  <2>3. y = n /\ x.got = m.id /\ m.id # 0
    BY <2>2 DEF Call, MachineType
  <2>4. Placed(n, SubSeq(w.todo, 2, Len(w.todo)))
    <3>1. GetsAt(n, w.todo, 1)
      BY <2>1, <2>2
    <3> QED
      BY <1>0, <2>2, <3>1, MadeTail
  <2>5. PICK l \in M : l.id = w.own /\ l.name = n
    BY <1>2 DEF Between, Is
  <2>6. w.own # 0 /\ w.mine = {w.own}
    BY <1>2 DEF Between
  <2>7. Find[c].kept => m.id = w.own
    BY <2>3, <2>5, <2>6
  <2>8. n \notin U => m.id = w.own
    BY <1>0, <2>3, <2>5 DEF Kept
  <2> PICK v : v = After(x, 1)
    OBVIOUS
  <2>9. v.own = w.own /\ v.got = m.id /\ (v.todo = <<>> \/ v.todo = SubSeq(w.todo, 1 + 1, Len(w.todo)))
    <3>1. /\ Len(x.todo) # 1 => After(x, 1).todo = SubSeq(x.todo, 1 + 1, Len(x.todo))
          /\ Len(x.todo) = 1 => After(x, 1).todo = <<>>
          /\ After(x, 1).own = x.own /\ After(x, 1).got = x.got
      BY AfterOne
    <3> QED
      BY <2>3, <3>1
  <2>10. ReuseReady(v.todo)
    BY <1>0, <2>9, ReuseTail, EmptyTodo DEF Kept
  <2>11. \A b \in M : b.id \in {v.own, v.got} => b.name = n
    BY <1>0, <2>3, <2>9 DEF Kept, OneEach
  <2>12. Kept(M, c, U, n, v)
    <3>1. v.got # 0 => v.own # 0 /\ (Find[c].kept \/ n \notin U => v.got = v.own)
      BY <2>6, <2>7, <2>8, <2>9
    <3> QED
      BY <1>0, <2>10, <2>11, <3>1 DEF Kept
  <2>13. v.todo = <<>> \/ Placed(n, v.todo)
    BY <1>0, <2>4, <2>9
  <2> QED
    BY <1>0, <2>3, <2>9, <2>12, <2>13 DEF OwnedBy, Phases
<1> QED
  <2>1. "address" \in {"user-data", "power-on", "address"}
    OBVIOUS
  <2> QED
    BY <1>1, <1>2, <2>1, Phase

(***************************************************************************)
(* Steps                                                                   *)
(***************************************************************************)
\* The machines keep their names and ids.
NamesKept == \A i, x : Is(machines', i, x) <=> Is(machines, i, x)

\* What leaves the machines alone keeps their names.
LEMMA SameMachines == ASSUME machines' = machines PROVE NamesKept
  BY DEF NamesKept

\* A worker at a call.
LEMMA AtCall ==
    ASSUME CloudInv, NEW n \in Nodes, Busy(n)
    PROVE  /\ work[n] \in WorkerType(made) /\ work[n].todo # <<>> /\ OwnedBy(machines, cloud, undeleted, n, work[n])
           /\ work[n].todo[1] \in Calls /\ Name(n) \in AnyName
           /\ made \in Nat /\ machines \subseteq MachineType(made) /\ OneEach(machines) /\ unsure \in BOOLEAN
<1>1. work[n] \in WorkerType(made) /\ OwnedBy(machines, cloud, undeleted, n, work[n]) /\ made \in Nat
      /\ machines \subseteq MachineType(made) /\ OneEach(machines) /\ unsure \in BOOLEAN
  BY DEF CloudInv, Types, WorkType, StockType, GhostType, Owned
<1>2. work[n].todo \in Seq(Calls) /\ work[n].todo # <<>>
  BY <1>1 DEF WorkerType, Busy
<1>3. work[n].todo[1] \in Calls
  <2> PICK s : s = work[n].todo
    OBVIOUS
  <2>1. s \in Seq(Calls) /\ Len(s) \in Nat /\ Len(s) # 0
    BY <1>2, LenProperties, EmptySeq
  <2>2. 1 \in 1..Len(s)
    BY <2>1
  <2> QED
    BY <2>1, <2>2, ElementOfSeq
<1>4. work[n].todo[1].name \in AnyName
  BY <1>3 DEF Calls, AnyName
<1> QED
  BY <1>1, <1>2, <1>3, <1>4 DEF Name

\* One worker does a call, and no machine of another node comes or goes.
LEMMA WorkerStep ==
    ASSUME CloudInv, NEW n \in Nodes, NEW v \in WorkerType(made'), work' = [work EXCEPT ![n] = v], cloud' = cloud,
           made' \in Nat, made <= made', undeleted \subseteq undeleted', machines' \subseteq MachineType(made'),
           \A k \in Nodes : k # n => \A i : Is(machines', i, k) <=> Is(machines, i, k),
           \A m \in machines' : Is(machines, m.id, m.name) \/ m.id > made,
           OwnedBy(machines', cloud, undeleted', n, v),
           v.own = 0 \/ v.own = work[n].own \/ v.own > made,
           v.got = 0 \/ v.got = work[n].got \/ Is(machines, v.got, n)
    PROVE  WorkType' /\ Owned' /\ Apart'
<1>1. work \in [Nodes -> WorkerType(made)] /\ made \in Nat /\ machines \subseteq MachineType(made)
      /\ \A k \in Nodes : OwnedBy(machines, cloud, undeleted, k, work[k])
  BY DEF CloudInv, Types, WorkType, StockType, Owned
<1>2. work'[n] = v /\ \A k \in Nodes : k # n => work'[k] = work[k]
  BY <1>1
<1>3. ASSUME NEW m \in Nat, NEW l \in Nat, m <= l PROVE WorkerType(m) \subseteq WorkerType(l)
  <2>1. 0..m \subseteq 0..l /\ 1..m \subseteq 1..l
    BY <1>3
  <2> QED
    BY <2>1 DEF WorkerType
<1>4. WorkerType(made) \subseteq WorkerType(made')
  BY <1>1, <1>3
<1>5. WorkType'
  BY <1>1, <1>4 DEF WorkType
<1>6. ASSUME NEW k \in Nodes PROVE OwnedBy(machines', cloud', undeleted', k, work'[k])
  <2>1. CASE k = n
    BY <1>2, <2>1
  <2>2. CASE k # n
    <3> PICK N : N = machines'
      OBVIOUS
    <3> PICK w : w = work[k]
      OBVIOUS
    <3>1. w \in WorkerType(made) /\ OwnedBy(machines, cloud, undeleted, k, w) /\ work'[k] = w
      BY <1>1, <1>2, <2>2
    <3>2. (\A i : Is(N, i, k) <=> Is(machines, i, k)) /\ \A m \in N : Is(machines, m.id, m.name) \/ m.id > made
      BY <2>2
    <3>3. OwnedBy(N, cloud, undeleted', k, w)
      BY <1>1, <3>1, <3>2, OthersOwned
    <3> QED
      BY <3>1, <3>3
  <2> QED
    BY <2>1, <2>2
<1>7. Owned'
  BY <1>6 DEF Owned
<1>8. ASSUME NEW k \in Nodes, NEW l \in Nodes, k # l, work'[l].own # 0 PROVE work'[k].got # work'[l].own
  <2>1. work[k].got # work[l].own \/ work[l].own = 0
    BY <1>8 DEF CloudInv, Apart
  <2>2. CASE k # n /\ l # n
    BY <1>2, <1>8, <2>1, <2>2
  <2>3. CASE l = n
    <3>1. k # n /\ work'[k] = work[k] /\ work'[l] = v
      BY <1>2, <1>8, <2>3
    <3>2. work[k].got \in Nat /\ work[k].got <= made
      BY <1>1 DEF WorkerType
    <3>3. v.own = work[n].own \/ v.own > made
      BY <1>8, <3>1
    <3>4. v.own > made => v.own # work[k].got
      BY <1>1, <3>2
    <3> QED
      BY <1>8, <2>1, <2>3, <3>1, <3>3, <3>4
  <2>4. CASE k = n
    <3>1. l # n /\ work'[l] = work[l] /\ work'[k] = v
      BY <1>2, <1>8, <2>4
    <3>2. CASE v.got = 0
      BY <1>8, <3>1, <3>2
    <3>3. CASE v.got = work[n].got
      BY <1>8, <2>1, <2>4, <3>1, <3>3
    <3>4. CASE Is(machines, v.got, n)
      <4>1. PICK m \in machines : m.id = v.got /\ m.name = n
        BY <3>4 DEF Is
      <4>2. m.id = work[l].own => m.name = l
        BY <1>1, <4>1 DEF OwnedBy, Kept
      <4> QED
        BY <3>1, <4>1, <4>2
    <3> QED
      BY <3>2, <3>3, <3>4
  <2> QED
    BY <2>2, <2>3, <2>4
<1>9. Apart'
  BY <1>8 DEF Apart
<1> QED
  BY <1>5, <1>7, <1>9

\* A worker does a call that leaves all machines as they are, as far as their names go.
LEMMA QuietStep ==
    ASSUME CloudInv, NEW n \in Nodes, NEW v \in WorkerType(made), work' = [work EXCEPT ![n] = v], cloud' = cloud,
           made' = made, undeleted \subseteq undeleted', machines' \subseteq MachineType(made), NamesKept,
           OwnedBy(machines, cloud, undeleted', n, v),
           v.own = 0 \/ v.own = work[n].own, v.got = 0 \/ v.got = work[n].got \/ Is(machines, v.got, n)
    PROVE  WorkType' /\ Owned' /\ Apart'
<1>1. made \in Nat /\ made' \in Nat /\ made <= made' /\ v \in WorkerType(made') /\ machines' \subseteq MachineType(made')
      /\ machines \subseteq MachineType(made)
  BY DEF CloudInv, Types, StockType
<1>2. (\A i, k : Is(machines', i, k) <=> Is(machines, i, k)) /\ \A m \in machines' : Is(machines, m.id, m.name)
  <2>1. \A i, k : Is(machines', i, k) <=> Is(machines, i, k)
    BY DEF NamesKept
  <2>2. \A m \in machines' : Is(machines', m.id, m.name)
    BY DEF Is
  <2> QED
    BY <2>1, <2>2
<1>3. OwnedBy(machines', cloud, undeleted', n, v)
  <2> PICK N : N = machines'
    OBVIOUS
  <2> PICK V : V = undeleted'
    OBVIOUS
  <2>1. (\A i : Is(N, i, n) <=> Is(machines, i, n)) /\ \A m \in N : Is(machines, m.id, m.name) \/ m.id > made
    BY <1>2
  <2>2. OwnedBy(N, cloud, V, n, v)
    BY <1>1, <2>1, OthersOwned
  <2> QED
    BY <2>2
<1> QED
  BY <1>1, <1>2, <1>3, WorkerStep

\* A worker ends in failure.
LEMMA DeadStep ==
    ASSUME CloudInv, NEW n \in Nodes, Dies(n), cloud' = cloud, made' = made, undeleted \subseteq undeleted',
           machines' \subseteq MachineType(made), NamesKept
    PROVE  WorkType' /\ Owned' /\ Apart' /\ unsure' \in BOOLEAN
<1>1. work' = [work EXCEPT ![n] = Dead] /\ unsure' \in BOOLEAN
  BY DEF Dies, Dead, CloudInv, Types, GhostType
<1>2. /\ made \in Nat /\ machines \subseteq MachineType(made) /\ work[n] \in WorkerType(made)
      /\ OwnedBy(machines, cloud, undeleted, n, work[n])
  BY DEF CloudInv, Types, StockType, WorkType, Owned
<1>3. Dead \in WorkerType(made) /\ Dead.own = 0 /\ Dead.got = 0
  BY <1>2, DeadType
<1>4. OwnedBy(machines, cloud, undeleted, n, Dead)
  BY <1>2, DeadOwned
<1>5. OwnedBy(machines, cloud, undeleted', n, Dead)
  <2> PICK V : V = undeleted'
    OBVIOUS
  <2>1. \A m \in machines : Is(machines, m.id, m.name) \/ m.id > made
    BY DEF Is
  <2>2. OwnedBy(machines, cloud, V, n, Dead)
    BY <1>2, <1>3, <1>4, <2>1, OthersOwned
  <2> QED
    BY <2>2
<1> QED
  BY <1>1, <1>3, <1>5, QuietStep

\* A worker does calls that neither remove nor make its node's machine, nor get its address.
LEMMA AdvanceStep ==
    ASSUME CloudInv, NEW n \in Nodes, Busy(n), NEW x \in WorkerType(made), x.todo = work[n].todo, x.own = work[n].own,
           x.got = work[n].got, x.mine = work[n].mine, NEW j \in Nat \ {0}, DidWith(n, j, x),
           NEW o, o = work[n].todo[1].op, o \in CallOps \ (Makes \cup {"find", "delete", "address"}),
           \/ j = 1
           \/ o = "gateway?" /\ j = 3
           \/ o = "route?" /\ j = 2
           \/ o \in {"dhcp?", "reuse"},
           cloud' = cloud, made' = made, undeleted' = undeleted, machines' \subseteq MachineType(made), NamesKept
    PROVE  WorkType' /\ Owned' /\ Apart'
<1> PICK w : w = work[n]
  OBVIOUS
<1>1. /\ w \in WorkerType(made) /\ w.todo # <<>> /\ OwnedBy(machines, cloud, undeleted, n, w) /\ made \in Nat
  BY AtCall
<1>2. OwnedBy(machines, cloud, undeleted, n, After(x, j))
  BY <1>1, AdvanceOwned
<1>3. work' = [work EXCEPT ![n] = After(x, j)]
  BY DEF DidWith, After
<1>4. After(x, j) \in WorkerType(made) /\ After(x, j).own = x.own /\ After(x, j).got = x.got
  BY <1>1, AfterType
<1> PICK v : v = After(x, j)
  OBVIOUS
<1> QED
  BY <1>2, <1>3, <1>4, QuietStep

\* What a call leaves alone keeps its type.
LEMMA LabSame == ASSUME CloudInv, UNCHANGED <<lab, starts>> PROVE LabType'
  BY DEF CloudInv, Types, LabType, lab
\* ... the machines,
LEMMA StockSame == ASSUME CloudInv, UNCHANGED <<machines, made>>
                   PROVE  StockType' /\ NamesKept /\ machines' \subseteq MachineType(made)
  BY SameMachines DEF CloudInv, Types, StockType
\* ... the records and the network,
LEMMA AccountSame == ASSUME CloudInv, UNCHANGED <<records, net, made>> PROVE AccountType'
  BY DEF CloudInv, Types, AccountType
\* ... the faults,
LEMMA GhostSame == ASSUME CloudInv, UNCHANGED <<undeleted, faults>>, unsure' \in BOOLEAN PROVE GhostType'
  BY DEF CloudInv, Types, GhostType
\* ... and what is known of the shared machines.
LEMMA UnsureSame == ASSUME CloudInv, UNCHANGED unsure PROVE unsure' \in BOOLEAN
  BY DEF CloudInv, Types, GhostType

\* The next call, or a failure, of a worker at a call of the given ones.
LEMMA CallStep ==
    ASSUME CloudInv, NEW n \in Nodes, Busy(n), work[n].todo[1].op \in CallOps \ (Makes \cup {"find", "delete", "address"}),
           Did(n, 1) \/ Dies(n), cloud' = cloud, made' = made, undeleted' = undeleted,
           machines' \subseteq MachineType(made), NamesKept
    PROVE  WorkType' /\ Owned' /\ Apart'
<1>1. work[n] \in WorkerType(made) /\ 1 \in Nat \ {0}
  BY AtCall
<1>2. CASE Did(n, 1)
  BY <1>1, <1>2, AdvanceStep DEF Did
<1>3. CASE Dies(n)
  BY <1>3, DeadStep
<1> QED
  BY <1>2, <1>3

\* destroy_vm() and provision_vm() are begun: the worker has the whole program of calls ahead.
LEMMA StartStep == ASSUME CloudInv, NEW n \in Nodes, Start(n) PROVE CloudInv'
<1> USE DEF Start
<1>1. LabType'
  <2>1. PICK l \in Labs : cloud = l.cloud /\ mode = l.mode /\ overlay = l.overlay /\ starts \in 0..l.starts
    BY DEF CloudInv, Types, LabType
  <2>2. l.starts \in Nat
    BY CloudVmsAssumption
  <2>3. starts - 1 \in 0..l.starts
    BY <2>1, <2>2
  <2>4. cloud' = l.cloud /\ mode' = l.mode /\ overlay' = l.overlay /\ starts' \in 0..l.starts
    BY <2>1, <2>3 DEF lab
  <2> QED
    BY <2>4 DEF LabType
<1>2. StockType' /\ NamesKept /\ machines' \subseteq MachineType(made)
  BY StockSame
<1>3. AccountType' /\ GhostType'
  BY AccountSame, GhostSame, UnsureSame DEF account, ghosts
<1>4. cloud \in Providers /\ overlay \in BOOLEAN
  BY CloudVmsAssumption DEF CloudInv, Types, LabType
<1> PICK p : p = <<Call("unregister", n)>> \o Delete(n) \o Provision(cloud, n, overlay)
  OBVIOUS
<1>5. p \in Seq(Calls) /\ Unmade(n, p) /\ ReuseReady(p) /\ p # <<>> /\ p[1].op = "unregister" /\ HasDelete(p)
  BY <1>4, Program
<1> PICK v : v = [Idle EXCEPT !.todo = p]
  OBVIOUS
<1>6. made \in Nat /\ machines \subseteq MachineType(made) /\ OwnedBy(machines, cloud, undeleted, n, work[n])
  BY DEF CloudInv, Types, StockType, Owned
<1>7. v \in WorkerType(made) /\ v.todo = p /\ v.own = 0 /\ v.got = 0 /\ v.mine = {}
  <2>1. 0 \in 0..made
    BY <1>6
  <2> QED
    BY <1>5, <2>1 DEF Idle, WorkerType
<1>8. OwnedBy(machines, cloud, undeleted, n, v)
  <2>1. Before(machines, undeleted, n, v)
    BY <1>5, <1>7 DEF Before
  <2>2. \A m \in machines : m.id # 0
    BY <1>6 DEF MachineType
  <2>3. Kept(machines, cloud, undeleted, n, v)
    BY <1>5, <1>6, <1>7, <2>2 DEF Kept, OwnedBy
  <2> QED
    BY <1>5, <1>7, <2>1, <2>3 DEF OwnedBy, Phases
<1>9. work' = [work EXCEPT ![n] = v] /\ cloud' = cloud /\ made' = made /\ undeleted' = undeleted
  BY DEF lab, ghosts
<1>10. WorkType' /\ Owned' /\ Apart'
  BY <1>2, <1>7, <1>8, <1>9, QuietStep
<1> QED
  BY <1>1, <1>2, <1>3, <1>10 DEF CloudInv, Types

\* destroy_vm() removes the node's record.
LEMMA UnregisterStep == ASSUME CloudInv, NEW n \in Nodes, Unregister(n) PROVE CloudInv'
<1> USE DEF Unregister
<1>1. Busy(n) /\ work[n].todo[1].op = "unregister"
  BY DEF At
<1>2. LabType' /\ StockType' /\ NamesKept /\ machines' \subseteq MachineType(made)
  BY LabSame, StockSame
<1>3. AccountType'
  <2>1. records' \subseteq records
    OBVIOUS
  <2> QED
    BY <2>1 DEF CloudInv, Types, AccountType
<1>4. GhostType'
  BY GhostSame, UnsureSame DEF ghosts
<1>5. WorkType' /\ Owned' /\ Apart'
  <2>1. "unregister" \in CallOps \ (Makes \cup {"find", "delete", "address"})
    BY DEF CallOps, Makes
  <2> QED
    BY <1>1, <1>2, <2>1, CallStep DEF lab, ghosts
<1> QED
  BY <1>2, <1>3, <1>4, <1>5 DEF CloudInv, Types

\* A wait for a machine ends, or times out.
LEMMA ReadyStep == ASSUME CloudInv, NEW n \in Nodes, Ready(n) PROVE CloudInv'
<1> USE DEF Ready
<1>1. Busy(n) /\ work[n].todo[1].op \in {"ready", "online"}
  BY DEF At
<1>2. LabType' /\ StockType' /\ NamesKept /\ machines' \subseteq MachineType(made) /\ AccountType'
  BY LabSame, StockSame, AccountSame DEF account
<1>3. (Did(n, 1) /\ unsure' = unsure) \/ Dies(n)
  OBVIOUS
<1>4. WorkType' /\ Owned' /\ Apart'
  <2>1. {"ready", "online"} \subseteq CallOps \ (Makes \cup {"find", "delete", "address"})
    BY DEF CallOps, Makes, LaterOps
  <2> QED
    BY <1>1, <1>2, <1>3, <2>1, CallStep DEF lab
<1>5. unsure' \in BOOLEAN
  <2>1. Dies(n) => unsure' \in BOOLEAN
    BY DEF Dies, CloudInv, Types, GhostType
  <2> QED
    BY <1>3, <2>1, UnsureSame
<1>6. GhostType'
  BY <1>5, GhostSame
<1> QED
  BY <1>2, <1>4, <1>6 DEF CloudInv, Types

\* add_to_dns() writes the record, of a machine and by a DNS machine that were made.
LEMMA RegisterStep == ASSUME CloudInv, NEW n \in Nodes, Register(n) PROVE CloudInv'
<1> USE DEF Register
<1>1. Busy(n) /\ work[n].todo[1].op = "register"
  BY DEF At
<1>2. LabType' /\ StockType' /\ NamesKept /\ machines' \subseteq MachineType(made)
  BY LabSame, StockSame
<1>3. AccountType'
  <2>1. \A r \in records : r[1] \in 1..made /\ r[2] \in Nodes /\ r[3] \in 1..made
    BY DEF CloudInv, Types, AccountType
  <2>2. /\ work[n] \in WorkerType(made) /\ work[n].todo # <<>> /\ machines \subseteq MachineType(made) /\ made \in Nat
        /\ OwnedBy(machines, cloud, undeleted, n, work[n])
    BY <1>1, AtCall
  <2>3. work[n].got # 0
    <3>1. "register" \in LaterOps \ {"user-data", "power-on", "address"}
      BY DEF LaterOps
    <3> QED
      BY <1>1, <2>2, <3>1, Phase
  <2>4. work[n].got \in 1..made
    BY <2>2, <2>3 DEF WorkerType
  <2>5. (\E d \in machines : d.id = work[n].dns) => work[n].dns \in 1..made
    BY <2>2 DEF MachineType
  <2>6. \A r \in records' : r \in records \/ (r = <<work[n].dns, n, work[n].got>> /\ work[n].dns \in 1..made)
    BY <2>5
  <2>7. \A r \in records' : r[1] \in 1..made /\ r[2] \in Nodes /\ r[3] \in 1..made
    BY <2>1, <2>4, <2>6
  <2>8. made' = made /\ net' = net /\ net \in [attached : BOOLEAN, routed : BOOLEAN, dhcp : 0..made]
    BY DEF CloudInv, Types, AccountType
  <2> QED
    BY <2>7, <2>8 DEF AccountType
<1>4. GhostType'
  BY GhostSame, UnsureSame DEF ghosts
<1>5. WorkType' /\ Owned' /\ Apart'
  <2>1. "register" \in CallOps \ (Makes \cup {"find", "delete", "address"})
    BY DEF CallOps, Makes, LaterOps
  <2> QED
    BY <1>1, <1>2, <2>1, CallStep DEF lab, ghosts
<1> QED
  BY <1>2, <1>3, <1>4, <1>5 DEF CloudInv, Types

\* The record is lost, and nobody notices.
LEMMA RecordLostStep == ASSUME CloudInv, NEW n \in Nodes, RecordLost(n) PROVE CloudInv'
<1> USE DEF RecordLost
<1>1. Busy(n) /\ work[n].todo[1].op = "register"
  BY DEF At
<1>2. LabType' /\ StockType' /\ NamesKept /\ machines' \subseteq MachineType(made) /\ AccountType'
  BY LabSame, StockSame, AccountSame DEF account
<1>3. GhostType'
  BY CloudVmsAssumption DEF CloudInv, Types, GhostType
<1>4. WorkType' /\ Owned' /\ Apart'
  <2>1. "register" \in CallOps \ (Makes \cup {"find", "delete", "address"})
    BY DEF CallOps, Makes, LaterOps
  <2> QED
    BY <1>1, <1>2, <2>1, CallStep DEF lab
<1> QED
  BY <1>2, <1>3, <1>4 DEF CloudInv, Types

\* A reboot, or the check of forwarding.
LEMMA NoEffectStep == ASSUME CloudInv, NEW n \in Nodes, NoEffect(n) PROVE CloudInv'
<1> USE DEF NoEffect
<1>1. Busy(n) /\ work[n].todo[1].op \in {"reboot", "forward"}
  BY DEF At
<1>2. LabType' /\ StockType' /\ NamesKept /\ machines' \subseteq MachineType(made) /\ AccountType' /\ GhostType'
  BY LabSame, StockSame, AccountSame, GhostSame, UnsureSame DEF account, ghosts
<1>3. WorkType' /\ Owned' /\ Apart'
  <2>1. {"reboot", "forward"} \subseteq CallOps \ (Makes \cup {"find", "delete", "address"})
    BY DEF CallOps, Makes, LaterOps
  <2> QED
    BY <1>1, <1>2, <2>1, CallStep DEF lab, ghosts
<1> QED
  BY <1>2, <1>3 DEF CloudInv, Types

\* AWS: a look-up decides whether the gateway, the route or the DHCP options are still to be made.
LEMMA NetLookStep == ASSUME CloudInv, NEW n \in Nodes, NetLook(n) PROVE CloudInv'
<1> USE DEF NetLook
<1>1. Busy(n) /\ work[n].todo[1].op \in {"gateway?", "route?", "dhcp?", "make-gateway", "make-options"}
  BY DEF At
<1>2. LabType' /\ StockType' /\ NamesKept /\ machines' \subseteq MachineType(made) /\ AccountType' /\ GhostType'
  BY LabSame, StockSame, AccountSame, GhostSame, UnsureSame DEF account, ghosts
<1>3. WorkType' /\ Owned' /\ Apart'
  <2>1. {"gateway?", "route?", "dhcp?", "make-gateway", "make-options"}
           \subseteq CallOps \ (Makes \cup {"find", "delete", "address"})
    BY DEF CallOps, Makes, LaterOps, NetOps
  <2>2. PICK j \in {1, 2, 3} : /\ Did(n, j)
                              /\ \/ j = 1
                                 \/ work[n].todo[1].op = "gateway?" /\ j = 3
                                 \/ work[n].todo[1].op = "route?" /\ j = 2
                                 \/ work[n].todo[1].op = "dhcp?"
    <3>1. CASE At(n, "gateway?") /\ Did(n, IF net.attached THEN 3 ELSE 1)
      BY <3>1 DEF At
    <3>2. CASE At(n, "route?") /\ Did(n, IF net.routed THEN 2 ELSE 1)
      BY <3>2 DEF At
    <3>3. CASE At(n, "dhcp?") /\ Did(n, IF net.dhcp = work[n].dns THEN 3 ELSE 1)
      BY <3>3 DEF At
    <3>4. CASE Did(n, 1)
      BY <3>4
    <3> QED
      BY <3>1, <3>2, <3>3, <3>4
  <2>3. work[n] \in WorkerType(made) /\ j \in Nat \ {0} /\ DidWith(n, j, work[n])
    BY <1>1, <2>2, AtCall DEF Did
  <2>4. cloud' = cloud /\ made' = made /\ undeleted' = undeleted
    BY DEF lab, ghosts
  <2> QED
    BY <1>1, <1>2, <2>1, <2>2, <2>3, <2>4, AdvanceStep
<1> QED
  BY <1>2, <1>3 DEF CloudInv, Types

\* AWS: the gateway, the route and the DHCP options; a second one is refused.
LEMMA NetCallStep == ASSUME CloudInv, NEW n \in Nodes, NetCall(n) PROVE CloudInv'
<1> USE DEF NetCall
<1>1. Busy(n) /\ work[n].todo[1].op \in {"attach-gateway", "add-route", "dhcp"}
  BY DEF At
<1>2. LabType' /\ StockType' /\ NamesKept /\ machines' \subseteq MachineType(made)
  BY LabSame, StockSame
<1>3. (Did(n, 1) /\ unsure' = unsure) \/ Dies(n)
  OBVIOUS
<1>4. WorkType' /\ Owned' /\ Apart'
  <2>1. {"attach-gateway", "add-route", "dhcp"} \subseteq CallOps \ (Makes \cup {"find", "delete", "address"})
    BY DEF CallOps, Makes, LaterOps, NetOps
  <2> QED
    BY <1>1, <1>2, <1>3, <2>1, CallStep DEF lab
<1>5. GhostType'
  <2>1. Dies(n) => unsure' \in BOOLEAN
    BY DEF Dies, CloudInv, Types, GhostType
  <2> QED
    BY <1>3, <2>1, UnsureSame, GhostSame
<1>6. AccountType'
  <2>1. work[n].dns \in 0..made
    BY <1>1, AtCall DEF WorkerType
  <2>2. net \in [attached : BOOLEAN, routed : BOOLEAN, dhcp : 0..made]
    BY DEF CloudInv, Types, AccountType
  <2>3. \/ net' = net
        \/ net' = [net EXCEPT !.attached = TRUE]
        \/ net' = [net EXCEPT !.routed = TRUE]
        \/ net' = [net EXCEPT !.dhcp = work[n].dns]
    OBVIOUS
  <2>4. net' \in [attached : BOOLEAN, routed : BOOLEAN, dhcp : 0..made]
    BY <2>1, <2>2, <2>3
  <2> QED
    BY <2>4 DEF CloudInv, Types, AccountType
<1> QED
  BY <1>2, <1>4, <1>5, <1>6 DEF CloudInv, Types

\* AWS: rules are looked up and added.
LEMMA AddRulesStep == ASSUME CloudInv, NEW n \in Nodes, AddRules(n) PROVE CloudInv'
<1> USE DEF AddRules
<1>1. Busy(n) /\ work[n].todo[1].op \in {"rules?", "rule"}
  BY DEF At
<1>2. LabType' /\ StockType' /\ NamesKept /\ machines' \subseteq MachineType(made) /\ AccountType'
  BY LabSame, StockSame, AccountSame
<1> PICK x : x = [work[n] EXCEPT !.lack = {"ssh", Name(n)} \ rules]
  OBVIOUS
<1>3. (DidWith(n, 1, x) /\ unsure' = unsure) \/ (Did(n, 1) /\ unsure' = unsure) \/ Dies(n)
  OBVIOUS
<1>4. {"rules?", "rule"} \subseteq CallOps \ (Makes \cup {"find", "delete", "address"})
  BY DEF CallOps, Makes, LaterOps, NetOps
<1>5. WorkType' /\ Owned' /\ Apart'
  <2>1. CASE Did(n, 1) \/ Dies(n)
    BY <1>1, <1>2, <1>4, <2>1, CallStep DEF lab
  <2>2. CASE DidWith(n, 1, x)
    <3>1. work[n] \in WorkerType(made) /\ Name(n) \in AnyName
      BY <1>1, AtCall
    <3>2. {"ssh", Name(n)} \ rules \subseteq AnyName
      BY <3>1 DEF AnyName
    <3>3. /\ x \in WorkerType(made) /\ x.todo = work[n].todo /\ x.own = work[n].own /\ x.got = work[n].got
          /\ x.mine = work[n].mine
      BY <3>1, <3>2 DEF WorkerType
    <3>4. 1 \in Nat \ {0} /\ cloud' = cloud /\ made' = made /\ undeleted' = undeleted
      BY DEF lab
    <3> QED
      BY <1>1, <1>2, <1>4, <2>2, <3>3, <3>4, AdvanceStep
  <2> QED
    BY <1>3, <2>1, <2>2
<1>6. GhostType'
  <2>1. Dies(n) => unsure' \in BOOLEAN
    BY DEF Dies, CloudInv, Types, GhostType
  <2> QED
    BY <1>3, <2>1, UnsureSame, GhostSame
<1> QED
  BY <1>2, <1>5, <1>6 DEF CloudInv, Types

\* The other providers' rules and tags.
LEMMA PutRulesStep == ASSUME CloudInv, NEW n \in Nodes, PutRules(n) PROVE CloudInv'
<1> USE DEF PutRules
<1>1. Busy(n) /\ work[n].todo[1].op \in {"put-rule", "tag"}
  BY DEF At
<1>2. LabType' /\ StockType' /\ NamesKept /\ machines' \subseteq MachineType(made) /\ AccountType' /\ GhostType'
  BY LabSame, StockSame, AccountSame, GhostSame, UnsureSame DEF ghosts
<1>3. WorkType' /\ Owned' /\ Apart'
  <2>1. {"put-rule", "tag"} \subseteq CallOps \ (Makes \cup {"find", "delete", "address"})
    BY DEF CallOps, Makes, LaterOps
  <2> QED
    BY <1>1, <1>2, <2>1, CallStep DEF lab, ghosts
<1> QED
  BY <1>2, <1>3 DEF CloudInv, Types

\* What a look-up returns has the name, is one the worker made when it goes by the id and there is one,
\* and is there when a machine of the name is.
LEMMA LookedUp ==
    ASSUME NEW n \in Nodes, NEW x
    PROVE  /\ \A m \in Lookup(n, x) : /\ m \in machines /\ m.name = x
                                      /\ Find[cloud].kept /\ (\E l \in machines : l.name = x /\ l.id \in work[n].mine)
                                            => m.id \in work[n].mine
           /\ Lookup(n, x) = {} => \A m \in machines : m.name # x
<1> DEFINE all == {m \in machines : m.name = x}
           own == {m \in all : m.id \in work[n].mine}
<1>1. Lookup(n, x) = IF Find[cloud].kept /\ own # {} THEN own ELSE all
  BY DEF Lookup
<1>2. own \subseteq all /\ \A m \in all : m \in machines /\ m.name = x
  OBVIOUS
<1>3. (\E l \in machines : l.name = x /\ l.id \in work[n].mine) => own # {}
  OBVIOUS
<1>4. \A m \in own : m.id \in work[n].mine
  OBVIOUS
<1>5. all = {} => \A m \in machines : m.name # x
  OBVIOUS
<1> HIDE DEF all, own
<1> QED
  BY <1>1, <1>2, <1>3, <1>4, <1>5

\* ensure_cloud_dns_vm() finds a machine and skips to the end of its creation, or finds none.
LEMMA ReuseStep == ASSUME CloudInv, NEW n \in Nodes, Reuse(n) PROVE CloudInv'
<1> USE DEF Reuse
<1>1. Busy(n) /\ work[n].todo[1].op = "reuse"
  BY DEF At
<1>2. LabType' /\ StockType' /\ NamesKept /\ machines' \subseteq MachineType(made) /\ AccountType'
  BY LabSame, StockSame, AccountSame DEF account
<1>3. /\ "reuse" \in CallOps \ (Makes \cup {"find", "delete", "address"})
      /\ "reuse" \in LaterOps \ {"user-data", "power-on", "address"}
  BY DEF CallOps, Makes, LaterOps
<1>4. /\ work[n] \in WorkerType(made) /\ work[n].todo # <<>> /\ OwnedBy(machines, cloud, undeleted, n, work[n])
      /\ made \in Nat /\ machines \subseteq MachineType(made)
  BY <1>1, AtCall
<1>5. work[n].todo[1].name \in Shared /\ Name(n) # n
  <2>1. Placed(n, work[n].todo)
    BY <1>1, <1>3, <1>4, Phase
  <2>2. work[n].todo[1] \in Posts(n)
    BY <1>4, <2>1, PlacedHead
  <2> QED
    BY <1>1, <2>2, CloudVmsAssumption DEF Posts, Name
<1>6. (UNCHANGED unsure /\ WorkType' /\ Owned' /\ Apart') \/ (Dies(n) /\ WorkType' /\ Owned' /\ Apart')
  <2>1. CASE Lookup(n, Name(n)) = {} /\ Did(n, 1) /\ UNCHANGED unsure
    BY <1>1, <1>2, <1>3, <2>1, CallStep DEF lab
  <2>2. CASE Dies(n)
    BY <1>2, <2>2, DeadStep DEF lab
  <2>3. CASE \E m \in Lookup(n, Name(n)) :
                /\ m.addr /\ UNCHANGED unsure
                /\ DidWith(n, CHOOSE i \in DOMAIN work[n].todo : work[n].todo[i] = Call("ready", Name(n)),
                           Knows(work[n], n, Name(n), m))
    <3>1. PICK m \in Lookup(n, Name(n)) :
             /\ UNCHANGED unsure
             /\ DidWith(n, CHOOSE i \in DOMAIN work[n].todo : work[n].todo[i] = Call("ready", Name(n)),
                        Knows(work[n], n, Name(n), m))
      BY <2>3
    <3> PICK j : j = CHOOSE i \in DOMAIN work[n].todo : work[n].todo[i] = Call("ready", Name(n))
      OBVIOUS
    <3> PICK x : x = Knows(work[n], n, Name(n), m)
      OBVIOUS
    <3>2. j \in Nat \ {0}
      <4> PICK s : s = work[n].todo
        OBVIOUS
      <4>1. s \in Seq(Calls) /\ Len(s) \in Nat /\ DOMAIN s = 1..Len(s) /\ ReuseReady(s) /\ 1 \in 1..Len(s)
        <5>1. s \in Seq(Calls) /\ s # <<>> /\ ReuseReady(s)
          BY <1>4 DEF WorkerType, OwnedBy, Kept
        <5>2. Len(s) \in Nat /\ DOMAIN s = 1..Len(s) /\ Len(s) # 0
          BY <5>1, LenProperties, EmptySeq
        <5> QED
          BY <5>1, <5>2
      <4>2. \E i \in DOMAIN s : s[i] = Call("ready", Name(n))
        BY <1>1, <4>1 DEF ReuseReady, Name
      <4>3. j \in DOMAIN s
        BY <4>2
      <4> QED
        BY ONLY <4>1, <4>3
    <3>3. m.id \in 1..made
      <4>1. m \in machines
        BY LookedUp
      <4> QED
        BY <1>4, <4>1 DEF MachineType
    <3>4. /\ x \in WorkerType(made) /\ x.todo = work[n].todo /\ x.own = work[n].own /\ x.got = work[n].got
          /\ x.mine = work[n].mine
      <4> PICK i : i = m.id
        OBVIOUS
      <4>1. i \in 0..made
        BY <1>4, <3>3
      <4>2. x = [work[n] EXCEPT !.seen = i, !.got = @, !.dns = IF Name(n) = "dns" THEN i ELSE @]
        BY <1>5 DEF Knows
      <4> QED
        BY <1>4, <4>1, <4>2 DEF WorkerType
    <3>5. DidWith(n, j, x) /\ cloud' = cloud /\ made' = made /\ undeleted' = undeleted
      BY <3>1 DEF lab
    <3> QED
      BY <1>1, <1>2, <1>3, <3>1, <3>2, <3>4, <3>5, AdvanceStep
  <2> QED
    BY <2>1, <2>2, <2>3
<1>7. GhostType'
  <2>1. Dies(n) => unsure' \in BOOLEAN
    BY DEF Dies, CloudInv, Types, GhostType
  <2> QED
    BY <1>6, <2>1, UnsureSame, GhostSame
<1> QED
  BY <1>2, <1>6, <1>7 DEF CloudInv, Types

\* Scaleway: user data and power of the machine just made.
LEMMA SetUpStep == ASSUME CloudInv, NEW n \in Nodes, SetUp(n) PROVE CloudInv'
<1> USE DEF SetUp
<1>1. Busy(n) /\ work[n].todo[1].op \in {"user-data", "power-on"}
  BY DEF At
<1>2. made \in Nat /\ machines \subseteq MachineType(made) /\ OneEach(machines) /\ made' = made
  BY <1>1, AtCall
<1> DEFINE Changed(m) == IF m.id # work[n].seen THEN m ELSE [m EXCEPT !.data = TRUE, !.on = At(n, "power-on")]
<1>3. \A m \in machines : Changed(m) \in MachineType(made) /\ Changed(m).id = m.id /\ Changed(m).name = m.name
  <2>1. At(n, "power-on") \in BOOLEAN
    BY DEF At, Busy
  <2> PICK b : b = At(n, "power-on")
    OBVIOUS
  <2>2. b \in BOOLEAN
    BY <2>1
  <2> SUFFICES ASSUME NEW m \in machines
               PROVE  Changed(m) \in MachineType(made) /\ Changed(m).id = m.id /\ Changed(m).name = m.name
    OBVIOUS
  <2>3. Changed(m) = m \/ Changed(m) = [m EXCEPT !.data = TRUE, !.on = b]
    OBVIOUS
  <2> HIDE DEF Changed
  <2> QED
    BY <1>2, <2>2, <2>3 DEF MachineType
<1>4. machines' = {Changed(m) : m \in machines}
  OBVIOUS
<1> HIDE DEF Changed
<1>5. machines' \subseteq MachineType(made)
  BY <1>3, <1>4
<1>6. OneEach(machines')
  <2> SUFFICES ASSUME NEW m1 \in machines, NEW m2 \in machines, Changed(m1).id = Changed(m2).id
               PROVE  Changed(m1) = Changed(m2)
    BY <1>4 DEF OneEach
  <2>1. m1 = m2
    BY <1>2, <1>3 DEF OneEach
  <2> QED
    BY <2>1
<1>7. NamesKept
  <2> SUFFICES ASSUME NEW i, NEW x PROVE Is(machines', i, x) <=> Is(machines, i, x)
    BY DEF NamesKept
  <2>1. ASSUME NEW m \in machines, m.id = i, m.name = x PROVE \E l \in machines' : l.id = i /\ l.name = x
    <3>1. Changed(m) \in machines' /\ Changed(m).id = i /\ Changed(m).name = x
      BY <1>3, <1>4, <2>1
    <3> QED
      BY <3>1
  <2>2. ASSUME NEW l \in machines', l.id = i, l.name = x PROVE \E m \in machines : m.id = i /\ m.name = x
    <3>1. PICK m \in machines : l = Changed(m)
      BY <1>4
    <3> QED
      BY <1>3, <2>2, <3>1
  <2> QED
    BY <2>1, <2>2 DEF Is
<1>8. StockType'
  BY <1>2, <1>5, <1>6 DEF StockType, OneEach
<1>9. LabType' /\ AccountType' /\ GhostType'
  BY LabSame, AccountSame, GhostSame, UnsureSame DEF account, ghosts
<1>10. WorkType' /\ Owned' /\ Apart'
  <2>1. {"user-data", "power-on"} \subseteq CallOps \ (Makes \cup {"find", "delete", "address"})
    BY DEF CallOps, Makes, LaterOps
  <2> QED
    BY <1>1, <1>5, <1>7, <2>1, CallStep DEF lab, ghosts
<1> QED
  BY <1>8, <1>9, <1>10 DEF CloudInv, Types

\* _poll_for_ip(): where ids are kept, or names unique, the machine found is the one just made.
LEMMA AddressStep == ASSUME CloudInv, NEW n \in Nodes, Address(n) PROVE CloudInv'
<1> USE DEF Address
<1>1. Busy(n) /\ work[n].todo[1].op = "address"
  BY DEF At
<1>2. LabType' /\ StockType' /\ NamesKept /\ machines' \subseteq MachineType(made) /\ AccountType'
  BY LabSame, StockSame, AccountSame DEF account
<1>3. /\ work[n] \in WorkerType(made) /\ work[n].todo # <<>> /\ OwnedBy(machines, cloud, undeleted, n, work[n])
      /\ made \in Nat /\ machines \subseteq MachineType(made) /\ OneEach(machines)
  BY <1>1, AtCall
<1> PICK w : w = work[n]
  OBVIOUS
<1> PICK y : y = Name(n)
  OBVIOUS
<1>6. w \in WorkerType(made) /\ w.todo # <<>> /\ w.todo[1].op = "address" /\ y = w.todo[1].name
      /\ OwnedBy(machines, cloud, undeleted, n, w)
  BY <1>1, <1>3 DEF Name
\* The worker knows the machine m from now on, and goes on as x.
<1>7. ASSUME NEW m \in machines, m.name = y,
             Find[cloud].kept /\ (\E l \in machines : l.name = y /\ l.id \in w.mine) => m.id \in w.mine,
             NEW x \in WorkerType(made), x.todo = w.todo, x.own = w.own, x.got = IF y = n THEN m.id ELSE w.got,
             DidWith(n, 1, x)
      PROVE  WorkType' /\ Owned' /\ Apart'
  <2>1. OwnedBy(machines, cloud, undeleted, n, After(x, 1)) /\ 1 \in Nat \ {0}
    BY <1>3, <1>6, <1>7, AddressOwned
  <2> PICK v : v = After(x, 1)
    OBVIOUS
  <2>2. work' = [work EXCEPT ![n] = v]
    BY <1>7 DEF DidWith, After
  <2>3. v \in WorkerType(made) /\ v.own = x.own /\ v.got = x.got
    BY <1>3, <2>1, AfterType
  <2>4. v.got = work[n].got \/ Is(machines, v.got, n)
    <3>1. CASE y = n
      BY <1>7, <2>3, <3>1 DEF Is
    <3>2. CASE y # n
      BY <1>7, <2>3, <3>2
    <3> QED
      BY <3>1, <3>2
  <2>5. v.own = work[n].own /\ cloud' = cloud /\ made' = made /\ undeleted' = undeleted
    BY <1>7, <2>3 DEF lab
  <2> QED
    BY <1>2, <2>1, <2>2, <2>3, <2>4, <2>5, QuietStep
<1>4. (UNCHANGED unsure /\ WorkType' /\ Owned' /\ Apart') \/ (Dies(n) /\ WorkType' /\ Owned' /\ Apart')
  <2>1. CASE Dies(n)
    BY <1>2, <2>1, DeadStep DEF lab
  <2>2. CASE \E m \in Lookup(n, Name(n)) :
               m.addr /\ DidWith(n, 1, Knows(work[n], n, Name(n), m)) /\ UNCHANGED unsure
    <3>1. PICK m \in Lookup(n, Name(n)) : DidWith(n, 1, Knows(work[n], n, Name(n), m)) /\ UNCHANGED unsure
      BY <2>2
    <3> PICK i : i = m.id
      OBVIOUS
    <3> PICK x : x = [w EXCEPT !.seen = i, !.got = IF y = n THEN i ELSE @, !.dns = IF y = "dns" THEN i ELSE @]
      OBVIOUS
    <3>2. /\ m \in machines /\ m.name = y
          /\ Find[cloud].kept /\ (\E l \in machines : l.name = y /\ l.id \in w.mine) => m.id \in w.mine
      BY LookedUp
    <3>3. i \in 0..made
      BY <1>3, <3>2 DEF MachineType
    <3>4. x \in WorkerType(made) /\ x.todo = w.todo /\ x.own = w.own /\ x.got = IF y = n THEN m.id ELSE w.got
      BY <1>6, <3>3 DEF WorkerType
    <3>5. DidWith(n, 1, x)
      BY <3>1 DEF Knows
    <3>6. WorkType' /\ Owned' /\ Apart'
      BY <1>7, <3>2, <3>4, <3>5
    <3> QED
      BY <3>1, <3>6
  <2> QED
    BY <2>1, <2>2
<1>5. GhostType'
  <2>1. Dies(n) => unsure' \in BOOLEAN
    BY DEF Dies, CloudInv, Types, GhostType
  <2> QED
    BY <1>4, <2>1, UnsureSame, GhostSame
<1> QED
  BY <1>2, <1>4, <1>5 DEF CloudInv, Types

\* delete_vm() and others look a machine up by name.
LEMMA FindStep == ASSUME CloudInv, NEW n \in Nodes, FindCall(n) PROVE CloudInv'
<1> USE DEF FindCall
<1>1. Busy(n) /\ work[n].todo[1].op = "find"
  BY DEF At
<1>2. LabType' /\ StockType' /\ NamesKept /\ machines' \subseteq MachineType(made) /\ AccountType'
  BY LabSame, StockSame, AccountSame DEF account
<1>3. /\ work[n] \in WorkerType(made) /\ work[n].todo # <<>> /\ OwnedBy(machines, cloud, undeleted, n, work[n])
      /\ made \in Nat /\ machines \subseteq MachineType(made)
  BY <1>1, AtCall
<1> PICK w : w = work[n]
  OBVIOUS
<1> PICK y : y = Name(n)
  OBVIOUS
<1>4. w \in WorkerType(made) /\ w.todo # <<>> /\ w.todo[1].op = "find" /\ y = w.todo[1].name
      /\ OwnedBy(machines, cloud, undeleted, n, w)
  BY <1>1, <1>3 DEF Name
\* The worker goes on as x, j calls further.
<1>5. ASSUME NEW x \in WorkerType(made), NEW j \in {1, 2}, DidWith(n, j, x), x.todo = w.todo, x.own = w.own,
             x.got = w.got, x.mine = w.mine, j = 1 => Is(machines, x.seen, y), j = 2 => \A m \in machines : m.name # y
      PROVE  WorkType' /\ Owned' /\ Apart'
  <2>1. OwnedBy(machines, cloud, undeleted, n, After(x, j))
    BY <1>3, <1>4, <1>5, FindOwned
  <2> PICK v : v = After(x, j)
    OBVIOUS
  <2>2. work' = [work EXCEPT ![n] = v]
    BY <1>5 DEF DidWith, After
  <2>3. v \in WorkerType(made) /\ v.own = x.own /\ v.got = x.got
    <3>1. j \in Nat \ {0}
      OBVIOUS
    <3> QED
      BY <1>3, <3>1, AfterType
  <2>4. cloud' = cloud /\ made' = made /\ undeleted' = undeleted
    BY DEF lab
  <2> QED
    BY <1>2, <1>5, <2>1, <2>2, <2>3, <2>4, QuietStep
<1>6. (UNCHANGED unsure /\ WorkType' /\ Owned' /\ Apart') \/ (Dies(n) /\ WorkType' /\ Owned' /\ Apart')
  <2>1. CASE Dies(n)
    BY <1>2, <2>1, DeadStep DEF lab
  <2>2. CASE Lookup(n, Name(n)) = {} /\ Did(n, 2) /\ UNCHANGED unsure
    <3>1. \A m \in machines : m.name # y
      BY <2>2, LookedUp
    <3>2. DidWith(n, 2, w)
      BY <2>2 DEF Did
    <3> QED
      BY <1>4, <1>5, <2>2, <3>1, <3>2
  <2>3. CASE \E m \in Lookup(n, Name(n)) : DidWith(n, 1, [work[n] EXCEPT !.seen = m.id]) /\ UNCHANGED unsure
    <3>1. PICK m \in Lookup(n, Name(n)) : DidWith(n, 1, [work[n] EXCEPT !.seen = m.id]) /\ UNCHANGED unsure
      BY <2>3
    <3> PICK i : i = m.id
      OBVIOUS
    <3> PICK x : x = [w EXCEPT !.seen = i]
      OBVIOUS
    <3>2. m \in machines /\ m.name = y
      BY LookedUp
    <3>3. Is(machines, i, y) /\ i \in 0..made
      BY <1>3, <3>2 DEF Is, MachineType
    <3>4. x \in WorkerType(made) /\ x.todo = w.todo /\ x.own = w.own /\ x.got = w.got /\ x.mine = w.mine /\ x.seen = i
      BY <1>4, <3>3 DEF WorkerType
    <3>5. DidWith(n, 1, x)
      BY <3>1
    <3>6. WorkType' /\ Owned' /\ Apart'
      <4>1. PICK j \in {1, 2} : j = 1
        OBVIOUS
      <4>2. DidWith(n, j, x) /\ (j = 1 => Is(machines, x.seen, y)) /\ (j = 2 => \A l \in machines : l.name # y)
        BY <3>3, <3>4, <3>5, <4>1
      <4> QED
        BY <1>5, <3>4, <4>2
    <3> QED
      BY <3>1, <3>6
  <2> QED
    BY <2>1, <2>2, <2>3
<1>7. GhostType'
  <2>1. Dies(n) => unsure' \in BOOLEAN
    BY DEF Dies, CloudInv, Types, GhostType
  <2> QED
    BY <1>6, <2>1, UnsureSame, GhostSame
<1> QED
  BY <1>2, <1>6, <1>7 DEF CloudInv, Types

\* delete_vm() removes the machine it found, which has the node's name.
LEMMA DeleteStep == ASSUME CloudInv, NEW n \in Nodes, DeleteCall(n) PROVE CloudInv'
<1> USE DEF DeleteCall
<1>1. Busy(n) /\ work[n].todo[1].op = "delete"
  BY DEF At
<1> PICK w : w = work[n]
  OBVIOUS
<1> PICK N : N = machines'
  OBVIOUS
<1> PICK V : V = undeleted'
  OBVIOUS
<1>2. /\ w \in WorkerType(made) /\ w.todo # <<>> /\ OwnedBy(machines, cloud, undeleted, n, w) /\ w.todo[1].op = "delete"
      /\ made \in Nat /\ machines \subseteq MachineType(made) /\ OneEach(machines) /\ N = {m \in machines : m.id # w.seen}
  BY <1>1, AtCall
<1>3. OwnedBy(N, cloud, V, n, After(w, 1)) /\ Is(machines, w.seen, n)
  <2>1. undeleted \subseteq V
    OBVIOUS
  <2> QED
    BY <1>2, <2>1, DeleteOwned
<1> PICK v : v = After(w, 1)
  OBVIOUS
<1>4. work' = [work EXCEPT ![n] = v]
  BY DEF Did, DidWith, After
<1>5. v \in WorkerType(made) /\ v.own = w.own /\ v.got = w.got
  <2>1. 1 \in Nat \ {0}
    OBVIOUS
  <2> QED
    BY <1>2, <2>1, AfterType
<1>6. made' = made /\ cloud' = cloud /\ undeleted \subseteq undeleted' /\ made <= made' /\ made' \in Nat
  BY <1>2 DEF lab
<1>7. \A k \in Nodes : k # n => \A i : Is(machines', i, k) <=> Is(machines, i, k)
  <2>1. PICK m \in machines : m.id = w.seen /\ m.name = n
    BY <1>3 DEF Is
  <2>2. \A l \in machines : l.id = w.seen => l.name = n
    BY <1>2, <2>1 DEF OneEach
  <2>3. \A l \in machines : l.name # n => l \in machines'
    BY <1>2, <2>2
  <2>4. machines' \subseteq machines
    BY <1>2
  <2> QED
    BY <2>3, <2>4 DEF Is
<1>8. machines' \subseteq MachineType(made') /\ \A m \in machines' : Is(machines, m.id, m.name) \/ m.id > made
  BY <1>2, <1>6 DEF Is
<1>9. WorkType' /\ Owned' /\ Apart'
  BY <1>3, <1>4, <1>5, <1>6, <1>7, <1>8, WorkerStep
<1>10. LabType' /\ AccountType' /\ GhostType'
  <2>1. GhostType'
    BY CloudVmsAssumption DEF CloudInv, Types, GhostType
  <2> QED
    BY <2>1, LabSame, AccountSame
<1>11. StockType'
  BY <1>2, <1>6, <1>8 DEF StockType, OneEach
<1> QED
  BY <1>9, <1>10, <1>11 DEF CloudInv, Types

\* A destruction that fails leaves the node out of what is promised elsewhere than on AWS.
LEMMA DestroyFailsStep == ASSUME CloudInv, NEW n \in Nodes, DestroyFails(n) PROVE CloudInv'
<1> USE DEF DestroyFails
<1>1. Busy(n)
  BY DEF Destroying
<1> PICK w : w = work[n]
  OBVIOUS
<1>2. /\ w \in WorkerType(made) /\ w.todo # <<>> /\ OwnedBy(machines, cloud, undeleted, n, w) /\ made \in Nat
  BY <1>1, AtCall
<1>3. HasDelete(w.todo)
  <2>1. DOMAIN w.todo = 1..Len(w.todo)
    BY <1>2, LenProperties DEF WorkerType
  <2> QED
    BY <2>1 DEF Destroying, HasDelete
<1>4. undeleted' = undeleted \cup {n}
  OBVIOUS
<1> PICK V : V = undeleted'
  OBVIOUS
<1>5. V = undeleted \cup {n}
  BY <1>4
<1> HIDE DEF DestroyFails
<1>6. /\ \E i \in 1..3 : w.todo[i].op = "delete"
      /\ \A j \in 1..3 : w.todo[j].op = "delete" => OwnedBy(machines, cloud, V, n, After(w, j))
  <2> PICK M, U, k, c : M = machines /\ U = undeleted /\ k = made /\ c = cloud
    OBVIOUS
  <2>1. k \in Nat /\ w \in WorkerType(k) /\ OwnedBy(M, c, U, n, w) /\ w.todo # <<>> /\ HasDelete(w.todo) /\ V = U \cup {n}
    BY <1>2, <1>3, <1>5
  <2>2. \E i \in 1..3 : w.todo[i].op = "delete"
    BY ONLY n \in Nodes, <2>1, UndeletedOwned
  <2>3. ASSUME NEW j \in 1..3, w.todo[j].op = "delete" PROVE OwnedBy(M, c, V, n, After(w, j))
    BY ONLY n \in Nodes, <2>1, <2>3, UndeletedOwned
  <2> QED
    BY <2>2, <2>3
<1> USE DEF DestroyFails
<1>7. PICK j \in 1..3 : w.todo[j].op = "delete" /\ Did(n, j)
  BY <1>6
<1>8. OwnedBy(machines, cloud, V, n, After(w, j))
  BY <1>6, <1>7
<1> PICK v : v = After(w, j)
  OBVIOUS
<1>9. work' = [work EXCEPT ![n] = v]
  BY <1>7 DEF Did, DidWith, After
<1>10. v \in WorkerType(made) /\ v.own = w.own /\ v.got = w.got
  <2>1. j \in Nat \ {0}
    OBVIOUS
  <2> QED
    BY <1>2, <2>1, AfterType
<1>11. LabType' /\ StockType' /\ NamesKept /\ machines' \subseteq MachineType(made) /\ AccountType'
  BY LabSame, StockSame, AccountSame DEF account
<1>12. GhostType'
  BY CloudVmsAssumption DEF CloudInv, Types, GhostType
<1>13. WorkType' /\ Owned' /\ Apart'
  <2>1. cloud' = cloud /\ made' = made /\ undeleted \subseteq undeleted'
    BY DEF lab
  <2> QED
    BY <1>8, <1>9, <1>10, <1>11, <2>1, QuietStep
<1> QED
  BY <1>11, <1>12, <1>13 DEF CloudInv, Types

\* A provider that makes a machine makes it under a new id, with the name the worker is at.
LEMMA MakingStock ==
    ASSUME CloudInv, NEW n \in Nodes, At(n, "create") \/ At(n, "create-off"), Making(n, At(n, "create"))
    PROVE  /\ made' = made + 1 /\ made' \in Nat /\ StockType'
           /\ \E r \in MachineType(made') : r.id = made' /\ r.name = work[n].todo[1].name /\ machines' = machines \cup {r}
           /\ \A k \in Nodes : k # n => \A i : Is(machines', i, k) <=> Is(machines, i, k)
           /\ \A m \in machines' : Is(machines, m.id, m.name) \/ m.id > made
<1>1. Busy(n) /\ work[n].todo[1].op \in Makes
  BY DEF At, Makes
<1>2. /\ work[n] \in WorkerType(made) /\ work[n].todo # <<>> /\ OwnedBy(machines, cloud, undeleted, n, work[n])
      /\ made \in Nat /\ machines \subseteq MachineType(made) /\ OneEach(machines)
  BY <1>1, AtCall
<1>3. Name(n) \in Shared \cup {n}
  <2> PICK M, U, k, c, w : M = machines /\ U = undeleted /\ k = made /\ c = cloud /\ w = work[n]
    OBVIOUS
  <2>1. k \in Nat /\ w \in WorkerType(k) /\ OwnedBy(M, c, U, n, w) /\ w.todo # <<>> /\ w.todo[1].op \in Makes
    BY <1>1, <1>2
  <2>2. \/ w.todo[1].name # n /\ w.todo[1].name \in Shared /\ Placed(n, w.todo) /\ w.got # 0
        \/ /\ w.todo[1].name = n /\ w.own = 0 /\ w.got = 0 /\ w.mine = {}
           /\ n \notin U => \A m \in M : m.name # n
           /\ Len(w.todo) # 1 /\ Made(n, SubSeq(w.todo, 2, Len(w.todo)))
    BY ONLY n \in Nodes, <2>1, MakerOwned
  <2> QED
    BY <2>2 DEF Name
<1>4. At(n, "create") \in BOOLEAN
  BY DEF At, Busy
<1> PICK on : on = At(n, "create")
  OBVIOUS
<1> DEFINE r == [id |-> made + 1, name |-> Name(n), on |-> on, data |-> on, addr |-> FALSE, up |-> FALSE]
<1>5. made' = made + 1 /\ machines' = machines \cup {r}
  BY DEF Making
<1>6. made' \in Nat /\ made + 1 \in 1..made'
  BY <1>2, <1>5
<1>7. r \in MachineType(made') /\ r.id = made' /\ r.id = made + 1 /\ r.name = Name(n)
  BY <1>3, <1>4, <1>5, <1>6 DEF MachineType
<1> HIDE DEF r
<1>8. machines' \subseteq MachineType(made')
  BY <1>2, <1>5, <1>7, GrownTypes
<1>9. \A m \in machines : m.id \in 1..made
  BY <1>2 DEF MachineType
<1>10. \A m \in machines : m.id # made + 1
  BY <1>2, <1>9
<1>11. OneEach(machines')
  BY <1>2, <1>5, <1>7, <1>10 DEF OneEach
<1>12. \A k \in Nodes : k # n => \A i : Is(machines', i, k) <=> Is(machines, i, k)
  BY <1>3, <1>5, <1>7, CloudVmsAssumption DEF Is
<1>13. \A m \in machines' : Is(machines, m.id, m.name) \/ m.id > made
  <2>1. made + 1 > made
    BY <1>2
  <2> QED
    BY <1>5, <1>7, <2>1 DEF Is
<1>14. StockType'
  BY <1>6, <1>8, <1>11 DEF StockType, OneEach
<1> QED
  BY <1>5, <1>6, <1>7, <1>12, <1>13, <1>14 DEF Name

\* Records and options name machines made before.
LEMMA AccountGrows == ASSUME CloudInv, UNCHANGED <<records, net>>, made' = made + 1 PROVE AccountType'
<1>1. 0..made \subseteq 0..made' /\ 1..made \subseteq 1..made'
  BY DEF CloudInv, Types, StockType
<1>2. records' = records /\ net' = net
  OBVIOUS
<1>3. \A r \in records : r[1] \in 1..made' /\ r[2] \in Nodes /\ r[3] \in 1..made'
  BY <1>1 DEF CloudInv, Types, AccountType
<1>4. net \in [attached : BOOLEAN, routed : BOOLEAN, dhcp : 0..made']
  BY <1>1 DEF CloudInv, Types, AccountType
<1> QED
  BY <1>2, <1>3, <1>4 DEF AccountType

\* A machine is made, and the worker goes on with it or has died.
LEMMA MakingStep ==
    ASSUME CloudInv, NEW n \in Nodes, At(n, "create") \/ At(n, "create-off"), Making(n, At(n, "create")), cloud' = cloud,
           undeleted' = undeleted,
           \/ work' = [work EXCEPT ![n] = Dead]
           \/ DidWith(n, 1, [work[n] EXCEPT !.seen = made + 1, !.mine = @ \cup {made + 1},
                                            !.own = IF Name(n) = n THEN made + 1 ELSE @])
    PROVE  WorkType' /\ Owned' /\ Apart'
<1>1. Busy(n) /\ work[n].todo[1].op \in Makes
  BY DEF At, Makes
<1> PICK w : w = work[n]
  OBVIOUS
<1>2. /\ w \in WorkerType(made) /\ w.todo # <<>> /\ OwnedBy(machines, cloud, undeleted, n, w)
      /\ made \in Nat /\ machines \subseteq MachineType(made) /\ w.todo[1].op \in Makes
  BY <1>1, AtCall
<1>3. /\ made' = made + 1 /\ made' \in Nat /\ StockType'
      /\ \E r \in MachineType(made') : r.id = made' /\ r.name = work[n].todo[1].name /\ machines' = machines \cup {r}
      /\ \A k \in Nodes : k # n => \A i : Is(machines', i, k) <=> Is(machines, i, k)
      /\ \A m \in machines' : Is(machines, m.id, m.name) \/ m.id > made
  BY MakingStock
<1> PICK N : N = machines'
  OBVIOUS
<1>4. PICK r \in MachineType(made + 1) : r.id = made + 1 /\ r.name = w.todo[1].name /\ N = machines \cup {r}
  BY <1>3
<1> DEFINE y == [w EXCEPT !.seen = made + 1, !.mine = @ \cup {made + 1}, !.own = IF Name(n) = n THEN made + 1 ELSE @]
<1>5. /\ y \in WorkerType(made + 1) /\ y.todo = w.todo /\ y.got = w.got /\ y.mine = w.mine \cup {made + 1}
      /\ y.own = IF w.todo[1].name = n THEN made + 1 ELSE w.own
  <2>1. w \in WorkerType(made + 1)
    BY <1>2, GrownTypes
  <2>2. made + 1 \in 0..(made + 1) /\ made + 1 \in 1..(made + 1)
    BY <1>2
  <2>3. Name(n) = w.todo[1].name
    BY DEF Name
  <2> PICK j : j = made + 1
    OBVIOUS
  <2>4. /\ w \in WorkerType(j) /\ j \in 0..j /\ j \in 1..j
        /\ y = [w EXCEPT !.seen = j, !.mine = @ \cup {j}, !.own = IF Name(n) = n THEN j ELSE @]
    BY <2>1, <2>2
  <2> HIDE DEF y
  <2> PICK o : o = IF Name(n) = n THEN j ELSE w.own
    OBVIOUS
  <2> PICK s : s = w.mine \cup {j}
    OBVIOUS
  <2>5. o \in 0..j /\ s \in SUBSET (1..j)
    BY <2>4 DEF WorkerType
  <2>6. y = [w EXCEPT !.seen = j, !.mine = s, !.own = o]
    BY <2>4
  <2>7. y = [todo |-> w.todo, seen |-> j, lack |-> w.lack, mine |-> s, own |-> o, got |-> w.got, dns |-> w.dns,
             end |-> w.end]
    BY <2>4, <2>6 DEF WorkerType
  <2>8. y \in WorkerType(j) /\ y.todo = w.todo /\ y.got = w.got /\ y.mine = s /\ y.own = o
    BY <2>4, <2>5, <2>7 DEF WorkerType
  <2> QED
    BY <2>3, <2>8
<1> PICK x : x = y
  OBVIOUS
<1> HIDE DEF y
<1>6. OwnedBy(N, cloud, undeleted, n, After(x, 1)) /\ OwnedBy(N, cloud, undeleted, n, Dead)
  <2>1. /\ x \in WorkerType(made + 1) /\ x.todo = w.todo /\ x.got = w.got /\ x.mine = w.mine \cup {made + 1}
        /\ x.own = IF w.todo[1].name = n THEN made + 1 ELSE w.own
    BY <1>5
  <2> PICK M, U, k, c : M = machines /\ U = undeleted /\ k = made /\ c = cloud
    OBVIOUS
  <2>2. /\ k \in Nat /\ w \in WorkerType(k) /\ OwnedBy(M, c, U, n, w) /\ w.todo # <<>> /\ w.todo[1].op \in Makes
        /\ M \subseteq MachineType(k) /\ r \in MachineType(k + 1) /\ r.id = k + 1 /\ r.name = w.todo[1].name
        /\ N = M \cup {r} /\ x \in WorkerType(k + 1) /\ x.todo = w.todo /\ x.got = w.got
        /\ x.mine = w.mine \cup {k + 1} /\ x.own = IF w.todo[1].name = n THEN k + 1 ELSE w.own
    BY <1>2, <1>4, <2>1
  <2>3. OwnedBy(N, c, U, n, After(x, 1))
    BY ONLY n \in Nodes, <2>2, CreateOwned
  <2>4. OwnedBy(N, c, U, n, Dead)
    BY ONLY n \in Nodes, <2>2, CreateOwned
  <2> QED
    BY <2>3, <2>4
<1>7. machines' \subseteq MachineType(made') /\ made <= made' /\ 1 \in Nat \ {0} /\ made + 1 \in Nat /\ made + 1 > made
  BY <1>2, <1>3 DEF StockType
<1>8. PICK v \in {Dead, After(x, 1)} : work' = [work EXCEPT ![n] = v]
  <2>1. CASE work' = [work EXCEPT ![n] = Dead]
    BY <2>1
  <2>2. CASE DidWith(n, 1, x)
    BY <2>2 DEF DidWith, After
  <2> QED
    BY <2>1, <2>2 DEF y
<1>9. v \in WorkerType(made') /\ (v.own = 0 \/ v.own = w.own \/ v.own > made) /\ (v.got = 0 \/ v.got = w.got)
  <2>1. CASE v = Dead
    BY <1>3, <2>1, DeadType
  <2>2. CASE v = After(x, 1)
    <3>1. v \in WorkerType(made + 1) /\ v.own = x.own /\ v.got = x.got
      BY <1>5, <1>7, <2>2, AfterType
    <3>2. x.own = made + 1 \/ x.own = w.own
      BY <1>5
    <3> QED
      BY <1>3, <1>5, <1>7, <3>1, <3>2
  <2> QED
    BY <2>1, <2>2
<1>10. OwnedBy(machines', cloud, undeleted', n, v)
  BY <1>6, <1>8
<1> QED
  BY <1>3, <1>7, <1>8, <1>9, <1>10, WorkerStep

\* create_vm() makes a machine, or the provider refuses a second of its name.
LEMMA CreateStep == ASSUME CloudInv, NEW n \in Nodes, CreateCall(n) PROVE CloudInv'
<1> USE DEF CreateCall
<1>1. Busy(n)
  BY DEF At
<1>2. LabType'
  BY LabSame
<1>3. CASE Find[cloud].refused /\ \E m \in machines : m.name = Name(n)
  <2>1. Dies(n) /\ UNCHANGED <<machines, made>>
    BY <1>3
  <2>2. StockType' /\ NamesKept /\ machines' \subseteq MachineType(made) /\ AccountType'
    BY <2>1, StockSame, AccountSame DEF account
  <2>3. WorkType' /\ Owned' /\ Apart' /\ unsure' \in BOOLEAN
    BY <2>1, <2>2, DeadStep DEF lab
  <2>4. GhostType'
    BY <2>3, GhostSame
  <2> QED
    BY <1>2, <2>2, <2>3, <2>4 DEF CloudInv, Types
<1>4. CASE ~(Find[cloud].refused /\ \E m \in machines : m.name = Name(n))
  <2>1. /\ Making(n, At(n, "create")) /\ UNCHANGED unsure
        /\ DidWith(n, 1, [work[n] EXCEPT !.seen = made + 1, !.mine = @ \cup {made + 1},
                                         !.own = IF Name(n) = n THEN made + 1 ELSE @])
    BY <1>4
  <2>2. WorkType' /\ Owned' /\ Apart'
    BY <2>1, MakingStep DEF lab
  <2>3. StockType' /\ made' = made + 1
    BY <2>1, MakingStock
  <2>4. AccountType' /\ GhostType'
    BY <2>1, <2>3, AccountGrows, UnsureSame, GhostSame DEF account
  <2> QED
    BY <1>2, <2>2, <2>3, <2>4 DEF CloudInv, Types
<1> QED
  BY <1>3, <1>4

\* A call fails, perhaps after the provider has made the machine.
LEMMA CallFailsStep == ASSUME CloudInv, NEW n \in Nodes, CallFails(n) PROVE CloudInv'
<1> USE DEF CallFails
<1>1. LabType' /\ Dies(n) /\ work' = [work EXCEPT ![n] = Dead]
  BY LabSame DEF Dies, Dead
<1>2. GhostType'
  <2>1. unsure' \in BOOLEAN
    BY <1>1 DEF Dies, CloudInv, Types, GhostType
  <2>2. faults' \in 0..MaxFaults /\ undeleted' \subseteq Nodes
    BY CloudVmsAssumption DEF CloudInv, Types, GhostType
  <2> QED
    BY <2>1, <2>2 DEF GhostType
<1>3. CASE UNCHANGED <<machines, made>>
  <2>1. StockType' /\ NamesKept /\ machines' \subseteq MachineType(made) /\ AccountType'
    BY <1>3, StockSame, AccountSame DEF account
  <2>2. WorkType' /\ Owned' /\ Apart'
    BY <1>1, <1>3, <2>1, DeadStep DEF lab
  <2> QED
    BY <1>1, <1>2, <2>1, <2>2 DEF CloudInv, Types
<1>4. CASE (At(n, "create") \/ At(n, "create-off")) /\ Making(n, At(n, "create"))
  <2>1. WorkType' /\ Owned' /\ Apart'
    BY <1>1, <1>4, MakingStep DEF lab
  <2>2. StockType' /\ made' = made + 1
    BY <1>4, MakingStock
  <2>3. AccountType'
    BY <2>2, AccountGrows DEF account
  <2> QED
    BY <1>1, <1>2, <2>1, <2>2, <2>3 DEF CloudInv, Types
<1> QED
  BY <1>3, <1>4

\* A machine is switched off or on, or boots: it is the same machine.
LEMMA SwitchStep ==
    ASSUME CloudInv, NEW m \in machines, NEW r \in MachineType(made), r.id = m.id, r.name = m.name,
           machines' = (machines \ {m}) \cup {r}, UNCHANGED <<lab, account, work, starts, made, undeleted>>,
           unsure' \in BOOLEAN, faults' \in 0..MaxFaults
    PROVE  CloudInv'
<1>1. made \in Nat /\ machines \subseteq MachineType(made) /\ OneEach(machines) /\ made' = made
  BY DEF CloudInv, Types, StockType
<1> PICK N : N = machines'
  OBVIOUS
<1>2. N = (machines \ {m}) \cup {r}
  OBVIOUS
<1>3. \A i, x : Is(N, i, x) <=> Is(machines, i, x)
  BY <1>2 DEF Is
<1>4. N \subseteq MachineType(made) /\ OneEach(N) /\ \A l \in N : Is(machines, l.id, l.name) \/ l.id > made
  <2>1. OneEach(N)
    BY <1>1, <1>2 DEF OneEach
  <2>2. N \subseteq MachineType(made)
    BY <1>1, <1>2
  <2> QED
    BY <1>2, <2>1, <2>2 DEF Is
<1>5. StockType' /\ LabType' /\ AccountType' /\ GhostType'
  <2>1. StockType'
    BY <1>1, <1>4 DEF StockType, OneEach
  <2>2. LabType' /\ AccountType'
    BY LabSame, AccountSame DEF account
  <2>3. GhostType'
    BY DEF CloudInv, Types, GhostType
  <2> QED
    BY <2>1, <2>2, <2>3
<1>6. Owned'
  <2> SUFFICES ASSUME NEW k \in Nodes PROVE OwnedBy(machines', cloud', undeleted', k, work'[k])
    BY DEF Owned
  <2>1. work[k] \in WorkerType(made) /\ OwnedBy(machines, cloud, undeleted, k, work[k])
    BY DEF CloudInv, Types, WorkType, Owned
  <2>2. \A i : Is(N, i, k) <=> Is(machines, i, k)
    BY <1>3
  <2>3. OwnedBy(N, cloud, undeleted, k, work[k])
    BY <1>1, <1>4, <2>1, <2>2, OthersOwned
  <2> QED
    BY <2>3 DEF lab
<1>7. WorkType' /\ Apart'
  BY DEF CloudInv, Types, WorkType, Apart
<1> QED
  BY <1>5, <1>6, <1>7 DEF CloudInv, Types

\* vm_power.py stops a machine.
LEMMA PowerOffStep == ASSUME CloudInv, NEW x \in Nodes \cup Shared, PowerOff(x) PROVE CloudInv'
<1> USE DEF PowerOff
<1>1. PICK m \in machines : machines' = (machines \ {m}) \cup {[m EXCEPT !.on = FALSE, !.up = FALSE]}
  OBVIOUS
<1> PICK r : r = [m EXCEPT !.on = FALSE, !.up = FALSE]
  OBVIOUS
<1>2. m \in MachineType(made) /\ machines' = (machines \ {m}) \cup {r}
  BY <1>1 DEF CloudInv, Types, StockType
<1>3. r \in MachineType(made) /\ r.id = m.id /\ r.name = m.name
  BY <1>2 DEF MachineType
<1>4. unsure' \in BOOLEAN /\ faults' \in 0..MaxFaults
  <2>1. unsure \in BOOLEAN /\ faults \in 0..MaxFaults
    BY DEF CloudInv, Types, GhostType
  <2>2. faults' \in 0..MaxFaults
    BY <2>1, CloudVmsAssumption
  <2>3. unsure' \in BOOLEAN
    BY <2>1
  <2> QED
    BY <2>2, <2>3
<1> QED
  BY <1>2, <1>3, <1>4, SwitchStep

\* vm_power.py starts it again.
LEMMA PowerOnStep == ASSUME CloudInv, NEW x \in Nodes \cup Shared, PowerOn(x) PROVE CloudInv'
<1> USE DEF PowerOn
<1>1. PICK m \in machines : machines' = (machines \ {m}) \cup {[m EXCEPT !.on = TRUE]}
  OBVIOUS
<1> PICK r : r = [m EXCEPT !.on = TRUE]
  OBVIOUS
<1>2. m \in MachineType(made) /\ machines' = (machines \ {m}) \cup {r}
  BY <1>1 DEF CloudInv, Types, StockType
<1>3. r \in MachineType(made) /\ r.id = m.id /\ r.name = m.name
  BY <1>2 DEF MachineType
<1>4. unsure' \in BOOLEAN /\ faults' \in 0..MaxFaults /\ UNCHANGED undeleted
  BY DEF CloudInv, Types, GhostType, ghosts
<1> QED
  BY <1>2, <1>3, <1>4, SwitchStep

\* A machine gets its address, or comes up.
LEMMA BootsStep == ASSUME CloudInv, NEW m \in machines, Boots(m) PROVE CloudInv'
<1> USE DEF Boots
<1>1. m \in MachineType(made)
  BY DEF CloudInv, Types, StockType
<1>2. m.addr \in BOOLEAN
  BY <1>1 DEF MachineType
<1> PICK b : b = m.addr
  OBVIOUS
<1> PICK r : r = [m EXCEPT !.addr = TRUE, !.up = b]
  OBVIOUS
<1>3. machines' = (machines \ {m}) \cup {r}
  OBVIOUS
<1>4. r \in MachineType(made) /\ r.id = m.id /\ r.name = m.name
  BY <1>1, <1>2 DEF MachineType
<1>5. unsure' \in BOOLEAN /\ faults' \in 0..MaxFaults /\ UNCHANGED undeleted
  BY DEF CloudInv, Types, GhostType, ghosts
<1> QED
  BY <1>3, <1>4, <1>5, SwitchStep

(***************************************************************************)
(* The theorems                                                            *)
(***************************************************************************)
LEMMA Initially == ASSUME Init PROVE CloudInv
<1>1. LabType
  <2>1. PICK l \in Labs : cloud = l.cloud /\ mode = l.mode /\ overlay = l.overlay /\ starts = l.starts
    BY DEF Init
  <2>2. l.starts \in Nat
    BY CloudVmsAssumption
  <2> QED
    BY <2>1, <2>2 DEF LabType
<1>2. StockType /\ AccountType /\ GhostType
  <2>1. StockType
    BY DEF Init, StockType, OneEach
  <2>2. AccountType
    BY DEF Init, AccountType
  <2>3. GhostType
    <3>1. undeleted = {} /\ unsure = FALSE /\ faults = 0
      BY DEF Init
    <3>2. 0 \in 0..MaxFaults
      BY CloudVmsAssumption
    <3>3. unsure \in BOOLEAN
      BY <3>1
    <3> QED
      BY <3>1, <3>2, <3>3 DEF GhostType
  <2> QED
    BY <2>1, <2>2, <2>3
<1>3. Idle \in WorkerType(made) /\ Idle.todo = <<>> /\ Idle.own = 0 /\ Idle.got = 0
  <2>1. <<>> \in Seq(Calls)
    BY EmptySeq
  <2>2. made = 0 /\ 0 \in 0..made
    BY DEF Init
  <2> QED
    BY <2>1, <2>2 DEF Idle, WorkerType
<1>4. WorkType /\ \A n \in Nodes : work[n] = Idle
  BY <1>3 DEF WorkType, Init
<1>5. Owned
  <2> SUFFICES ASSUME NEW n \in Nodes PROVE OwnedBy(machines, cloud, undeleted, n, work[n])
    BY DEF Owned
  <2>1. machines = {} /\ work[n].todo = <<>> /\ work[n].got = 0
    BY <1>3, <1>4 DEF Init
  <2> QED
    BY <2>1, EmptyTodo DEF OwnedBy, Phases, Kept
<1>6. Apart
  BY <1>3, <1>4 DEF Apart
<1> QED
  BY <1>1, <1>2, <1>4, <1>5, <1>6 DEF CloudInv, Types

\* A step of something else.
LEMMA Stutter == ASSUME CloudInv, UNCHANGED vars PROVE CloudInv'
<1>1. LabType' /\ StockType' /\ AccountType'
  BY LabSame, StockSame, AccountSame DEF vars, lab
<1>2. GhostType'
  BY DEF CloudInv, Types, GhostType, vars
<1>3. WorkType' /\ Owned' /\ Apart'
  BY DEF CloudInv, Types, WorkType, Owned, Apart, vars
<1> QED
  BY <1>1, <1>2, <1>3 DEF CloudInv, Types

\* Every worker's calls are what is left of destroy_vm() and provision_vm() (setup_vm.py:190-285),
\* whatever fails in between: before the machine of its node is made it knows none, and when nothing is
\* left to remove no machine of the name is there; after, it is told the address of the machine it made.
THEOREM CloudInvariant == Spec => []CloudInv
<1>1. Init => CloudInv
  BY Initially
<1>2. CloudInv /\ [Next]_vars => CloudInv'
  <2> SUFFICES ASSUME CloudInv, [Next]_vars PROVE CloudInv'
    OBVIOUS
  <2>1. ASSUME NEW n \in Nodes, Step(n) PROVE CloudInv'
    BY <2>1, UnregisterStep, FindStep, DeleteStep, CreateStep, SetUpStep, AddressStep, ReadyStep, ReuseStep, RegisterStep,
       NoEffectStep, NetLookStep, NetCallStep, AddRulesStep, PutRulesStep DEF Step
  <2>2. ASSUME NEW n \in Nodes, Start(n) \/ DestroyFails(n) \/ CallFails(n) \/ RecordLost(n) PROVE CloudInv'
    BY <2>2, StartStep, DestroyFailsStep, CallFailsStep, RecordLostStep
  <2>3. ASSUME NEW x \in Nodes \cup Shared, PowerOff(x) \/ PowerOn(x) PROVE CloudInv'
    BY <2>3, PowerOffStep, PowerOnStep
  <2>4. ASSUME NEW m \in machines, Boots(m) PROVE CloudInv'
    BY <2>4, BootsStep
  <2>5. CASE UNCHANGED vars
    BY <2>5, Stutter
  <2> QED
    BY <2>1, <2>2, <2>3, <2>4, <2>5 DEF Next
<1> QED
  BY <1>1, <1>2, PTL DEF Spec

\* Machines, workers and records refer to machines that were made, and no two machines are one.
LEMMA TypesHold == CloudInv => TypeOK
<1> SUFFICES ASSUME CloudInv PROVE TypeOK
  OBVIOUS
<1>1. LabType /\ StockType /\ WorkType /\ AccountType /\ GhostType
  BY DEF CloudInv, Types
<1>2. \E l \in Labs : cloud = l.cloud /\ mode = l.mode /\ overlay = l.overlay /\ starts \in 0..l.starts
  BY <1>1 DEF LabType
<1>3. \A m \in machines : m.id \in 1..made /\ m.name \in Nodes \cup Shared
  BY <1>1 DEF StockType, MachineType
<1>4. \A m1, m2 \in machines : m1.id = m2.id => m1 = m2
  BY <1>1 DEF StockType, OneEach
<1>5. \A n \in Nodes : /\ work[n].end \in {"none", "ok", "failed"}
                       /\ {work[n].seen, work[n].own, work[n].got, work[n].dns} \cup work[n].mine \subseteq 0..made
  <2> SUFFICES ASSUME NEW n \in Nodes
               PROVE  /\ work[n].end \in {"none", "ok", "failed"}
                      /\ {work[n].seen, work[n].own, work[n].got, work[n].dns} \cup work[n].mine \subseteq 0..made
    OBVIOUS
  <2>1. work[n] \in WorkerType(made)
    BY <1>1 DEF WorkType
  <2>2. 1..made \subseteq 0..made
    BY <1>1 DEF StockType
  <2>3. /\ work[n].seen \in 0..made /\ work[n].own \in 0..made /\ work[n].got \in 0..made /\ work[n].dns \in 0..made
        /\ work[n].mine \subseteq 1..made /\ work[n].end \in {"none", "ok", "failed"}
    BY <2>1 DEF WorkerType
  <2> QED
    BY <2>2, <2>3
<1>6. /\ \A r \in records : r[1] \in 1..made /\ r[2] \in Nodes /\ r[3] \in 1..made
      /\ net.dhcp \in 0..made
  BY <1>1 DEF AccountType
<1>7. undeleted \subseteq Nodes /\ unsure \in BOOLEAN /\ faults \in 0..MaxFaults
  BY <1>1 DEF GhostType
<1> QED
  BY <1>2, <1>3, <1>4, <1>5, <1>6, <1>7 DEF TypeOK

\* Machines, workers and records refer to machines that were made, and no two machines are one: an id
\* that create_vm() keeps is never another machine's.
THEOREM CloudTypeCorrect == Spec => []TypeOK
  BY CloudInvariant, TypesHold, PTL

\* provision_vm() (setup_vm.py:205-209) puts into the lab definition and into DNS the address of the
\* machine it made, and no two nodes are given the same machine: for any number of nodes, labs and
\* failures, with workers taking turns or not; elsewhere than on AWS, for a node whose destruction never failed.
THEOREM AddressIsOwn == Spec => []OwnAddress
<1>1. CloudInv => OwnAddress
  <2> SUFFICES ASSUME CloudInv, NEW n \in Nodes, work[n].got # 0, cloud = "aws" \/ n \notin undeleted
               PROVE  work[n].got = work[n].own /\ \A k \in Nodes \ {n} : work[k].got # work[n].got
    BY TypesHold DEF OwnAddress
  <2>1. cloud = "aws" => Find[cloud].kept
    BY DEF Find, AWSFind
  <2>2. work[n].got = work[n].own /\ work[n].own # 0
    BY <2>1 DEF CloudInv, Owned, OwnedBy, Kept
  <2> QED
    BY <2>2 DEF CloudInv, Apart
<1> QED
  BY <1>1, CloudInvariant, PTL

(***************************************************************************)
(* One machine of a shared name                                            *)
(***************************************************************************)
\* A shared machine is made once by a worker, and not after it was waited for.
OneMaking(s) ==
    \A i, j \in 1..Len(s) : i < j /\ s[j].op \in Makes /\ s[j].name \in Shared =>
        ~(s[i].op \in Makes \cup {"ready"} /\ s[i].name = s[j].name)
\* No other shared machine is looked up before the one that is used as it is was to be ready.
NoneBetween(s) ==
    \A i, j, k \in 1..Len(s) : i < j /\ j < k /\ s[i].op = "reuse" /\ s[k] = Call("ready", s[i].name) => s[j].op # "reuse"
\* What a look-up may pass over is there, and is no look-up of a shared machine; nor is what comes before
\* a "delete".
LooksWhole(s) ==
    \A i \in 1..Len(s) :
        /\ s[i].op \in {"gateway?", "dhcp?"} =>
              i + 1 \in 1..Len(s) /\ i + 2 \in 1..Len(s) /\ s[i + 1].op # "reuse" /\ s[i + 2].op # "reuse"
        /\ s[i].op \in {"route?", "find"} => i + 1 \in 1..Len(s) /\ s[i + 1].op # "reuse"
DeleteBefore(s) == \A i, j \in 1..Len(s) : i < j /\ s[j].op = "delete" => s[i].op # "reuse"
Orderly(s) == OneMaking(s) /\ NoneBetween(s) /\ LooksWhole(s) /\ DeleteBefore(s)

\* No shared machine is made but after a look-up, or when there is none of its name in M.
Sought(s, i) == \E j \in 1..(i - 1) : s[j] = Call("reuse", s[i].name)
Fenced(M, s) ==
    \A i \in 1..Len(s) : s[i].op \in Makes /\ s[i].name \in Shared => Sought(s, i) \/ \A m \in M : m.name # s[i].name
Guarded(s) == \A i \in 1..Len(s) : s[i].op \in Makes /\ s[i].name \in Shared => Sought(s, i)

\* Calls that are no part of the use of a shared machine, or that make z among others of the kind.
Calm(s) == s \in Seq(Calls) /\ LooksWhole(s) /\ \A i \in 1..Len(s) : s[i].op \notin {"reuse", "ready", "delete"}
Makeless(s) == \A i \in 1..Len(s) : s[i].op \notin Makes
OneMade(s, z) == \E k \in 1..Len(s) : \A i \in 1..Len(s) : s[i].op \in Makes => i = k /\ s[i].name = z

\* A part of a worker's calls, with what it does to the shared machines of X.
Segment(s, X) ==
    /\ s \in Seq(Calls) /\ Orderly(s) /\ Guarded(s) /\ ~HasDelete(s)
    /\ \A i \in 1..Len(s) : /\ s[i].op \in Makes => s[i].name \in Nodes \cup X
                            /\ s[i].op \in {"reuse", "ready"} => s[i].name \in X

\* The calls of two sequences, one after the other.
LEMMA Joined ==
    ASSUME NEW s \in Seq(Calls), NEW t \in Seq(Calls), NEW u, u = s \o t
    PROVE  /\ u \in Seq(Calls) /\ Len(s) \in Nat /\ Len(t) \in Nat /\ Len(u) = Len(s) + Len(t)
           /\ \A i \in 1..Len(s) : i \in 1..Len(u) /\ u[i] = s[i]
           /\ \A i \in 1..Len(t) : i + Len(s) \in 1..Len(u) /\ u[i + Len(s)] = t[i]
           /\ \A i \in 1..Len(u) : i \in 1..Len(s) \/ i - Len(s) \in 1..Len(t)
           /\ \A i \in 1..Len(u) : i - Len(s) \in 1..Len(t) => u[i] = t[i - Len(s)]
<1>1. /\ u \in Seq(Calls) /\ Len(s) \in Nat /\ Len(t) \in Nat /\ Len(u) = Len(s) + Len(t)
      /\ \A i \in 1..Len(s) + Len(t) : u[i] = IF i <= Len(s) THEN s[i] ELSE t[i - Len(s)]
  BY ConcatProperties, LenProperties
<1>2. \A i \in 1..Len(s) : i \in 1..Len(u) /\ u[i] = s[i]
  BY <1>1
<1>3. ASSUME NEW i \in 1..Len(t) PROVE i + Len(s) \in 1..Len(u) /\ u[i + Len(s)] = t[i]
  <2>1. i + Len(s) \in 1..Len(s) + Len(t) /\ ~(i + Len(s) <= Len(s)) /\ (i + Len(s)) - Len(s) = i
    BY <1>1
  <2> QED
    BY <1>1, <2>1
<1>4. \A i \in 1..Len(u) : i \in 1..Len(s) \/ i - Len(s) \in 1..Len(t)
  BY <1>1
<1>5. \A i \in 1..Len(u) : i - Len(s) \in 1..Len(t) => u[i] = t[i - Len(s)]
  BY <1>1
<1> QED
  BY <1>1, <1>2, <1>3, <1>4, <1>5

\* What look-ups may pass over is still there with more calls before or after.
LEMMA WholeConcat ==
    ASSUME NEW s \in Seq(Calls), NEW t \in Seq(Calls), LooksWhole(s), LooksWhole(t) PROVE LooksWhole(s \o t)
<1> PICK u : u = s \o t
  OBVIOUS
<1>1. /\ Len(s) \in Nat /\ Len(t) \in Nat /\ Len(u) = Len(s) + Len(t)
      /\ \A i \in 1..Len(s) : i \in 1..Len(u) /\ u[i] = s[i]
      /\ \A i \in 1..Len(t) : i + Len(s) \in 1..Len(u) /\ u[i + Len(s)] = t[i]
      /\ \A i \in 1..Len(u) : i \in 1..Len(s) \/ i - Len(s) \in 1..Len(t)
      /\ \A i \in 1..Len(u) : i - Len(s) \in 1..Len(t) => u[i] = t[i - Len(s)]
  BY Joined
<1> SUFFICES ASSUME NEW i \in 1..Len(u)
             PROVE  /\ u[i].op \in {"gateway?", "dhcp?"} =>
                          i + 1 \in 1..Len(u) /\ i + 2 \in 1..Len(u) /\ u[i + 1].op # "reuse" /\ u[i + 2].op # "reuse"
                    /\ u[i].op \in {"route?", "find"} => i + 1 \in 1..Len(u) /\ u[i + 1].op # "reuse"
  BY DEF LooksWhole
<1>2. CASE i \in 1..Len(s)
  <2>1. u[i] = s[i]
    BY <1>1, <1>2
  <2>2. \A j \in 1..Len(s) : j \in 1..Len(u) /\ u[j] = s[j]
    BY <1>1
  <2> QED
    BY <1>2, <2>1, <2>2 DEF LooksWhole
<1>3. CASE i - Len(s) \in 1..Len(t)
  <2>1. u[i] = t[i - Len(s)]
    BY <1>1, <1>3
  <2> PICK k : k = i - Len(s)
    OBVIOUS
  <2>2. k \in 1..Len(t) /\ (k + 1) + Len(s) = i + 1 /\ (k + 2) + Len(s) = i + 2
    BY <1>1, <1>3
  <2>3. k + 1 \in 1..Len(t) => i + 1 \in 1..Len(u) /\ u[i + 1] = t[k + 1]
    <3>1. k + 1 \in 1..Len(t) => (k + 1) + Len(s) \in 1..Len(u) /\ u[(k + 1) + Len(s)] = t[k + 1]
      BY <1>1
    <3> QED
      BY <2>2, <3>1
  <2>4. k + 2 \in 1..Len(t) => i + 2 \in 1..Len(u) /\ u[i + 2] = t[k + 2]
    <3>1. k + 2 \in 1..Len(t) => (k + 2) + Len(s) \in 1..Len(u) /\ u[(k + 2) + Len(s)] = t[k + 2]
      BY <1>1
    <3> QED
      BY <2>2, <3>1
  <2> QED
    BY <2>1, <2>2, <2>3, <2>4 DEF LooksWhole
<1> QED
  BY <1>1, <1>2, <1>3

\* Two sequences of which the second makes no shared machine that the first makes or waits for, waits for
\* none that the first looks up, and deletes nothing.
LEMMA OrderlyConcat ==
    ASSUME NEW s \in Seq(Calls), NEW t \in Seq(Calls), Orderly(s), Orderly(t), ~HasDelete(t),
           \A i \in 1..Len(s), j \in 1..Len(t) :
              /\ s[i].op \in Makes \cup {"ready"} /\ t[j].op \in Makes /\ t[j].name \in Shared => s[i].name # t[j].name
              /\ s[i].op = "reuse" /\ t[j].op = "ready" => s[i].name # t[j].name
    PROVE  Orderly(s \o t)
<1> PICK u : u = s \o t
  OBVIOUS
<1>1. /\ Len(s) \in Nat /\ Len(t) \in Nat /\ Len(u) = Len(s) + Len(t)
      /\ \A i \in 1..Len(s) : i \in 1..Len(u) /\ u[i] = s[i]
      /\ \A i \in 1..Len(u) : i \in 1..Len(s) \/ i - Len(s) \in 1..Len(t)
      /\ \A i \in 1..Len(u) : i - Len(s) \in 1..Len(t) => u[i] = t[i - Len(s)]
  BY Joined
<1>2. LooksWhole(u)
  BY WholeConcat DEF Orderly
<1>3. ASSUME NEW i \in 1..Len(u), NEW j \in 1..Len(u), i < j
      PROVE  \/ i \in 1..Len(s) /\ j \in 1..Len(s) /\ u[i] = s[i] /\ u[j] = s[j]
             \/ i \in 1..Len(s) /\ j - Len(s) \in 1..Len(t) /\ u[i] = s[i] /\ u[j] = t[j - Len(s)]
             \/ /\ i - Len(s) \in 1..Len(t) /\ j - Len(s) \in 1..Len(t) /\ i - Len(s) < j - Len(s)
                /\ u[i] = t[i - Len(s)] /\ u[j] = t[j - Len(s)]
  <2>1. CASE i \in 1..Len(s)
    BY <1>1, <2>1
  <2>2. CASE i - Len(s) \in 1..Len(t)
    <3>1. j - Len(s) \in 1..Len(t) /\ i - Len(s) < j - Len(s)
      BY <1>1, <1>3, <2>2
    <3> QED
      BY <1>1, <2>2, <3>1
  <2> QED
    BY <1>1, <2>1, <2>2
<1>4. ASSUME NEW i \in 1..Len(u), NEW j \in 1..Len(u), i < j, u[j].op \in Makes, u[j].name \in Shared,
             u[i].op \in Makes \cup {"ready"}, u[i].name = u[j].name
      PROVE  FALSE
  <2>1. CASE i \in 1..Len(s) /\ j \in 1..Len(s) /\ u[i] = s[i] /\ u[j] = s[j]
    BY <1>4, <2>1 DEF Orderly, OneMaking
  <2>2. CASE i \in 1..Len(s) /\ j - Len(s) \in 1..Len(t) /\ u[i] = s[i] /\ u[j] = t[j - Len(s)]
    BY <1>4, <2>2
  <2>3. CASE /\ i - Len(s) \in 1..Len(t) /\ j - Len(s) \in 1..Len(t) /\ i - Len(s) < j - Len(s)
             /\ u[i] = t[i - Len(s)] /\ u[j] = t[j - Len(s)]
    BY <1>4, <2>3 DEF Orderly, OneMaking
  <2> QED
    BY <1>3, <1>4, <2>1, <2>2, <2>3
<1>5. ASSUME NEW i \in 1..Len(u), NEW j \in 1..Len(u), NEW k \in 1..Len(u), i < j, j < k,
             u[i].op = "reuse", u[k] = Call("ready", u[i].name), u[j].op = "reuse"
      PROVE  FALSE
  <2>1. CASE k \in 1..Len(s)
    <3>1. i \in 1..Len(s) /\ j \in 1..Len(s)
      BY <1>1, <1>5, <2>1
    <3>2. u[i] = s[i] /\ u[j] = s[j] /\ u[k] = s[k]
      BY <1>1, <2>1, <3>1
    <3> QED
      BY <1>5, <2>1, <3>1, <3>2 DEF Orderly, NoneBetween
  <2>2. CASE i \in 1..Len(s) /\ k - Len(s) \in 1..Len(t)
    <3>1. u[i] = s[i] /\ u[k] = t[k - Len(s)]
      BY <1>1, <2>2
    <3>2. u[k].op = "ready" /\ u[k].name = u[i].name
      BY <1>5 DEF Call
    <3> QED
      BY <1>5, <2>2, <3>1, <3>2
  <2>3. CASE i - Len(s) \in 1..Len(t) /\ k - Len(s) \in 1..Len(t)
    <3>1. j - Len(s) \in 1..Len(t) /\ i - Len(s) < j - Len(s) /\ j - Len(s) < k - Len(s)
      <4>1. Len(s) \in Nat /\ Len(t) \in Nat /\ i \in Int /\ j \in Int /\ k \in Int /\ i < j /\ j < k
        BY <1>1, <1>5
      <4> QED
        BY ONLY <2>3, <4>1
    <3>2. u[i] = t[i - Len(s)] /\ u[j] = t[j - Len(s)] /\ u[k] = t[k - Len(s)]
      BY <1>1, <2>3, <3>1
    <3> QED
      BY <1>5, <2>3, <3>1, <3>2 DEF Orderly, NoneBetween
  <2> QED
    BY <1>1, <2>1, <2>2, <2>3
<1>6. ASSUME NEW i \in 1..Len(u), NEW j \in 1..Len(u), i < j, u[j].op = "delete", u[i].op = "reuse" PROVE FALSE
  <2>1. CASE i \in 1..Len(s) /\ j \in 1..Len(s) /\ u[i] = s[i] /\ u[j] = s[j]
    BY <1>6, <2>1 DEF Orderly, DeleteBefore
  <2>2. CASE j - Len(s) \in 1..Len(t) /\ u[j] = t[j - Len(s)]
    BY <1>6, <2>2 DEF HasDelete
  <2> QED
    BY <1>3, <1>6, <2>1, <2>2
<1>7. OneMaking(u) /\ NoneBetween(u) /\ DeleteBefore(u)
  BY <1>4, <1>5, <1>6 DEF OneMaking, NoneBetween, DeleteBefore
<1> QED
  BY <1>2, <1>7 DEF Orderly

\* Calm calls after calm ones are calm, and make what the second make when the first make nothing.
LEMMA CalmConcat ==
    ASSUME NEW s, NEW t, Calm(s), Calm(t), Makeless(s)
    PROVE  /\ Calm(s \o t)
           /\ Makeless(t) => Makeless(s \o t)
           /\ \A z : OneMade(t, z) => OneMade(s \o t, z)
<1>1. s \in Seq(Calls) /\ t \in Seq(Calls)
  BY DEF Calm
<1> PICK u : u = s \o t
  OBVIOUS
<1>2. /\ u \in Seq(Calls) /\ Len(s) \in Nat
      /\ \A i \in 1..Len(s) : i \in 1..Len(u) /\ u[i] = s[i]
      /\ \A i \in 1..Len(t) : i + Len(s) \in 1..Len(u) /\ u[i + Len(s)] = t[i]
      /\ \A i \in 1..Len(u) : i \in 1..Len(s) \/ i - Len(s) \in 1..Len(t)
      /\ \A i \in 1..Len(u) : i - Len(s) \in 1..Len(t) => u[i] = t[i - Len(s)]
  BY <1>1, Joined
<1>3. Calm(u)
  <2>1. LooksWhole(u)
    BY <1>1, WholeConcat DEF Calm
  <2> QED
    BY <1>2, <2>1 DEF Calm
<1>4. Makeless(t) => Makeless(u)
  BY <1>2 DEF Makeless
<1>5. ASSUME NEW z, OneMade(t, z) PROVE OneMade(u, z)
  <2>1. PICK k \in 1..Len(t) : \A i \in 1..Len(t) : t[i].op \in Makes => i = k /\ t[i].name = z
    BY <1>5 DEF OneMade
  <2>2. k + Len(s) \in 1..Len(u)
    BY <1>2
  <2>3. ASSUME NEW i \in 1..Len(u), u[i].op \in Makes PROVE i = k + Len(s) /\ u[i].name = z
    <3>1. i \notin 1..Len(s)
      BY <1>2, <2>3 DEF Makeless
    <3>2. i - Len(s) \in 1..Len(t) /\ u[i] = t[i - Len(s)]
      BY <1>2, <3>1
    <3>3. i - Len(s) = k /\ u[i].name = z
      BY <2>1, <2>3, <3>2
    <3> QED
      BY <1>2, <3>3
  <2> QED
    BY <2>2, <2>3 DEF OneMade
<1> QED
  BY <1>3, <1>4, <1>5

\* Calls that are neither look-ups nor make a machine.
Quiet == CallOps \ (Makes \cup {"reuse", "ready", "delete", "gateway?", "dhcp?", "route?", "find"})
\* Parts of such calls alone look up no machine.
LEMMA QuietCalm ==
    ASSUME NEW s \in Seq(Calls), \A i \in 1..Len(s) : s[i].op \in Quiet PROVE Calm(s) /\ Makeless(s)
  BY DEF Quiet, Calm, Makeless, LooksWhole

\* The calls of the model.
LEMMA AnyCall ==
    ASSUME NEW op \in CallOps, NEW x \in Nodes \cup Shared \cup {"vpc", "ssh", "internal"}
    PROVE  Call(op, x) \in Calls /\ Call(op, x).op = op /\ Call(op, x).name = x
  BY DEF Call, Calls

\* The rules of a machine, and the network's way out, on AWS.
LEMMA CalmNet ==
    /\ Calm(InternetGateway) /\ Makeless(InternetGateway)
    /\ \A x \in Nodes \cup Shared : Calm(SecurityGroup(x)) /\ Makeless(SecurityGroup(x))
<1>1. Calm(InternetGateway) /\ Makeless(InternetGateway)
  <2> PICK s : s = InternetGateway
    OBVIOUS
  <2>1. /\ s \in Seq(Calls) /\ Len(s) = 5 /\ s[1].op = "gateway?" /\ s[2].op = "make-gateway" /\ s[3].op = "attach-gateway"
        /\ s[4].op = "route?" /\ s[5].op = "add-route"
    BY DEF InternetGateway, Calls, Call, CallOps, NetOps
  <2>2. \A i \in 1..Len(s) : i = 1 \/ i = 2 \/ i = 3 \/ i = 4 \/ i = 5
    BY <2>1
  <2>3. LooksWhole(s)
    <3>1. /\ 1 + 1 \in 1..Len(s) /\ 1 + 2 \in 1..Len(s) /\ 4 + 1 \in 1..Len(s) /\ s[1 + 1] = s[2] /\ s[1 + 2] = s[3]
          /\ s[4 + 1] = s[5]
      BY <2>1
    <3> QED
      BY <2>1, <2>2, <3>1 DEF LooksWhole
  <2>4. \A i \in 1..Len(s) : s[i].op \notin {"reuse", "ready", "delete"} \cup Makes
    BY <2>1, <2>2 DEF Makes
  <2> QED
    BY <2>1, <2>3, <2>4 DEF Calm, Makeless
<1>2. ASSUME NEW x \in Nodes \cup Shared PROVE Calm(SecurityGroup(x)) /\ Makeless(SecurityGroup(x))
  <2> PICK s : s = SecurityGroup(x)
    OBVIOUS
  <2>1. s \in Seq(Calls) /\ Len(s) = 3 /\ s[1].op = "rules?" /\ s[2].op = "rule" /\ s[3].op = "rule"
    BY DEF SecurityGroup, Calls, Call, CallOps, NetOps
  <2>2. \A i \in 1..Len(s) : i = 1 \/ i = 2 \/ i = 3
    BY <2>1
  <2>3. \A i \in 1..Len(s) : s[i].op \in Quiet
    BY <2>1, <2>2 DEF Quiet, CallOps, NetOps, Makes
  <2> QED
    BY <2>1, <2>3, QuietCalm
<1> QED
  BY <1>1, <1>2

\* create_vm() makes one machine, of the name it was asked for.
LEMMA CalmCreate ==
    ASSUME NEW z \in Nodes \cup Shared, NEW c \in Providers PROVE Calm(Create(c, z)) /\ OneMade(Create(c, z), z)
<1>1. ASSUME NEW s, s = <<Call("create", z), Call("address", z)>> PROVE Calm(s) /\ OneMade(s, z)
  <2>1. s \in Seq(Calls) /\ Len(s) = 2 /\ s[1].op = "create" /\ s[1].name = z /\ s[2].op = "address"
    BY <1>1 DEF Calls, Call, CallOps, Makes, LaterOps
  <2>2. 1 \in 1..Len(s) /\ \A i \in 1..Len(s) : i = 1 \/ i = 2
    BY <2>1
  <2> QED
    BY <2>1, <2>2 DEF Calm, OneMade, LooksWhole, Makes
<1>2. Calm(ScalewayCreate(z)) /\ OneMade(ScalewayCreate(z), z)
  <2> PICK s : s = ScalewayCreate(z)
    OBVIOUS
  <2>1. /\ s \in Seq(Calls) /\ Len(s) = 4 /\ s[1].op = "create-off" /\ s[1].name = z /\ s[2].op = "user-data"
        /\ s[3].op = "power-on" /\ s[4].op = "address"
    BY DEF ScalewayCreate, Calls, Call, CallOps, Makes, LaterOps
  <2>2. 1 \in 1..Len(s) /\ \A i \in 1..Len(s) : i = 1 \/ i = 2 \/ i = 3 \/ i = 4
    BY <2>1
  <2> QED
    BY <2>1, <2>2 DEF Calm, OneMade, LooksWhole, Makes
<1>3. Calm(AWSCreate(z)) /\ OneMade(AWSCreate(z), z)
  <2>1. Calm(InternetGateway \o SecurityGroup(z)) /\ Makeless(InternetGateway \o SecurityGroup(z))
    BY CalmNet, CalmConcat
  <2> QED
    BY <1>1, <2>1, CalmConcat DEF AWSCreate
<1> QED
  BY <1>1, <1>2, <1>3
  DEF Create, Providers, HetznerCreate, GCPCreate, AlibabaCreate, UpCloudCreate, OVHcloudCreate, ExoscaleCreate

\* The calls of a reboot, of the ports, and of the DNS machine and the gateway on AWS.
LEMMA CalmCalls ==
    ASSUME NEW n \in Nodes, NEW c \in Providers,
           NEW s \in {Reboot(c, n), OpenPorts(c, n), UseDnsServer, Forwarding, InternalTraffic, <<>>,
                      <<Call("register", n), Call("online", n)>>, <<Call("online", n)>>}
    PROVE  Calm(s) /\ Makeless(s)
<1>1. ASSUME NEW x, NEW t, x \in Nodes \/ x = "gw", NEW op \in {"reboot", "forward"}, t = <<Call("find", x), Call(op, x)>>
      PROVE  Calm(t) /\ Makeless(t)
  <2>1. t \in Seq(Calls) /\ Len(t) = 2 /\ t[1].op = "find" /\ t[2].op = op
    BY <1>1 DEF Calls, Call, CallOps, LaterOps, Shared
  <2>2. 1 + 1 \in 1..Len(t) /\ t[1 + 1] = t[2] /\ \A i \in 1..Len(t) : i = 1 \/ i = 2
    BY <2>1
  <2> QED
    BY <2>1, <2>2 DEF Calm, Makeless, LooksWhole, Makes
<1>2. ASSUME NEW t, NEW x, NEW y, NEW a \in Quiet, NEW b \in Quiet, t = <<Call(a, x), Call(b, y)>>,
             x \in Nodes \cup Shared \cup {"vpc", "ssh", "internal"}, y \in Nodes \cup Shared \cup {"vpc", "ssh", "internal"}
      PROVE  Calm(t) /\ Makeless(t)
  <2>1. Call(a, x) \in Calls /\ Call(b, y) \in Calls
    BY <1>2, AnyCall DEF Quiet
  <2>2. t \in Seq(Calls) /\ Len(t) = 2 /\ t[1].op = a /\ t[2].op = b
    BY <1>2, <2>1 DEF Call
  <2>3. \A i \in 1..Len(t) : i = 1 \/ i = 2
    BY <2>2
  <2> QED
    BY <2>2, <2>3, QuietCalm
<1>3. ASSUME NEW t, NEW a \in Quiet, t = <<Call(a, n)>> PROVE Calm(t) /\ Makeless(t)
  <2>1. Call(a, n) \in Calls
    BY AnyCall DEF Quiet
  <2>2. t \in Seq(Calls) /\ Len(t) = 1 /\ t[1].op = a
    BY <1>3, <2>1 DEF Call
  <2>3. \A i \in 1..Len(t) : i = 1
    BY <2>2
  <2> QED
    BY <2>2, <2>3, QuietCalm
<1>4. Calm(UseDnsServer) /\ Makeless(UseDnsServer)
  <2> PICK t : t = UseDnsServer
    OBVIOUS
  <2>1. t \in Seq(Calls) /\ Len(t) = 3 /\ t[1].op = "dhcp?" /\ t[2].op = "make-options" /\ t[3].op = "dhcp"
    BY DEF UseDnsServer, Calls, Call, CallOps, LaterOps, Shared
  <2>2. /\ 1 + 1 \in 1..Len(t) /\ 1 + 2 \in 1..Len(t) /\ t[1 + 1] = t[2] /\ t[1 + 2] = t[3]
        /\ \A i \in 1..Len(t) : i = 1 \/ i = 2 \/ i = 3
    BY <2>1
  <2> QED
    BY <2>1, <2>2 DEF Calm, Makeless, LooksWhole, Makes
<1>5. Calm(<<>>) /\ Makeless(<<>>)
  <2>1. <<>> \in Seq(Calls) /\ Len(<<>>) = 0
    BY EmptySeq
  <2>2. \A i \in 1..Len(<<>>) : FALSE
    BY <2>1
  <2> QED
    BY <2>1, <2>2 DEF Calm, Makeless, LooksWhole
<1>6. {"register", "online", "reboot", "put-rule", "tag", "rules?", "rule"} \subseteq Quiet
  BY DEF Quiet, CallOps, LaterOps, NetOps, Makes
<1>7. Calm(Reboot(c, n)) /\ Makeless(Reboot(c, n))
  BY <1>1, <1>3, <1>6 DEF Reboot, Providers, HetznerPower, AWSPower, GCPPower, AlibabaPower, ScalewayPower, UpCloudPower,
     OVHcloudPower, ExoscalePower
<1>8. Calm(OpenPorts(c, n)) /\ Makeless(OpenPorts(c, n))
  BY <1>2, <1>3, <1>5, <1>6, CalmNet DEF OpenPorts, Providers, AWSPorts, GCPPorts, AlibabaPorts, ExoscalePorts
<1>9. Calm(Forwarding) /\ Makeless(Forwarding)
  BY <1>1 DEF Forwarding
<1>10. Calm(InternalTraffic) /\ Makeless(InternalTraffic)
  BY <1>2, <1>6 DEF InternalTraffic
<1>11. Calm(<<Call("register", n), Call("online", n)>>) /\ Makeless(<<Call("register", n), Call("online", n)>>)
  BY <1>2, <1>6
<1>12. Calm(<<Call("online", n)>>) /\ Makeless(<<Call("online", n)>>)
  BY <1>3, <1>6
<1> QED
  BY <1>4, <1>5, <1>7, <1>8, <1>9, <1>10, <1>11, <1>12

\* Calls that have nothing to do with the shared machines.
LEMMA CalmSegment ==
    ASSUME NEW s, Calm(s), Makeless(s) \/ \E n \in Nodes : OneMade(s, n) PROVE Segment(s, {})
<1>1. s \in Seq(Calls) /\ LooksWhole(s) /\ \A i \in 1..Len(s) : s[i].op \notin {"reuse", "ready", "delete"}
  BY DEF Calm
<1>2. \A i \in 1..Len(s) : s[i].op \in Makes => s[i].name \in Nodes /\ s[i].name \notin Shared
  BY CloudVmsAssumption DEF Makeless, OneMade
<1>3. Orderly(s)
  BY <1>1, <1>2 DEF Orderly, OneMaking, NoneBetween, DeleteBefore
<1> QED
  BY <1>1, <1>2, <1>3 DEF Segment, Guarded, HasDelete

\* Parts that use different shared machines.
LEMMA SegmentConcat ==
    ASSUME NEW X \in SUBSET Shared, NEW Y \in SUBSET Shared, X \cap Y = {},
           NEW s, NEW t, Segment(s, X), Segment(t, Y)
    PROVE  Segment(s \o t, X \cup Y)
<1>1. s \in Seq(Calls) /\ t \in Seq(Calls) /\ ~HasDelete(t) /\ ~HasDelete(s) /\ Orderly(s) /\ Orderly(t)
  BY DEF Segment
<1> PICK u : u = s \o t
  OBVIOUS
<1>2. /\ u \in Seq(Calls) /\ Len(s) \in Nat
      /\ \A i \in 1..Len(s) : i \in 1..Len(u) /\ u[i] = s[i]
      /\ \A i \in 1..Len(t) : i + Len(s) \in 1..Len(u) /\ u[i + Len(s)] = t[i]
      /\ \A i \in 1..Len(u) : i \in 1..Len(s) \/ i - Len(s) \in 1..Len(t)
      /\ \A i \in 1..Len(u) : i - Len(s) \in 1..Len(t) => u[i] = t[i - Len(s)]
  BY <1>1, Joined
<1>3. Orderly(u)
  <2>1. ASSUME NEW i \in 1..Len(s), NEW j \in 1..Len(t), s[i].op \in Makes \cup {"ready"}, t[j].op \in Makes, t[j].name \in Shared
        PROVE  s[i].name # t[j].name
    <3>1. t[j].name \in Y
      BY <2>1, CloudVmsAssumption DEF Segment
    <3>2. s[i].name \in Nodes \cup X
      BY <2>1 DEF Segment
    <3> QED
      BY <3>1, <3>2, CloudVmsAssumption
  <2>2. ASSUME NEW i \in 1..Len(s), NEW j \in 1..Len(t), s[i].op = "reuse", t[j].op = "ready"
        PROVE  s[i].name # t[j].name
    BY <2>2 DEF Segment
  <2> QED
    BY <1>1, <2>1, <2>2, OrderlyConcat
<1>4. ~HasDelete(u)
  BY <1>1, <1>2 DEF HasDelete
<1>5. \A i \in 1..Len(u) : /\ u[i].op \in Makes => u[i].name \in Nodes \cup (X \cup Y)
                           /\ u[i].op \in {"reuse", "ready"} => u[i].name \in X \cup Y
  BY <1>2 DEF Segment
<1>6. Guarded(u)
  <2> SUFFICES ASSUME NEW i \in 1..Len(u), u[i].op \in Makes, u[i].name \in Shared PROVE Sought(u, i)
    BY DEF Guarded
  <2>1. CASE i \in 1..Len(s)
    <3>1. u[i] = s[i]
      BY <1>2, <2>1
    <3>2. PICK j \in 1..(i - 1) : s[j] = Call("reuse", s[i].name)
      BY <2>1, <3>1 DEF Segment, Guarded, Sought
    <3>3. u[j] = s[j]
      BY <1>2, <2>1
    <3> QED
      BY <3>1, <3>2, <3>3 DEF Sought
  <2>2. CASE i - Len(s) \in 1..Len(t)
    <3>1. u[i] = t[i - Len(s)]
      BY <1>2, <2>2
    <3>2. PICK j \in 1..((i - Len(s)) - 1) : t[j] = Call("reuse", t[i - Len(s)].name)
      BY <2>2, <3>1 DEF Segment, Guarded, Sought
    <3>3. j \in 1..Len(t) /\ j + Len(s) \in 1..(i - 1)
      BY <1>2, <2>2
    <3>4. u[j + Len(s)] = t[j]
      BY <1>2, <3>3
    <3> QED
      BY <3>1, <3>2, <3>3, <3>4 DEF Sought
  <2> QED
    BY <1>2, <2>1, <2>2
<1> QED
  BY <1>2, <1>3, <1>4, <1>5, <1>6 DEF Segment

\* ensure_cloud_dns_vm(): a look-up, the making of one machine of the name, and the wait for it.
LEMMA EnsureSegment ==
    ASSUME NEW x \in Shared, NEW c \in Providers PROVE Segment(EnsureShared(c, x), {x})
<1> DEFINE r == <<Call("reuse", x)>>
           m == Create(c, x)
           y == <<Call("ready", x)>>
           h == r \o m
<1>0. Call("reuse", x) \in Calls /\ Call("ready", x) \in Calls
  BY DEF Call, Calls, CallOps, LaterOps
<1>1. r \in Seq(Calls) /\ Len(r) = 1 /\ r[1] = Call("reuse", x)
  BY <1>0
<1>2. y \in Seq(Calls) /\ Len(y) = 1 /\ y[1] = Call("ready", x)
  BY <1>0
<1>3. Calm(m) /\ OneMade(m, x)
  BY CalmCreate
<1>4. EnsureShared(c, x) = h \o y
  BY DEF EnsureShared
<1> HIDE DEF r, m, y, h
<1>5. m \in Seq(Calls) /\ h = r \o m
  BY <1>3 DEF Calm, h
<1>6. /\ h \in Seq(Calls) /\ Len(m) \in Nat /\ Len(h) = 1 + Len(m) /\ h[1] = r[1]
      /\ \A i \in 1..Len(h) : i = 1 \/ (i - 1 \in 1..Len(m) /\ h[i] = m[i - 1])
  <2>1. r \in Seq(Calls) /\ m \in Seq(Calls) /\ h = r \o m
    BY <1>1, <1>5
  <2>2. /\ h \in Seq(Calls) /\ Len(m) \in Nat /\ Len(h) = Len(r) + Len(m)
        /\ \A i \in 1..Len(r) : i \in 1..Len(h) /\ h[i] = r[i]
        /\ \A i \in 1..Len(h) : i \in 1..Len(r) \/ i - Len(r) \in 1..Len(m)
        /\ \A i \in 1..Len(h) : i - Len(r) \in 1..Len(m) => h[i] = m[i - Len(r)]
    BY ONLY <2>1, Joined
  <2> QED
    BY <1>1, <2>2
<1> PICK s : s = h \o y
  OBVIOUS
<1>7. /\ s \in Seq(Calls) /\ Len(s) = Len(m) + 2 /\ s[1] = r[1] /\ s[Len(m) + 2] = y[1] /\ Len(m) + 2 \in 1..Len(s)
      /\ \A i \in 1..Len(s) : i = 1 \/ i = Len(m) + 2 \/ (i - 1 \in 1..Len(m) /\ s[i] = m[i - 1])
  <2>1. /\ s \in Seq(Calls) /\ Len(s) = Len(h) + Len(y)
        /\ \A i \in 1..Len(h) : i \in 1..Len(s) /\ s[i] = h[i]
        /\ \A i \in 1..Len(y) : i + Len(h) \in 1..Len(s) /\ s[i + Len(h)] = y[i]
        /\ \A i \in 1..Len(s) : i \in 1..Len(h) \/ i - Len(h) \in 1..Len(y)
    <3>1. h \in Seq(Calls) /\ y \in Seq(Calls) /\ s = h \o y
      BY <1>2, <1>6
    <3> QED
      BY ONLY <3>1, Joined
  <2>2. 1 + Len(h) = Len(m) + 2 /\ Len(s) = Len(m) + 2 /\ 1 \in 1..Len(h)
    BY <1>2, <1>6, <2>1
  <2>3. s[1] = r[1] /\ s[Len(m) + 2] = y[1] /\ Len(m) + 2 \in 1..Len(s)
    BY <1>2, <1>6, <2>1, <2>2
  <2>4. ASSUME NEW i \in 1..Len(s), i # 1, i # Len(m) + 2 PROVE i - 1 \in 1..Len(m) /\ s[i] = m[i - 1]
    <3>1. i \in 1..Len(h)
      BY <1>2, <1>6, <2>2, <2>4
    <3> QED
      BY <1>6, <2>1, <2>4, <3>1
  <2> QED
    BY <2>1, <2>2, <2>3, <2>4
<1>8. s[1].op = "reuse" /\ s[1].name = x /\ s[Len(m) + 2].op = "ready" /\ s[Len(m) + 2].name = x
  BY <1>1, <1>2, <1>7 DEF Call
<1>9. \A i \in 1..Len(m) : m[i].op \notin {"reuse", "ready", "delete"}
  BY <1>3 DEF Calm
<1>10. PICK k \in 1..Len(m) : \A i \in 1..Len(m) : m[i].op \in Makes => i = k /\ m[i].name = x
  BY <1>3 DEF OneMade
<1>11. ASSUME NEW i \in 1..Len(s)
       PROVE  /\ s[i].op \in Makes => i = k + 1 /\ s[i].name = x /\ i # 1
              /\ s[i].op = "reuse" => i = 1
              /\ s[i].op = "ready" => i = Len(m) + 2
              /\ s[i].op # "delete"
  <2>1. CASE i = 1
    BY <1>6, <1>8, <2>1 DEF Makes
  <2>2. CASE i = Len(m) + 2
    BY <1>6, <1>8, <2>2 DEF Makes
  <2>3. CASE i - 1 \in 1..Len(m) /\ s[i] = m[i - 1]
    <3>1. s[i].op \in Makes => i - 1 = k /\ s[i].name = x
      BY <1>10, <2>3
    <3>2. s[i].op \notin {"reuse", "ready", "delete"}
      BY <1>9, <2>3
    <3> QED
      BY <2>3, <3>1, <3>2
  <2> QED
    BY <1>7, <2>1, <2>2, <2>3
<1>12. LooksWhole(s)
  <2>1. LooksWhole(r) /\ LooksWhole(y)
    <3>1. \A i \in 1..Len(r) : r[i].op = "reuse"
      BY <1>1 DEF Call
    <3>2. \A i \in 1..Len(y) : y[i].op = "ready"
      BY <1>2 DEF Call
    <3> QED
      BY <3>1, <3>2 DEF LooksWhole
  <2>2. LooksWhole(h)
    BY <1>1, <1>3, <1>5, <2>1, WholeConcat DEF Calm, h
  <2> QED
    BY <1>2, <1>6, <2>1, <2>2, WholeConcat
<1>13. OneMaking(s)
  <2> SUFFICES ASSUME NEW i \in 1..Len(s), NEW j \in 1..Len(s), i < j, s[j].op \in Makes, s[i].op \in Makes \cup {"ready"}
               PROVE  FALSE
    BY DEF OneMaking
  <2>1. j = k + 1 /\ (i = k + 1 \/ i = Len(m) + 2)
    BY <1>11
  <2> QED
    BY <1>6, <1>7, <2>1
<1>14. NoneBetween(s) /\ DeleteBefore(s) /\ ~HasDelete(s)
  <2>1. NoneBetween(s)
    <3> SUFFICES ASSUME NEW i \in 1..Len(s), NEW j \in 1..Len(s), i < j, s[i].op = "reuse", s[j].op = "reuse" PROVE FALSE
      BY DEF NoneBetween
    <3>1. i = 1 /\ j = 1
      BY <1>11
    <3> QED
      BY <3>1
  <2> QED
    BY <1>11, <2>1 DEF DeleteBefore, HasDelete
<1>15. Guarded(s)
  <2> SUFFICES ASSUME NEW i \in 1..Len(s), s[i].op \in Makes PROVE Sought(s, i)
    BY DEF Guarded
  <2>1. s[i].name = x /\ i # 1
    BY <1>11
  <2>2. 1 \in 1..(i - 1) /\ s[1] = Call("reuse", s[i].name)
    BY <1>1, <1>7, <2>1
  <2> QED
    BY <2>2 DEF Sought
<1>16. \A i \in 1..Len(s) : /\ s[i].op \in Makes => s[i].name \in Nodes \cup {x}
                            /\ s[i].op \in {"reuse", "ready"} => s[i].name \in {x}
  BY <1>8, <1>11
<1> QED
  BY <1>4, <1>7, <1>12, <1>13, <1>14, <1>15, <1>16 DEF Segment, Orderly

\* destroy_vm() and provision_vm().
LEMMA ProgramOrderly ==
    ASSUME NEW n \in Nodes, NEW c \in Providers, NEW withGw \in BOOLEAN, NEW p,
           p = <<Call("unregister", n)>> \o Delete(n) \o Provision(c, n, withGw)
    PROVE  Orderly(p) /\ Guarded(p)
<1> DEFINE X0 == {}
           X1 == {"dns"}
           X2 == {"gw"}
           e == IF withGw THEN EnsureGateway(c) ELSE <<>>
           d == IF c = "aws" THEN UseDnsServer ELSE <<>>
<1>1. X0 \in SUBSET Shared /\ X1 \in SUBSET Shared /\ X2 \in SUBSET Shared /\ X1 \cap X2 = {}
      /\ "dns" \in Shared /\ "gw" \in Shared
  BY DEF Shared
<1>2. ASSUME NEW s, NEW t, NEW X \in SUBSET Shared, Segment(s, X), Segment(t, X0) PROVE Segment(s \o t, X)
  <2>1. X \cup X0 = X /\ X \cap X0 = {}
    OBVIOUS
  <2> QED
    BY <1>1, <1>2, <2>1, SegmentConcat
<1>3. Segment(Create(c, n), X0)
  BY CalmCreate, CalmSegment
<1>4. \A s \in {Reboot(c, n), OpenPorts(c, n), UseDnsServer, Forwarding, InternalTraffic, <<>>,
                <<Call("register", n), Call("online", n)>>, <<Call("online", n)>>} : Segment(s, X0)
  BY CalmCalls, CalmSegment
<1>5. Segment(EnsureShared(c, "dns"), X1) /\ Segment(EnsureShared(c, "gw"), X2)
  BY <1>1, EnsureSegment
<1>6. Segment(e, X2) \/ Segment(e, X0)
  <2>1. Segment(Forwarding \o InternalTraffic, X0)
    BY <1>1, <1>2, <1>4
  <2>2. Segment(EnsureGateway(c), X2)
    BY <1>1, <1>2, <1>4, <1>5, <2>1 DEF EnsureGateway
  <2> QED
    BY <1>4, <2>2
<1>7. Segment(d, X0)
  BY <1>4
<1> PICK q : q = Create(c, n) \o OpenPorts(c, n) \o EnsureShared(c, "dns") \o d
                 \o <<Call("register", n), Call("online", n)>> \o Reboot(c, n) \o <<Call("online", n)>>
  OBVIOUS
<1>8. Provision(c, n, withGw) = q \o e
  BY DEF Provision
<1> HIDE DEF d, e, X0, X1, X2
<1>9. Segment(q, X1)
  <2>1. Segment(Create(c, n) \o OpenPorts(c, n), X0)
    BY <1>1, <1>2, <1>3, <1>4
  <2>2. Segment(Create(c, n) \o OpenPorts(c, n) \o EnsureShared(c, "dns"), X1)
    <3>1. X0 \cup X1 = X1 /\ X0 \cap X1 = {}
      BY DEF X0
    <3>2. Segment(Create(c, n) \o OpenPorts(c, n) \o EnsureShared(c, "dns"), X0 \cup X1)
      BY <1>1, <1>5, <2>1, <3>1, SegmentConcat
    <3> QED
      BY <3>1, <3>2
  <2>3. Segment(Create(c, n) \o OpenPorts(c, n) \o EnsureShared(c, "dns") \o d, X1)
    BY <1>1, <1>2, <1>7, <2>2
  <2>4. Segment(Create(c, n) \o OpenPorts(c, n) \o EnsureShared(c, "dns") \o d
                \o <<Call("register", n), Call("online", n)>>, X1)
    BY <1>1, <1>2, <1>4, <2>3
  <2>5. Segment(Create(c, n) \o OpenPorts(c, n) \o EnsureShared(c, "dns") \o d
                \o <<Call("register", n), Call("online", n)>> \o Reboot(c, n), X1)
    BY <1>1, <1>2, <1>4, <2>4
  <2> QED
    BY <1>1, <1>2, <1>4, <2>5
<1>10. Segment(q \o e, X1) \/ Segment(q \o e, X1 \cup X2)
  BY <1>1, <1>2, <1>6, <1>9, SegmentConcat
<1>11. q \o e \in Seq(Calls) /\ Orderly(q \o e) /\ Guarded(q \o e) /\ ~HasDelete(q \o e)
  BY <1>10 DEF Segment
<1> PICK b : b = <<Call("unregister", n)>> \o Delete(n)
  OBVIOUS
<1>12. b \in Seq(Calls) /\ Len(b) = 3 /\ b[1].op = "unregister" /\ b[2].op = "find" /\ b[3].op = "delete"
  <2> PICK f, g : f = <<Call("unregister", n)>> /\ g = Delete(n)
    OBVIOUS
  <2>1. f \in Seq(Calls) /\ Len(f) = 1 /\ f[1].op = "unregister"
    BY DEF Calls, Call, CallOps
  <2>2. g \in Seq(Calls) /\ Len(g) = 2 /\ g[1].op = "find" /\ g[2].op = "delete"
    BY DEF Delete, Calls, Call, CallOps
  <2>3. b = f \o g
    OBVIOUS
  <2>4. /\ b \in Seq(Calls) /\ Len(b) = Len(f) + Len(g)
        /\ \A i \in 1..Len(f) : b[i] = f[i]
        /\ \A i \in 1..Len(g) : b[i + Len(f)] = g[i]
    <3>1. f \in Seq(Calls) /\ g \in Seq(Calls) /\ b = f \o g
      BY <2>1, <2>2, <2>3
    <3>2. /\ b \in Seq(Calls) /\ Len(b) = Len(f) + Len(g)
          /\ \A i \in 1..Len(f) : i \in 1..Len(b) /\ b[i] = f[i]
          /\ \A i \in 1..Len(g) : i + Len(f) \in 1..Len(b) /\ b[i + Len(f)] = g[i]
      BY ONLY <3>1, Joined
    <3> QED
      BY ONLY <3>2
  <2>5. b[1] = f[1] /\ b[2] = g[1] /\ b[3] = g[2]
    <3>1. 1 \in 1..Len(f) /\ 1 \in 1..Len(g) /\ 2 \in 1..Len(g) /\ 1 + Len(f) = 2 /\ 2 + Len(f) = 3
      BY <2>1, <2>2
    <3> QED
      BY ONLY <2>4, <3>1
  <2> QED
    BY <2>1, <2>2, <2>4, <2>5
<1>13. /\ \A i \in 1..Len(b) : i = 1 \/ i = 2 \/ i = 3
       /\ 2 + 1 \in 1..Len(b) /\ b[2 + 1] = b[3]
  BY <1>12
<1>14. Orderly(b)
  BY <1>12, <1>13 DEF Orderly, OneMaking, NoneBetween, LooksWhole, DeleteBefore, Makes
<1>15. \A i \in 1..Len(b) : b[i].op \notin Makes \cup {"ready", "reuse"}
  BY <1>12, <1>13 DEF Makes
<1>16. p = b \o (q \o e)
  BY <1>8
<1> PICK t : t = q \o e
  OBVIOUS
<1>17. Orderly(p)
  <2>1. t \in Seq(Calls) /\ Orderly(t) /\ ~HasDelete(t)
    BY <1>11
  <2> QED
    BY ONLY <2>1, <1>12, <1>14, <1>15, <1>16, t = q \o e, OrderlyConcat
<1>18. Guarded(p)
  <2>1. /\ Len(b) \in Nat
        /\ \A i \in 1..Len(b) : i \in 1..Len(p) /\ p[i] = b[i]
        /\ \A i \in 1..Len(t) : i + Len(b) \in 1..Len(p) /\ p[i + Len(b)] = t[i]
        /\ \A i \in 1..Len(p) : i \in 1..Len(b) \/ i - Len(b) \in 1..Len(t)
        /\ \A i \in 1..Len(p) : i - Len(b) \in 1..Len(t) => p[i] = t[i - Len(b)]
    <3>1. b \in Seq(Calls) /\ t \in Seq(Calls) /\ p = b \o t
      BY <1>11, <1>12, <1>16
    <3> QED
      BY ONLY <3>1, Joined
  <2> SUFFICES ASSUME NEW i \in 1..Len(p), p[i].op \in Makes, p[i].name \in Shared PROVE Sought(p, i)
    BY DEF Guarded
  <2>2. i - Len(b) \in 1..Len(t) /\ p[i] = t[i - Len(b)]
    BY <1>15, <2>1
  <2>3. PICK j \in 1..((i - Len(b)) - 1) : t[j] = Call("reuse", t[i - Len(b)].name)
    BY <1>11, <2>2 DEF Guarded, Sought
  <2>4. j \in 1..Len(t) /\ j + Len(b) \in 1..(i - 1)
    <3>1. Len(b) = 3 /\ i - 3 \in 1..Len(t) /\ i \in Int /\ j \in 1..((i - 3) - 1)
      BY <1>12, <2>2
    <3>2. Len(t) \in Nat
      BY <1>11, LenProperties
    <3> QED
      BY ONLY <3>1, <3>2
  <2>5. p[j + Len(b)] = t[j]
    BY <2>1, <2>4
  <2> QED
    BY <2>2, <2>3, <2>4, <2>5 DEF Sought
<1> QED
  BY <1>17, <1>18

\* What is left of a worker's calls after some are done.
LEMMA AfterTodo ==
    ASSUME NEW x, "todo" \in DOMAIN x, x.todo \in Seq(Calls), NEW k \in Nat \ {0}
    PROVE  After(x, k).todo = SubSeq(x.todo, k + 1, Len(x.todo))
<1> PICK s : s = x.todo
  OBVIOUS
<1> PICK t : t = SubSeq(s, k + 1, Len(s))
  OBVIOUS
<1>1. k >= Len(s) => t = <<>>
  BY Suffix
<1>2. CASE Len(s) = k
  <2>1. After(x, k) = [Idle EXCEPT !.own = x.own, !.got = x.got, !.end = "ok"]
    BY <1>2 DEF After
  <2>2. After(x, k).todo = <<>>
    BY <2>1 DEF Idle
  <2> QED
    BY <1>1, <1>2, <2>2
<1>3. CASE Len(s) # k
  <2>1. After(x, k) = [x EXCEPT !.todo = SubSeq(@, k + 1, Len(@))]
    BY <1>3 DEF After
  <2> QED
    BY <2>1
<1> QED
  BY <1>2, <1>3

\* A worker's calls are orderly to the end.
LEMMA OrderlyTail ==
    ASSUME NEW s \in Seq(Calls), Orderly(s), NEW k \in Nat \ {0}, NEW t, t = SubSeq(s, k + 1, Len(s)) PROVE Orderly(t)
<1>1. /\ Len(s) \in Nat /\ Len(t) = IF k < Len(s) THEN Len(s) - k ELSE 0
      /\ \A i \in 1..Len(t) : i + k \in 1..Len(s) /\ t[i] = s[i + k]
  BY Suffix
<1>2. OneMaking(t)
  <2> SUFFICES ASSUME NEW i \in 1..Len(t), NEW j \in 1..Len(t), i < j, t[j].op \in Makes, t[j].name \in Shared,
                      t[i].op \in Makes \cup {"ready"}, t[i].name = t[j].name
               PROVE  FALSE
    BY DEF OneMaking
  <2>1. i + k \in 1..Len(s) /\ j + k \in 1..Len(s) /\ i + k < j + k /\ t[i] = s[i + k] /\ t[j] = s[j + k]
    BY <1>1
  <2> QED
    BY <2>1 DEF Orderly, OneMaking
<1>3. NoneBetween(t)
  <2> SUFFICES ASSUME NEW i \in 1..Len(t), NEW j \in 1..Len(t), NEW l \in 1..Len(t), i < j, j < l, t[i].op = "reuse",
                      t[l] = Call("ready", t[i].name)
               PROVE  t[j].op # "reuse"
    BY DEF NoneBetween
  <2> PICK a, b, c : a = i + k /\ b = j + k /\ c = l + k
    OBVIOUS
  <2>1. a \in 1..Len(s) /\ b \in 1..Len(s) /\ c \in 1..Len(s) /\ t[i] = s[a] /\ t[j] = s[b] /\ t[l] = s[c]
    BY <1>1
  <2>2. a < b /\ b < c
    BY <1>1
  <2>3. s[b].op # "reuse"
    BY <2>1, <2>2 DEF Orderly, NoneBetween
  <2> QED
    BY <2>1, <2>3
<1>4. LooksWhole(t)
  <2> SUFFICES ASSUME NEW i \in 1..Len(t)
               PROVE  /\ t[i].op \in {"gateway?", "dhcp?"} =>
                            i + 1 \in 1..Len(t) /\ i + 2 \in 1..Len(t) /\ t[i + 1].op # "reuse" /\ t[i + 2].op # "reuse"
                      /\ t[i].op \in {"route?", "find"} => i + 1 \in 1..Len(t) /\ t[i + 1].op # "reuse"
    BY DEF LooksWhole
  <2>1. i + k \in 1..Len(s) /\ t[i] = s[i + k]
    BY <1>1
  <2>2. (i + k) + 1 \in 1..Len(s) => i + 1 \in 1..Len(t) /\ t[i + 1] = s[(i + k) + 1]
    <3>1. (i + k) + 1 \in 1..Len(s) => i + 1 \in 1..Len(t) /\ (i + 1) + k = (i + k) + 1
      BY <1>1
    <3> QED
      BY <1>1, <3>1
  <2>3. (i + k) + 2 \in 1..Len(s) => i + 2 \in 1..Len(t) /\ t[i + 2] = s[(i + k) + 2]
    <3>1. (i + k) + 2 \in 1..Len(s) => i + 2 \in 1..Len(t) /\ (i + 2) + k = (i + k) + 2
      BY <1>1
    <3> QED
      BY <1>1, <3>1
  <2> QED
    BY <2>1, <2>2, <2>3 DEF Orderly, LooksWhole
<1>5. DeleteBefore(t)
  <2> SUFFICES ASSUME NEW i \in 1..Len(t), NEW j \in 1..Len(t), i < j, t[j].op = "delete" PROVE t[i].op # "reuse"
    BY DEF DeleteBefore
  <2>1. i + k \in 1..Len(s) /\ j + k \in 1..Len(s) /\ i + k < j + k /\ t[i] = s[i + k] /\ t[j] = s[j + k]
    BY <1>1
  <2> QED
    BY <2>1 DEF Orderly, DeleteBefore
<1> QED
  BY <1>2, <1>3, <1>4, <1>5 DEF Orderly

\* A shared machine is made after a look-up of its own that is still ahead, or there is none of its name.
LEMMA FencedTail ==
    ASSUME NEW s \in Seq(Calls), NEW N, NEW k \in Nat \ {0}, NEW t, t = SubSeq(s, k + 1, Len(s)),
           \A i \in 1..Len(s) : k < i /\ s[i].op \in Makes /\ s[i].name \in Shared =>
               (\E j \in 1..(i - 1) : k < j /\ s[j] = Call("reuse", s[i].name)) \/ \A m \in N : m.name # s[i].name
    PROVE  Fenced(N, t)
<1>1. /\ Len(s) \in Nat /\ Len(t) = IF k < Len(s) THEN Len(s) - k ELSE 0
      /\ \A i \in 1..Len(t) : i + k \in 1..Len(s) /\ t[i] = s[i + k]
  BY Suffix
<1> SUFFICES ASSUME NEW i \in 1..Len(t), t[i].op \in Makes, t[i].name \in Shared, \E m \in N : m.name = t[i].name
             PROVE  Sought(t, i)
  BY DEF Fenced
<1>2. i + k \in 1..Len(s) /\ k < i + k /\ t[i] = s[i + k]
  BY <1>1
<1>3. PICK j \in 1..((i + k) - 1) : k < j /\ s[j] = Call("reuse", s[i + k].name)
  BY <1>2
<1>4. j - k \in 1..(i - 1) /\ j - k \in 1..Len(t) /\ (j - k) + k = j
  BY <1>1, <1>2, <1>3
<1>5. t[j - k] = s[j]
  <2>1. t[j - k] = s[(j - k) + k]
    BY <1>1, <1>4
  <2> QED
    BY <1>4, <2>1
<1> QED
  BY <1>2, <1>3, <1>4, <1>5 DEF Sought

\* No two machines have the same of the names X.
Once(M, X) == \A m1, m2 \in M : m1.name = m2.name /\ m1.name \in X => m1 = m2
\* Every machine was one before, of the same name.
Kin == \A m \in machines' : \E l \in machines : l.id = m.id /\ l.name = m.name

\* When workers take turns, at most one is at work, and makes a shared machine when there is none.
InTurn ==
    /\ \A n, k \in Nodes : Busy(n) /\ Busy(k) => n = k
    /\ Once(machines, Shared)
    /\ \A n \in Nodes : Orderly(work[n].todo) /\ Fenced(machines, work[n].todo)
Unique == /\ Find[cloud].refused => Once(machines, Nodes \cup Shared)
          /\ mode = "turn" => InTurn

\* Nothing is left to do.
LEMMA NothingLeft == Orderly(<<>>) /\ \A N : Fenced(N, <<>>)
<1>1. \A i \in 1..Len(<<>>) : FALSE
  <2>1. Len(<<>>) = 0
    BY EmptySeq
  <2> QED
    BY <2>1
<1> QED
  BY <1>1 DEF Orderly, OneMaking, NoneBetween, LooksWhole, DeleteBefore, Fenced

\* Machines that were there before are no more of a name than then.
LEMMA OnceKept == ASSUME CloudInv, CloudInv', Kin, NEW X, Once(machines, X) PROVE Once(machines', X)
<1> SUFFICES ASSUME NEW m1 \in machines', NEW m2 \in machines', m1.name = m2.name, m1.name \in X PROVE m1 = m2
  BY DEF Once
<1>1. PICK l1 \in machines, l2 \in machines : l1.id = m1.id /\ l1.name = m1.name /\ l2.id = m2.id /\ l2.name = m2.name
  BY DEF Kin
<1>2. l1 = l2
  BY <1>1 DEF Once
<1> QED
  BY <1>1, <1>2 DEF CloudInv, Types, StockType, OneEach

\* With the same machines the kin of each is what it was.
LEMMA SameKin == ASSUME machines' = machines PROVE Kin
  BY DEF Kin

\* The worker that is at work is another after a step, and no other is.
LEMMA WorkerInTurn ==
    ASSUME CloudInv, InTurn, NEW n \in Nodes, \A k \in Nodes \ {n} : ~Busy(k), NEW v, work' = [work EXCEPT ![n] = v],
           Once(machines', Shared), Orderly(v.todo), Fenced(machines', v.todo)
    PROVE  InTurn'
<1>1. work \in [Nodes -> WorkerType(made)]
  BY DEF CloudInv, Types, WorkType
<1>2. work'[n] = v /\ \A k \in Nodes \ {n} : work'[k] = work[k] /\ work'[k].todo = <<>>
  BY <1>1 DEF Busy
<1>3. \A k \in Nodes : Orderly(work'[k].todo) /\ Fenced(machines', work'[k].todo)
  BY <1>2, NothingLeft
<1>4. \A k \in Nodes \ {n} : ~Busy(k)'
  BY <1>2 DEF Busy
<1>5. \A l, k \in Nodes : Busy(l)' /\ Busy(k)' => l = k
  BY <1>4
<1> QED
  BY <1>3, <1>5 DEF InTurn

\* It does some calls, none of them a look-up of a shared machine, and no machine is made.
LEMMA AdvanceInTurn ==
    ASSUME CloudInv, CloudInv', InTurn, NEW n \in Nodes, Busy(n), NEW k \in Nat \ {0},
           NEW x, "todo" \in DOMAIN x, x.todo = work[n].todo, DidWith(n, k, x), Kin,
           \A j \in 1..k : j \in 1..Len(x.todo) => x.todo[j].op # "reuse"
    PROVE  InTurn'
<1> PICK s : s = work[n].todo
  OBVIOUS
<1>1. s \in Seq(Calls) /\ Orderly(s) /\ Fenced(machines, s) /\ Len(s) \in Nat
  <2>1. s \in Seq(Calls)
    BY AtCall DEF WorkerType
  <2> QED
    BY <2>1, LenProperties DEF InTurn
<1> PICK v : v = After(x, k)
  OBVIOUS
<1>2. work' = [work EXCEPT ![n] = v]
  BY DEF DidWith, After
<1>3. v.todo = SubSeq(s, k + 1, Len(s))
  BY <1>1, AfterTodo
<1>4. Once(machines', Shared)
  BY OnceKept DEF InTurn
<1>5. Fenced(machines', v.todo)
  <2>1. ASSUME NEW i \in 1..Len(s), k < i, s[i].op \in Makes, s[i].name \in Shared
        PROVE  (\E j \in 1..(i - 1) : k < j /\ s[j] = Call("reuse", s[i].name)) \/ \A m \in machines' : m.name # s[i].name
    <3>1. CASE Sought(s, i)
      <4>1. PICK j \in 1..(i - 1) : s[j] = Call("reuse", s[i].name)
        BY <3>1 DEF Sought
      <4>2. s[j].op = "reuse" /\ j \in 1..Len(s)
        BY <1>1, <4>1 DEF Call
      <4>3. k < j
        BY <4>2
      <4> QED
        BY <4>1, <4>3
    <3>2. CASE \A m \in machines : m.name # s[i].name
      BY <3>2 DEF Kin
    <3> QED
      BY <1>1, <2>1, <3>1, <3>2 DEF Fenced
  <2> PICK N, t : N = machines' /\ t = v.todo
    OBVIOUS
  <2>2. /\ s \in Seq(Calls) /\ t = SubSeq(s, k + 1, Len(s)) /\ k \in Nat \ {0}
        /\ \A i \in 1..Len(s) : k < i /\ s[i].op \in Makes /\ s[i].name \in Shared =>
              (\E j \in 1..(i - 1) : k < j /\ s[j] = Call("reuse", s[i].name)) \/ \A m \in N : m.name # s[i].name
    BY <1>1, <1>3, <2>1
  <2>3. Fenced(N, t)
    BY ONLY <2>2, FencedTail
  <2> QED
    BY <2>3
<1>6. Orderly(v.todo)
  BY <1>1, <1>3, OrderlyTail
<1>7. \A l \in Nodes \ {n} : ~Busy(l)
  BY DEF InTurn
<1> QED
  BY <1>2, <1>4, <1>5, <1>6, <1>7, WorkerInTurn

\* It fails.
LEMMA DeadInTurn ==
    ASSUME CloudInv, InTurn, NEW n \in Nodes, Busy(n), Dies(n), Once(machines', Shared)
    PROVE  InTurn'
<1>1. Dead.todo = <<>> /\ work' = [work EXCEPT ![n] = Dead]
  BY DEF Dead, Idle, Dies
<1>2. \A l \in Nodes \ {n} : ~Busy(l)
  BY DEF InTurn
<1> QED
  BY <1>1, <1>2, NothingLeft, WorkerInTurn

\* It does its next call, or fails.
LEMMA CallInTurn ==
    ASSUME CloudInv, CloudInv', InTurn, NEW n \in Nodes, Busy(n), Kin, Did(n, 1) \/ Dies(n),
           Did(n, 1) => work[n].todo[1].op # "reuse"
    PROVE  InTurn'
<1>1. "todo" \in DOMAIN work[n]
  BY AtCall DEF WorkerType
<1>2. CASE Did(n, 1)
  <2> PICK x : x = work[n]
    OBVIOUS
  <2>1. "todo" \in DOMAIN x /\ x.todo = work[n].todo /\ DidWith(n, 1, x) /\ 1 \in Nat \ {0}
    BY <1>1, <1>2 DEF Did
  <2>2. \A j \in 1..1 : x.todo[j].op # "reuse"
    BY <1>2
  <2> QED
    BY <2>1, <2>2, AdvanceInTurn
<1>3. CASE Dies(n)
  <2>1. Once(machines', Shared)
    BY OnceKept DEF InTurn
  <2> QED
    BY <1>3, <2>1, DeadInTurn
<1> QED
  BY <1>2, <1>3

\* No worker does anything, and no machine is made.
LEMMA IdleInTurn == ASSUME CloudInv, CloudInv', InTurn, Kin, work' = work PROVE InTurn'
<1>1. Once(machines', Shared)
  BY OnceKept DEF InTurn
<1>2. \A n \in Nodes : Fenced(machines', work[n].todo)
  <2> SUFFICES ASSUME NEW n \in Nodes PROVE Fenced(machines', work[n].todo)
    OBVIOUS
  <2>1. Fenced(machines, work[n].todo)
    BY DEF InTurn
  <2> QED
    BY <2>1 DEF Fenced, Kin
<1> QED
  BY <1>1, <1>2 DEF InTurn, Busy

\* A step that makes no machine leaves the names as they are when the provider refuses a second.
LEMMA KinUnique ==
    ASSUME CloudInv, CloudInv', Unique, Kin, UNCHANGED lab, mode = "turn" /\ InTurn => InTurn' PROVE Unique'
<1>1. cloud' = cloud /\ mode' = mode
  BY DEF lab
<1>2. Find[cloud].refused => Once(machines', Nodes \cup Shared)
  BY OnceKept DEF Unique
<1> QED
  BY <1>1, <1>2 DEF Unique

\* A worker begins, with no other at work.
LEMMA StartUnique == ASSUME CloudInv, CloudInv', Unique, NEW n \in Nodes, Start(n) PROVE Unique'
<1> USE DEF Start
<1>1. Kin
  BY SameKin
<1>2. ASSUME mode = "turn", InTurn PROVE InTurn'
  <2>1. cloud \in Providers /\ overlay \in BOOLEAN
    BY CloudVmsAssumption DEF CloudInv, Types, LabType
  <2> PICK p : p = <<Call("unregister", n)>> \o Delete(n) \o Provision(cloud, n, overlay)
    OBVIOUS
  <2> PICK v : v = [Idle EXCEPT !.todo = p]
    OBVIOUS
  <2>2. Orderly(p) /\ Guarded(p)
    BY <2>1, ProgramOrderly
  <2>3. v.todo = p /\ work' = [work EXCEPT ![n] = v] /\ \A k \in Nodes \ {n} : ~Busy(k)
    BY <1>2 DEF Idle
  <2>4. Once(machines', Shared)
    BY <1>1, <1>2, OnceKept DEF InTurn
  <2>5. Fenced(machines', v.todo)
    BY <2>2, <2>3 DEF Fenced, Guarded
  <2> QED
    BY ONLY CloudInv, n \in Nodes, <1>2, <2>2, <2>3, <2>4, <2>5, WorkerInTurn
<1> QED
  BY <1>1, <1>2, KinUnique

\* The calls that a worker does one at a time, and that make nothing.
LEMMA CallUnique ==
    ASSUME CloudInv, CloudInv', Unique, NEW n \in Nodes,
           \/ Unregister(n) \/ DeleteCall(n) \/ SetUp(n) \/ Ready(n) \/ Register(n)
           \/ NoEffect(n) \/ NetCall(n) \/ PutRules(n) \/ RecordLost(n)
    PROVE  Unique'
<1>1. Busy(n) /\ work[n].todo[1].op # "reuse"
  BY DEF Unregister, DeleteCall, SetUp, Ready, Register, NoEffect, NetCall, PutRules, RecordLost, At
<1>2. Did(n, 1) \/ Dies(n)
  BY DEF Unregister, DeleteCall, SetUp, Ready, Register, NoEffect, NetCall, PutRules, RecordLost
<1>3. UNCHANGED lab
  BY DEF Unregister, DeleteCall, SetUp, Ready, Register, NoEffect, NetCall, PutRules, RecordLost
<1>4. Kin
  <2>1. CASE DeleteCall(n)
    BY <2>1 DEF DeleteCall, Kin
  <2>2. CASE SetUp(n)
    <3> PICK i, b : i = work[n].seen /\ b = At(n, "power-on")
      OBVIOUS
    <3>1. machines' = {IF m.id # i THEN m ELSE [m EXCEPT !.data = TRUE, !.on = b] : m \in machines}
      BY <2>2 DEF SetUp
    <3>2. \A m \in machines : m \in MachineType(made)
      BY DEF CloudInv, Types, StockType
    <3>3. ASSUME NEW m \in machines PROVE [m EXCEPT !.data = TRUE, !.on = b].id = m.id
                                          /\ [m EXCEPT !.data = TRUE, !.on = b].name = m.name
      BY <3>2 DEF MachineType
    <3> SUFFICES ASSUME NEW r \in machines' PROVE \E l \in machines : l.id = r.id /\ l.name = r.name
      BY DEF Kin
    <3>4. PICK m \in machines : r = IF m.id # i THEN m ELSE [m EXCEPT !.data = TRUE, !.on = b]
      BY <3>1
    <3>5. r.id = m.id /\ r.name = m.name
      BY <3>3, <3>4
    <3> QED
      BY <3>5
  <2>3. CASE machines' = machines
    BY <2>3, SameKin
  <2> QED
    BY <2>1, <2>2, <2>3 DEF Unregister, Ready, Register, NoEffect, NetCall, PutRules, RecordLost
<1>5. InTurn => InTurn'
  BY <1>1, <1>2, <1>4, CallInTurn
<1> QED
  BY <1>3, <1>4, <1>5, KinUnique

\* Those that look something up, and may pass over what the look-up makes needless.
LEMMA LookUnique ==
    ASSUME CloudInv, CloudInv', Unique, NEW n \in Nodes, FindCall(n) \/ NetLook(n) \/ AddRules(n) \/ Address(n)
    PROVE  Unique'
<1>1. Busy(n) /\ work[n].todo[1].op # "reuse"
  BY DEF FindCall, NetLook, AddRules, Address, At
<1>2. UNCHANGED lab /\ machines' = machines
  BY DEF FindCall, NetLook, AddRules, Address
<1>3. Kin
  BY <1>2, SameKin
<1> PICK w : w = work[n]
  OBVIOUS
<1>4. w \in WorkerType(made)
  BY <1>1, AtCall
<1>5. "todo" \in DOMAIN w
  BY <1>4 DEF WorkerType
<1>6. \/ Dies(n)
      \/ \E x : "todo" \in DOMAIN x /\ x.todo = w.todo /\ DidWith(n, 1, x)
      \/ Did(n, 2) /\ w.todo[1].op \in {"find", "route?"}
      \/ Did(n, 3) /\ w.todo[1].op \in {"gateway?", "dhcp?"}
  <2>1. Did(n, 1) => \E x : "todo" \in DOMAIN x /\ x.todo = w.todo /\ DidWith(n, 1, x)
    BY <1>5 DEF Did
  <2>2. CASE FindCall(n)
    <3>1. CASE \E m \in Lookup(n, Name(n)) : DidWith(n, 1, [work[n] EXCEPT !.seen = m.id]) /\ UNCHANGED unsure
      <4>1. PICK m \in Lookup(n, Name(n)) : DidWith(n, 1, [w EXCEPT !.seen = m.id])
        BY <3>1
      <4> PICK x : x = [w EXCEPT !.seen = m.id]
        OBVIOUS
      <4>2. "todo" \in DOMAIN x /\ x.todo = w.todo
        BY <1>5
      <4> QED
        BY <4>1, <4>2
    <3> QED
      BY <2>2, <3>1 DEF FindCall, At
  <2>3. CASE NetLook(n)
    BY <2>1, <2>3 DEF NetLook, At
  <2>4. CASE AddRules(n)
    <3>1. CASE DidWith(n, 1, [work[n] EXCEPT !.lack = {"ssh", Name(n)} \ rules])
      <4> PICK x : x = [w EXCEPT !.lack = {"ssh", Name(n)} \ rules]
        OBVIOUS
      <4>1. "todo" \in DOMAIN x /\ x.todo = w.todo
        BY <1>5
      <4> QED
        BY <3>1, <4>1
    <3> QED
      BY <2>1, <2>4, <3>1 DEF AddRules
  <2>5. CASE Address(n)
    <3>1. CASE \E m \in Lookup(n, Name(n)) :
                  m.addr /\ DidWith(n, 1, Knows(work[n], n, Name(n), m)) /\ UNCHANGED unsure
      <4>1. PICK m \in Lookup(n, Name(n)) : DidWith(n, 1, Knows(w, n, Name(n), m))
        BY <3>1
      <4> PICK x : x = Knows(w, n, Name(n), m)
        OBVIOUS
      <4>2. "todo" \in DOMAIN x /\ x.todo = w.todo
        BY <1>5 DEF Knows
      <4> QED
        BY <4>1, <4>2
    <3> QED
      BY <2>5, <3>1 DEF Address
  <2> QED
    BY <2>2, <2>3, <2>4, <2>5
<1>7. ASSUME InTurn PROVE InTurn'
  <2>1. CASE Dies(n)
    BY <1>1, <1>3, <1>7, <2>1, CallInTurn
  <2>2. CASE \E x : "todo" \in DOMAIN x /\ x.todo = w.todo /\ DidWith(n, 1, x)
    <3>1. PICK x : "todo" \in DOMAIN x /\ x.todo = work[n].todo /\ DidWith(n, 1, x)
      BY <2>2
    <3>2. 1 \in Nat \ {0} /\ \A j \in 1..1 : x.todo[j].op # "reuse"
      BY <1>1, <3>1
    <3> QED
      BY <1>1, <1>3, <1>7, <3>1, <3>2, AdvanceInTurn
  <2>3. CASE \/ Did(n, 2) /\ w.todo[1].op \in {"find", "route?"}
             \/ Did(n, 3) /\ w.todo[1].op \in {"gateway?", "dhcp?"}
    <3> PICK s : s = w.todo
      OBVIOUS
    <3>1. s \in Seq(Calls) /\ LooksWhole(s) /\ 1 \in 1..Len(s) /\ s[1].op # "reuse"
      <4>1. s \in Seq(Calls) /\ s # <<>>
        BY <1>1, <1>4 DEF WorkerType, Busy
      <4>2. 1 \in 1..Len(s)
        <5>1. Len(s) \in Nat /\ Len(s) # 0
          BY <4>1, LenProperties, EmptySeq
        <5> QED
          BY <5>1
      <4> QED
        BY <1>1, <1>7, <4>1, <4>2 DEF InTurn, Orderly
    <3>2. PICK k \in {2, 3} : Did(n, k) /\ (k = 2 => s[1].op \in {"find", "route?"})
                              /\ (k = 3 => s[1].op \in {"gateway?", "dhcp?"})
      BY <2>3
    <3>3. \A j \in 1..k : s[j].op # "reuse"
      <4>1. s[1 + 1].op # "reuse" /\ (k = 3 => s[1 + 2].op # "reuse")
        BY <3>1, <3>2 DEF LooksWhole
      <4>2. \A j \in 1..k : j = 1 \/ j = 1 + 1 \/ (k = 3 /\ j = 1 + 2)
        BY <3>2
      <4> QED
        BY <3>1, <4>1, <4>2
    <3>4. k \in Nat \ {0} /\ DidWith(n, k, w) /\ w.todo = work[n].todo /\ \A j \in 1..k : w.todo[j].op # "reuse"
      BY <3>2, <3>3 DEF Did
    <3> QED
      BY <1>1, <1>3, <1>5, <1>7, <3>4, AdvanceInTurn
  <2> QED
    BY <1>6, <2>1, <2>2, <2>3
<1> QED
  BY <1>2, <1>3, <1>7, KinUnique

\* destroy_vm() fails: what is left of it looks no shared machine up to use it.
LEMMA DestroyFailsUnique == ASSUME CloudInv, CloudInv', Unique, NEW n \in Nodes, DestroyFails(n) PROVE Unique'
<1> USE DEF DestroyFails
<1>1. Busy(n) /\ UNCHANGED lab /\ machines' = machines
  BY DEF Destroying
<1>2. Kin
  BY <1>1, SameKin
<1> PICK w : w = work[n]
  OBVIOUS
<1>3. w \in WorkerType(made) /\ w.todo # <<>> /\ OwnedBy(machines, cloud, undeleted, n, w) /\ made \in Nat
  BY <1>1, AtCall
<1>4. HasDelete(w.todo)
  <2>1. DOMAIN w.todo = 1..Len(w.todo)
    BY <1>3, LenProperties DEF WorkerType
  <2> QED
    BY <2>1 DEF Destroying, HasDelete
<1>5. Len(w.todo) >= 3 /\ Len(w.todo) \in Nat /\ \E i \in 1..3 : w.todo[i].op = "delete"
  <2> PICK M, U, k, c, V : M = machines /\ U = undeleted /\ k = made /\ c = cloud /\ V = undeleted \cup {n}
    OBVIOUS
  <2>1. k \in Nat /\ w \in WorkerType(k) /\ OwnedBy(M, c, U, n, w) /\ w.todo # <<>> /\ HasDelete(w.todo) /\ V = U \cup {n}
    BY <1>3, <1>4
  <2> QED
    BY ONLY n \in Nodes, <2>1, UndeletedOwned
<1>6. PICK j \in 1..3 : w.todo[j].op = "delete" /\ Did(n, j)
  BY <1>5
<1>7. ASSUME InTurn PROVE InTurn'
  <2>1. ASSUME NEW i \in 1..j, i \in 1..Len(w.todo) PROVE w.todo[i].op # "reuse"
    <3>1. CASE i = j
      BY <1>6, <3>1
    <3>2. CASE i # j
      <4>1. j \in 1..Len(w.todo) /\ i < j
        BY <1>5, <3>2
      <4> QED
        BY <1>6, <1>7, <2>1, <4>1 DEF InTurn, Orderly, DeleteBefore
    <3> QED
      BY <3>1, <3>2
  <2>2. "todo" \in DOMAIN w /\ j \in Nat \ {0} /\ DidWith(n, j, w) /\ w.todo = work[n].todo
    BY <1>3, <1>6 DEF WorkerType, Did
  <2> QED
    BY <1>1, <1>2, <1>7, <2>1, <2>2, AdvanceInTurn
<1> QED
  BY <1>1, <1>2, <1>7, KinUnique

\* A shared machine that is found is used, and what was to make one is passed over; or none is found.
LEMMA ReuseUnique == ASSUME CloudInv, CloudInv', Unique, NEW n \in Nodes, Reuse(n) PROVE Unique'
<1> USE DEF Reuse
<1>1. Busy(n) /\ work[n].todo[1].op = "reuse" /\ UNCHANGED lab /\ machines' = machines
  BY DEF At
<1>2. Kin
  BY <1>1, SameKin
<1> PICK w, s, y : w = work[n] /\ s = w.todo /\ y = Name(n)
  OBVIOUS
<1>3. s \in Seq(Calls) /\ Len(s) \in Nat /\ 1 \in 1..Len(s) /\ DOMAIN s = 1..Len(s) /\ "todo" \in DOMAIN w
      /\ ReuseReady(s) /\ s[1].op = "reuse" /\ y = s[1].name
  <2>1. w \in WorkerType(made) /\ s # <<>> /\ OwnedBy(machines, cloud, undeleted, n, w)
    BY <1>1, AtCall
  <2>2. s \in Seq(Calls) /\ "todo" \in DOMAIN w /\ ReuseReady(s)
    BY <2>1 DEF WorkerType, OwnedBy, Kept
  <2>3. Len(s) \in Nat /\ DOMAIN s = 1..Len(s) /\ Len(s) # 0
    BY <2>1, <2>2, LenProperties, EmptySeq
  <2> QED
    BY <1>1, <2>2, <2>3 DEF Name
<1>4. ASSUME InTurn PROVE InTurn'
  <2>1. Orderly(s) /\ Fenced(machines, s) /\ Once(machines', Shared) /\ \A k \in Nodes \ {n} : ~Busy(k)
    BY <1>1, <1>4 DEF InTurn
  \* The worker, as x, has done its first k calls.
  <2>2. ASSUME NEW k \in Nat \ {0}, NEW x, "todo" \in DOMAIN x, x.todo = s, DidWith(n, k, x),
               \A i \in 1..Len(s) : k < i /\ s[i].op \in Makes /\ s[i].name \in Shared =>
                  (\E j \in 1..(i - 1) : k < j /\ s[j] = Call("reuse", s[i].name)) \/ \A m \in machines : m.name # s[i].name
        PROVE  InTurn'
    <3> PICK v : v = After(x, k)
      OBVIOUS
    <3>1. work' = [work EXCEPT ![n] = v]
      BY <2>2 DEF DidWith, After
    <3> PICK t, N : t = v.todo /\ N = machines
      OBVIOUS
    <3>2. t = SubSeq(s, k + 1, Len(s))
      <4>1. x.todo \in Seq(Calls)
        BY <1>3, <2>2
      <4>2. After(x, k).todo = SubSeq(x.todo, k + 1, Len(x.todo))
        BY ONLY <2>2, <4>1, AfterTodo
      <4> QED
        BY <2>2, <4>2
    <3>3. Orderly(t)
      <4>1. s \in Seq(Calls) /\ Orderly(s) /\ k \in Nat \ {0}
        BY <1>3, <2>1
      <4> QED
        BY ONLY <3>2, <4>1, OrderlyTail
    <3>4. Fenced(N, t)
      <4>1. /\ s \in Seq(Calls) /\ k \in Nat \ {0}
            /\ \A i \in 1..Len(s) : k < i /\ s[i].op \in Makes /\ s[i].name \in Shared =>
                  (\E j \in 1..(i - 1) : k < j /\ s[j] = Call("reuse", s[i].name)) \/ \A m \in N : m.name # s[i].name
        BY <1>3, <2>2
      <4> QED
        BY ONLY <3>2, <4>1, FencedTail
    <3> QED
      BY <1>1, <1>4, <2>1, <3>1, <3>3, <3>4, WorkerInTurn
  <2>3. CASE Lookup(n, y) = {} /\ Did(n, 1)
    <3>1. \A m \in machines : m.name # y
      BY <2>3, LookedUp
    <3>2. ASSUME NEW i \in 1..Len(s), 1 < i, s[i].op \in Makes, s[i].name \in Shared
          PROVE  (\E j \in 1..(i - 1) : 1 < j /\ s[j] = Call("reuse", s[i].name)) \/ \A m \in machines : m.name # s[i].name
      <4>1. CASE Sought(s, i)
        <5>1. PICK j \in 1..(i - 1) : s[j] = Call("reuse", s[i].name)
          BY <4>1 DEF Sought
        <5>2. j = 1 => s[i].name = y
          BY <1>3, <5>1 DEF Call
        <5>3. j # 1 => 1 < j
          OBVIOUS
        <5> QED
          BY <3>1, <5>1, <5>2, <5>3
      <4> QED
        BY <2>1, <3>2, <4>1 DEF Fenced
    <3>3. 1 \in Nat \ {0} /\ DidWith(n, 1, w) /\ w.todo = s
      BY <2>3 DEF Did
    <3> QED
      BY <1>3, <2>2, <3>2, <3>3
  <2>4. CASE \E m \in Lookup(n, y) :
                DidWith(n, CHOOSE i \in DOMAIN work[n].todo : work[n].todo[i] = Call("ready", y), Knows(work[n], n, y, m))
    <3>1. PICK m \in Lookup(n, y) : DidWith(n, CHOOSE i \in DOMAIN s : s[i] = Call("ready", y), Knows(w, n, y, m))
      BY <2>4
    <3> PICK k : k = CHOOSE i \in DOMAIN s : s[i] = Call("ready", y)
      OBVIOUS
    <3> PICK x : x = Knows(w, n, y, m)
      OBVIOUS
    <3>2. k \in 1..Len(s) /\ s[k].op = "ready" /\ s[k].name = y /\ s[k] = Call("ready", y)
      <4>1. \E i \in DOMAIN s : s[i] = Call("ready", y)
        BY <1>3 DEF ReuseReady
      <4>2. k \in DOMAIN s /\ s[k] = Call("ready", y)
        BY <4>1
      <4>3. Call("ready", y).op = "ready" /\ Call("ready", y).name = y
        BY DEF Call
      <4>4. DOMAIN s = 1..Len(s)
        BY <1>3
      <4> QED
        BY ONLY <4>2, <4>3, <4>4
    <3>3. ASSUME NEW i \in 1..Len(s), k < i, s[i].op \in Makes, s[i].name \in Shared
          PROVE  (\E j \in 1..(i - 1) : k < j /\ s[j] = Call("reuse", s[i].name)) \/ \A l \in machines : l.name # s[i].name
      <4>1. s[i].name # y
        <5>1. OneMaking(s) /\ k \in 1..Len(s) /\ s[k].op \in Makes \cup {"ready"} /\ s[k].name = y
          BY <2>1, <3>2 DEF Orderly
        <5> QED
          BY ONLY <3>3, <5>1 DEF OneMaking
      <4>2. CASE Sought(s, i)
        <5>1. PICK j \in 1..(i - 1) : s[j] = Call("reuse", s[i].name)
          BY <4>2 DEF Sought
        <5>2. s[j].op = "reuse" /\ s[j].name # y /\ j \in 1..Len(s)
          BY <1>3, <4>1, <5>1 DEF Call
        <5>3. j # 1 /\ j # k
          BY <1>3, <3>2, <5>2
        <5>4. ~(j < k)
          <6>1. 1 < j
            BY <5>2, <5>3
          <6>2. j < k => s[j].op # "reuse"
            BY <1>3, <2>1, <3>2, <5>2, <6>1 DEF Orderly, NoneBetween
          <6> QED
            BY <5>2, <6>2
        <5>5. k < j
          BY <3>2, <5>2, <5>3, <5>4
        <5> QED
          BY <5>1, <5>5
      <4> QED
        BY <2>1, <3>3, <4>2 DEF Fenced
    <3>4. k \in Nat \ {0} /\ DidWith(n, k, x) /\ "todo" \in DOMAIN x /\ x.todo = s
      <4>1. "todo" \in DOMAIN x /\ x.todo = s
        BY <1>3 DEF Knows
      <4>2. k \in Nat \ {0}
        <5>1. k \in 1..Len(s) /\ Len(s) \in Nat
          BY <1>3, <3>2
        <5> QED
          BY ONLY <5>1
      <4> QED
        BY <3>1, <4>1, <4>2
    <3> QED
      BY <2>2, <3>3, <3>4
  <2>5. CASE Dies(n)
    BY <1>1, <1>4, <2>1, <2>5, DeadInTurn
  <2> QED
    BY <2>3, <2>4, <2>5
<1> QED
  BY <1>1, <1>2, <1>4, KinUnique

\* A machine is made when there is none of its name.
LEMMA MadeOnce ==
    ASSUME NEW n \in Nodes, NEW on, Making(n, on), NEW X, Once(machines, X),
           Name(n) \in X => \A m \in machines : m.name # Name(n)
    PROVE  Once(machines', X)
<1> PICK r : r = [id |-> made + 1, name |-> Name(n), on |-> on, data |-> on, addr |-> FALSE, up |-> FALSE]
  OBVIOUS
<1>1. machines' = machines \cup {r} /\ r.name = Name(n)
  BY DEF Making
<1> PICK M, N, y : M = machines /\ N = machines' /\ y = Name(n)
  OBVIOUS
<1>2. N = M \cup {r} /\ r.name = y /\ Once(M, X) /\ (y \in X => \A m \in M : m.name # y)
  BY <1>1
<1>3. Once(N, X)
  BY ONLY <1>2 DEF Once
<1> QED
  BY <1>3

\* A worker makes a shared machine in turn when there is none of its name.
LEMMA NoneYet ==
    ASSUME CloudInv, InTurn, NEW n \in Nodes, Busy(n), work[n].todo[1].op \in Makes, Name(n) \in Shared
    PROVE  \A m \in machines : m.name # Name(n)
<1> PICK s : s = work[n].todo
  OBVIOUS
<1>1. s # <<>> /\ s \in Seq(Calls)
  BY AtCall DEF WorkerType
<1>2. 1 \in 1..Len(s)
  <2>1. Len(s) \in Nat /\ Len(s) # 0
    BY <1>1, LenProperties, EmptySeq
  <2> QED
    BY <2>1
<1>3. Sought(s, 1) \/ \A m \in machines : m.name # Name(n)
  BY <1>2 DEF InTurn, Fenced, Name
<1>4. ~Sought(s, 1)
  BY DEF Sought
<1> QED
  BY <1>3, <1>4

\* create_vm() of a shared machine comes after a look-up that found none, or is refused.
LEMMA CreateUnique == ASSUME CloudInv, CloudInv', Unique, NEW n \in Nodes, CreateCall(n) PROVE Unique'
<1> USE DEF CreateCall
<1>1. Busy(n) /\ work[n].todo[1].op \in Makes /\ UNCHANGED lab
  BY DEF At, Makes
<1>2. CASE Find[cloud].refused /\ \E m \in machines : m.name = Name(n)
  <2>1. Dies(n) /\ machines' = machines
    BY <1>2
  <2>2. Kin
    BY <2>1, SameKin
  <2>3. InTurn => InTurn'
    BY <1>1, <2>1, DeadInTurn DEF InTurn
  <2> QED
    BY <1>1, <2>2, <2>3, KinUnique
<1>3. CASE ~(Find[cloud].refused /\ \E m \in machines : m.name = Name(n))
  <2> PICK x : x = [work[n] EXCEPT !.seen = made + 1, !.mine = @ \cup {made + 1},
                                   !.own = IF Name(n) = n THEN made + 1 ELSE @]
    OBVIOUS
  <2>1. Making(n, At(n, "create")) /\ DidWith(n, 1, x)
    BY <1>3
  <2>2. cloud' = cloud /\ mode' = mode
    BY <1>1 DEF lab
  <2>3. Find[cloud].refused => Once(machines', Nodes \cup Shared)
    BY <1>3, <2>1, MadeOnce DEF Unique
  <2>4. ASSUME InTurn PROVE InTurn'
    <3> PICK s, y : s = work[n].todo /\ y = Name(n)
      OBVIOUS
    <3>1. s \in Seq(Calls) /\ Len(s) \in Nat /\ 1 \in 1..Len(s) /\ s[1].op \in Makes /\ s[1].name = y
          /\ "todo" \in DOMAIN x /\ x.todo = s
      <4>1. work[n] \in WorkerType(made) /\ s # <<>>
        BY <1>1, AtCall
      <4>2. s \in Seq(Calls) /\ "todo" \in DOMAIN work[n]
        BY <4>1 DEF WorkerType
      <4>3. Len(s) \in Nat /\ Len(s) # 0
        BY <4>1, <4>2, LenProperties, EmptySeq
      <4>4. "todo" \in DOMAIN x /\ x.todo = s
        BY <4>2
      <4> QED
        BY <1>1, <4>2, <4>3, <4>4 DEF Name
    <3>2. Orderly(s) /\ Fenced(machines, s) /\ \A k \in Nodes \ {n} : ~Busy(k)
      BY <1>1, <2>4 DEF InTurn
    <3>3. Once(machines', Shared)
      BY <1>1, <2>1, <2>4, MadeOnce, NoneYet DEF InTurn
    <3> PICK v, N : v = After(x, 1) /\ N = machines'
      OBVIOUS
    <3> PICK t : t = v.todo
      OBVIOUS
    <3>4. work' = [work EXCEPT ![n] = v]
      BY <2>1 DEF DidWith, After
    <3>5. t = SubSeq(s, 1 + 1, Len(s))
      <4>1. 1 \in Nat \ {0} /\ x.todo \in Seq(Calls)
        BY <3>1
      <4>2. After(x, 1).todo = SubSeq(x.todo, 1 + 1, Len(x.todo))
        BY ONLY <3>1, <4>1, AfterTodo
      <4> QED
        BY <3>1, <4>2
    <3>6. Orderly(t)
      <4>1. 1 \in Nat \ {0} /\ s \in Seq(Calls) /\ Orderly(s)
        BY <3>1, <3>2
      <4> QED
        BY ONLY <3>5, <4>1, OrderlyTail
    <3>7. ASSUME NEW i \in 1..Len(s), 1 < i, s[i].op \in Makes, s[i].name \in Shared
          PROVE  (\E j \in 1..(i - 1) : 1 < j /\ s[j] = Call("reuse", s[i].name)) \/ \A m \in N : m.name # s[i].name
      <4>1. s[i].name # y
        BY <3>1, <3>2, <3>7 DEF Orderly, OneMaking
      <4>2. CASE Sought(s, i)
        <5>1. PICK j \in 1..(i - 1) : s[j] = Call("reuse", s[i].name)
          BY <4>2 DEF Sought
        <5>2. j # 1
          BY <3>1, <5>1 DEF Call, Makes
        <5>3. 1 < j
          BY <5>2
        <5> QED
          BY <5>1, <5>3
      <4>3. CASE \A m \in machines : m.name # s[i].name
        BY <2>1, <4>1, <4>3 DEF Making
      <4> QED
        BY <3>2, <3>7, <4>2, <4>3 DEF Fenced
    <3>8. Fenced(N, t)
      <4>1. /\ 1 \in Nat \ {0} /\ s \in Seq(Calls)
            /\ \A i \in 1..Len(s) : 1 < i /\ s[i].op \in Makes /\ s[i].name \in Shared =>
                  (\E j \in 1..(i - 1) : 1 < j /\ s[j] = Call("reuse", s[i].name)) \/ \A m \in N : m.name # s[i].name
        BY <3>1, <3>7
      <4> QED
        BY ONLY <3>5, <4>1, FencedTail
    <3> QED
      BY <2>4, <3>2, <3>3, <3>4, <3>6, <3>8, WorkerInTurn
  <2> QED
    BY <2>2, <2>3, <2>4 DEF Unique
<1> QED
  BY <1>2, <1>3

\* A call fails, perhaps after the machine was made all the same.
LEMMA CallFailsUnique == ASSUME CloudInv, CloudInv', Unique, NEW n \in Nodes, CallFails(n) PROVE Unique'
<1> USE DEF CallFails
<1>1. Busy(n) /\ UNCHANGED lab /\ Dies(n)
  OBVIOUS
<1>2. CASE machines' = machines
  <2>1. Kin
    BY <1>2, SameKin
  <2>2. InTurn => InTurn'
    BY <1>1, <1>2, DeadInTurn DEF InTurn
  <2> QED
    BY <1>1, <2>1, <2>2, KinUnique
<1>3. CASE /\ At(n, "create") \/ At(n, "create-off")
           /\ ~(Find[cloud].refused /\ \E m \in machines : m.name = Name(n))
           /\ Making(n, At(n, "create"))
  <2>1. cloud' = cloud /\ mode' = mode
    BY <1>1 DEF lab
  <2>2. work[n].todo[1].op \in Makes
    BY <1>3 DEF At, Makes
  <2>3. Find[cloud].refused => Once(machines', Nodes \cup Shared)
    BY <1>3, MadeOnce DEF Unique
  <2>4. ASSUME InTurn PROVE InTurn'
    <3>1. Once(machines', Shared)
      BY <1>1, <1>3, <2>2, <2>4, MadeOnce, NoneYet DEF InTurn
    <3> QED
      BY <1>1, <2>4, <3>1, DeadInTurn
  <2> QED
    BY <2>1, <2>3, <2>4 DEF Unique
<1> QED
  BY <1>2, <1>3

\* The operator's steps, the machines' own, and those of something else.
LEMMA OtherUnique ==
    ASSUME CloudInv, CloudInv', Unique,
           \/ \E x \in Nodes \cup Shared : PowerOff(x) \/ PowerOn(x)
           \/ \E m \in machines : Boots(m)
           \/ UNCHANGED vars
    PROVE  Unique'
<1>1. UNCHANGED lab /\ work' = work
  BY DEF PowerOff, PowerOn, Boots, vars, lab
<1>2. Kin
  <2>1. ASSUME NEW m \in machines, NEW r, r.id = m.id, r.name = m.name, machines' = (machines \ {m}) \cup {r} PROVE Kin
    BY <2>1 DEF Kin
  <2>2. \A m \in machines : m \in MachineType(made)
    BY DEF CloudInv, Types, StockType
  <2>3. ASSUME NEW x \in Nodes \cup Shared, PowerOff(x) PROVE Kin
    <3>1. PICK m \in machines : machines' = (machines \ {m}) \cup {[m EXCEPT !.on = FALSE, !.up = FALSE]}
      BY <2>3 DEF PowerOff
    <3> PICK r : r = [m EXCEPT !.on = FALSE, !.up = FALSE]
      OBVIOUS
    <3>2. r.id = m.id /\ r.name = m.name
      BY <2>2 DEF MachineType
    <3> QED
      BY <2>1, <3>1, <3>2
  <2>4. ASSUME NEW x \in Nodes \cup Shared, PowerOn(x) PROVE Kin
    <3>1. PICK m \in machines : machines' = (machines \ {m}) \cup {[m EXCEPT !.on = TRUE]}
      BY <2>4 DEF PowerOn
    <3> PICK r : r = [m EXCEPT !.on = TRUE]
      OBVIOUS
    <3>2. r.id = m.id /\ r.name = m.name
      BY <2>2 DEF MachineType
    <3> QED
      BY <2>1, <3>1, <3>2
  <2>5. ASSUME NEW m \in machines, Boots(m) PROVE Kin
    <3> PICK b : b = m.addr
      OBVIOUS
    <3> PICK r : r = [m EXCEPT !.addr = TRUE, !.up = b]
      OBVIOUS
    <3>1. machines' = (machines \ {m}) \cup {r}
      BY <2>5 DEF Boots
    <3>2. r.id = m.id /\ r.name = m.name
      BY <2>2 DEF MachineType
    <3> QED
      BY <2>1, <3>1, <3>2
  <2>6. CASE UNCHANGED vars
    BY <2>6, SameKin DEF vars
  <2> QED
    BY <2>3, <2>4, <2>5, <2>6
<1> QED
  BY <1>1, <1>2, IdleInTurn, KinUnique

\* So the machines that must be unique are, always.
LEMMA UniqueAlways == Spec => [](CloudInv /\ Unique)
<1>1. Init => Unique
  <2> SUFFICES ASSUME Init PROVE Unique
    OBVIOUS
  <2>1. machines = {} /\ \A n \in Nodes : work[n].todo = <<>>
    BY DEF Init, Idle
  <2> QED
    BY <2>1, NothingLeft DEF Unique, InTurn, Once, Busy
<1>2. CloudInv /\ CloudInv' /\ Unique /\ [Next]_vars => Unique'
  <2> SUFFICES ASSUME CloudInv, CloudInv', Unique, [Next]_vars PROVE Unique'
    OBVIOUS
  <2>1. ASSUME NEW n \in Nodes, Step(n) PROVE Unique'
    BY <2>1, CallUnique, LookUnique, ReuseUnique, CreateUnique DEF Step
  <2>2. ASSUME NEW n \in Nodes, Start(n) \/ DestroyFails(n) \/ CallFails(n) \/ RecordLost(n) PROVE Unique'
    BY <2>2, StartUnique, DestroyFailsUnique, CallFailsUnique, CallUnique
  <2> QED
    BY <2>1, <2>2, OtherUnique DEF Next
<1> QED
  BY <1>1, <1>2, CloudInvariant, PTL DEF Spec

\* ensure_cloud_dns_vm() (backends.py:4177-4254), ensure_overlay_hub() and ensure_site_gateway_vm() leave one
\* machine of a shared name, whatever fails and is tried again: when workers take turns, because the look-up
\* before the machine is made found none; in parallel, on a provider that refuses a second of a name.
THEOREM SharedVmIsOne == Spec => []OneSharedVm
<1>1. Unique => OneSharedVm
  BY DEF Unique, InTurn, Once, OneSharedVm
<1> QED
  BY <1>1, UniqueAlways, PTL

(***************************************************************************)
(* The machines are a registry of machines                                 *)
(***************************************************************************)
\* What a worker knows as its node's machine is one of its name.
Known(n) == work[n].got # 0 => Is(machines, work[n].got, n)
AllKnown == \A n \in Nodes : Known(n)

\* The node keeps its machines, and whether it is left out.
Unmoved(n) == (\A i : Is(machines', i, n) <=> Is(machines, i, n)) /\ (n \in undeleted' <=> n \in undeleted)
\* A step of node n's worker: it goes on with the machines as they are, or its node is left out;
\* its node's machine goes; or its node's machine comes, when there is none.
Goes(n) ==
    /\ \A i : Is(machines', i, n) <=> Is(machines, i, n)
    /\ n \in undeleted => n \in undeleted'
    /\ work'[n].got # 0 => work'[n].got = work[n].got \/ Is(machines, work'[n].got, n)
Removes(n) ==
    /\ work[n].got = 0 /\ work'[n].got = 0 /\ (n \in undeleted => n \in undeleted')
    /\ \E j : Is(machines, j, n) /\ \A i : Is(machines', i, n) <=> Is(machines, i, n) /\ i # j
Creates(n) ==
    /\ work[n].got = 0 /\ work'[n].got = 0 /\ (n \in undeleted' <=> n \in undeleted)
    /\ n \notin undeleted => \A i : ~Is(machines, i, n)
    /\ made + 1 \in Nat \ {0} /\ (\A x : ~Is(machines, made + 1, x))
    /\ \A i : Is(machines', i, n) <=> Is(machines, i, n) \/ i = made + 1
Moves(n) == /\ \A k \in Nodes \ {n} : Unmoved(k) /\ work'[k] = work[k]
            /\ Goes(n) \/ Removes(n) \/ Creates(n)

\* The machine a worker knows stays.
LEMMA KnownMoves == ASSUME AllKnown, NEW n \in Nodes, Moves(n) PROVE AllKnown'
<1> SUFFICES ASSUME NEW k \in Nodes, work'[k].got # 0 PROVE Is(machines', work'[k].got, k)
  BY DEF AllKnown, Known
<1>1. CASE k # n
  <2>1. work'[k] = work[k] /\ \A i : Is(machines', i, k) <=> Is(machines, i, k)
    BY <1>1 DEF Moves, Unmoved
  <2>2. Is(machines, work[k].got, k)
    BY <2>1 DEF AllKnown, Known
  <2> QED
    BY <2>1, <2>2
<1>2. CASE k = n
  <2>1. Goes(n)
    BY <1>2 DEF Moves, Removes, Creates
  <2>2. Is(machines, work'[k].got, k)
    BY <1>2, <2>1 DEF Goes, AllKnown, Known
  <2> QED
    BY <1>2, <2>1, <2>2 DEF Goes
<1> QED
  BY <1>1, <1>2

\* A worker does some calls, or fails, and all machines keep their names.
LEMMA QuietMoves ==
    ASSUME CloudInv, NEW n \in Nodes, NEW v, work' = [work EXCEPT ![n] = v], NamesKept, undeleted' \subseteq undeleted \cup {n},
           undeleted \subseteq undeleted', v.got = 0 \/ v.got = work[n].got \/ Is(machines, v.got, n)
    PROVE  Moves(n)
<1>1. work'[n] = v /\ \A k \in Nodes \ {n} : work'[k] = work[k]
  BY DEF CloudInv, Types, WorkType
<1>2. \A k \in Nodes \ {n} : Unmoved(k)
  BY DEF NamesKept, Unmoved
<1>3. Goes(n)
  BY <1>1 DEF NamesKept, Goes
<1> QED
  BY <1>1, <1>2, <1>3 DEF Moves

\* The machine that a worker knows after some calls.
LEMMA AfterGot == ASSUME NEW x, {"todo", "got"} \subseteq DOMAIN x, NEW j PROVE After(x, j).got = x.got
  BY DEF After, Idle

\* A worker goes on, and leaves the machines alone.
LEMMA DidMoves ==
    ASSUME CloudInv, NEW n \in Nodes, NEW x, {"todo", "got"} \subseteq DOMAIN x, NEW j, DidWith(n, j, x), NamesKept,
           undeleted' \subseteq undeleted \cup {n}, undeleted \subseteq undeleted',
           x.got = work[n].got \/ Is(machines, x.got, n)
    PROVE  Moves(n)
<1> PICK v : v = After(x, j)
  OBVIOUS
<1>1. work' = [work EXCEPT ![n] = v] /\ v.got = x.got
  BY AfterGot DEF DidWith, After
<1> QED
  BY <1>1, QuietMoves

\* ... as do a call that changes nothing it knows,
LEMMA CallMoves ==
    ASSUME CloudInv, NEW n \in Nodes, NEW j, Did(n, j), NamesKept, undeleted' \subseteq undeleted \cup {n}, undeleted \subseteq undeleted'
    PROVE  Moves(n)
<1> PICK x : x = work[n]
  OBVIOUS
<1>1. DidWith(n, j, x) /\ x.got = work[n].got
  BY DEF Did
<1>2. {"todo", "got"} \subseteq DOMAIN x
  BY DEF CloudInv, Types, WorkType, WorkerType
<1> QED
  BY <1>1, <1>2, DidMoves

\* ... and one that fails.
LEMMA DeadMoves == ASSUME CloudInv, NEW n \in Nodes, Dies(n), NamesKept, UNCHANGED undeleted PROVE Moves(n)
<1>1. work' = [work EXCEPT ![n] = Dead] /\ Dead.got = 0
  BY DEF Dies, Dead, Idle
<1> QED
  BY <1>1, QuietMoves

\* create_vm() of the node, or of a shared machine.
LEMMA MakingMoves ==
    ASSUME CloudInv, NEW n \in Nodes, At(n, "create") \/ At(n, "create-off"), Making(n, At(n, "create")), UNCHANGED undeleted,
           NEW v, work' = [work EXCEPT ![n] = v], v.got = 0 \/ v.got = work[n].got
    PROVE  Moves(n)
<1>1. Busy(n) /\ work[n].todo[1].op \in Makes
  BY DEF At, Makes
<1>2. /\ work[n] \in WorkerType(made) /\ work[n].todo # <<>> /\ OwnedBy(machines, cloud, undeleted, n, work[n])
      /\ made \in Nat /\ machines \subseteq MachineType(made)
  BY <1>1, AtCall
<1>3. /\ \A k \in Nodes : k # n => \A i : Is(machines', i, k) <=> Is(machines, i, k)
      /\ \E r \in MachineType(made') : r.id = made' /\ r.name = work[n].todo[1].name /\ machines' = machines \cup {r}
      /\ made' = made + 1
  BY MakingStock
<1>4. PICK r \in MachineType(made') : r.id = made + 1 /\ r.name = work[n].todo[1].name /\ machines' = machines \cup {r}
  BY <1>3
<1>5. work'[n] = v /\ \A k \in Nodes \ {n} : work'[k] = work[k]
  BY DEF CloudInv, Types, WorkType
<1>6. \A k \in Nodes \ {n} : Unmoved(k)
  BY <1>3 DEF Unmoved
<1>7. \/ work[n].todo[1].name # n
      \/ /\ work[n].todo[1].name = n /\ work[n].got = 0
         /\ n \notin undeleted => \A m \in machines : m.name # n
  <2> PICK M, U, k, c, w : M = machines /\ U = undeleted /\ k = made /\ c = cloud /\ w = work[n]
    OBVIOUS
  <2>1. k \in Nat /\ w \in WorkerType(k) /\ OwnedBy(M, c, U, n, w) /\ w.todo # <<>> /\ w.todo[1].op \in Makes
    BY <1>1, <1>2
  <2>2. \/ w.todo[1].name # n /\ w.todo[1].name \in Shared /\ Placed(n, w.todo) /\ w.got # 0
        \/ /\ w.todo[1].name = n /\ w.own = 0 /\ w.got = 0 /\ w.mine = {}
           /\ n \notin U => \A m \in M : m.name # n
           /\ Len(w.todo) # 1 /\ Made(n, SubSeq(w.todo, 2, Len(w.todo)))
    BY ONLY n \in Nodes, <2>1, MakerOwned
  <2> QED
    BY <2>2
<1>8. CASE work[n].todo[1].name # n
  <2>1. \A i : Is(machines', i, n) <=> Is(machines, i, n)
    BY <1>4, <1>8 DEF Is
  <2>2. Goes(n)
    BY <1>5, <2>1 DEF Goes
  <2> QED
    BY <1>5, <1>6, <2>2 DEF Moves
<1>9. CASE work[n].todo[1].name = n
  <2>1. \A i : Is(machines', i, n) <=> Is(machines, i, n) \/ i = made + 1
    BY <1>4, <1>9 DEF Is
  <2>2. \A m \in machines : m.id # made + 1
    <3>1. \A m \in machines : m.id \in 1..made
      BY <1>2 DEF MachineType
    <3> QED
      BY <1>2, <3>1
  <2>3. (\A x : ~Is(machines, made + 1, x)) /\ made + 1 \in Nat \ {0}
    BY <1>2, <2>2 DEF Is
  <2>4. n \notin undeleted => \A i : ~Is(machines, i, n)
    BY <1>7, <1>9 DEF Is
  <2>5. work[n].got = 0 /\ work'[n].got = 0
    BY <1>5, <1>7, <1>9
  <2>6. Creates(n)
    BY <2>1, <2>3, <2>4, <2>5 DEF Creates
  <2> QED
    BY <1>5, <1>6, <2>6 DEF Moves
<1> QED
  BY <1>8, <1>9

\* delete_vm() removes a machine of its node.
LEMMA DeleteMoves == ASSUME CloudInv, NEW n \in Nodes, DeleteCall(n) PROVE Moves(n)
<1> USE DEF DeleteCall
<1>1. Busy(n) /\ work[n].todo[1].op = "delete"
  BY DEF At
<1> PICK w : w = work[n]
  OBVIOUS
<1>2. /\ w \in WorkerType(made) /\ w.todo # <<>> /\ OwnedBy(machines, cloud, undeleted, n, w) /\ w.todo[1].op = "delete"
      /\ made \in Nat /\ OneEach(machines)
  BY <1>1, AtCall
<1>3. Unmade(n, w.todo) /\ Before(machines, undeleted, n, w)
  <2> PICK M, U, k, c : M = machines /\ U = undeleted /\ k = made /\ c = cloud
    OBVIOUS
  <2>1. k \in Nat /\ w \in WorkerType(k) /\ OwnedBy(M, c, U, n, w) /\ w.todo # <<>> /\ w.todo[1].op \in {"unregister", "delete"}
    BY <1>2
  <2>2. Unmade(n, w.todo) /\ Before(M, U, n, w)
    BY ONLY n \in Nodes, <2>1, Phase
  <2> QED
    BY <2>2
<1>4. w.got = 0 /\ Is(machines, w.seen, n)
  BY <1>2, <1>3 DEF Before
<1>5. \A l \in machines : l.id = w.seen => l.name = n
  BY <1>2, <1>4 DEF OneEach, Is
<1>6. machines' = {m \in machines : m.id # w.seen}
  OBVIOUS
<1>7. \A i : Is(machines', i, n) <=> Is(machines, i, n) /\ i # w.seen
  BY <1>6 DEF Is
<1>8. \A k \in Nodes \ {n} : \A i : Is(machines', i, k) <=> Is(machines, i, k)
  BY <1>5, <1>6 DEF Is
<1>9. (n \in undeleted => n \in undeleted') /\ \A k \in Nodes \ {n} : k \in undeleted' <=> k \in undeleted
  OBVIOUS
<1> PICK v : v = After(w, 1)
  OBVIOUS
<1>10. work' = [work EXCEPT ![n] = v] /\ v.got = w.got
  BY <1>2, AfterGot DEF Did, DidWith, After, WorkerType
<1>11. work'[n] = v /\ \A k \in Nodes \ {n} : work'[k] = work[k]
  BY <1>10 DEF CloudInv, Types, WorkType
<1>12. Removes(n)
  BY <1>4, <1>7, <1>9, <1>10, <1>11 DEF Removes
<1> QED
  BY <1>8, <1>9, <1>11, <1>12 DEF Moves, Unmoved

\* A call that puts a machine in the place of one of its id and name keeps the names.
LEMMA SwitchKept ==
    ASSUME NEW m \in machines, NEW r, r.id = m.id, r.name = m.name, machines' = (machines \ {m}) \cup {r}
    PROVE  NamesKept
  BY DEF NamesKept, Is

\* A machine that is set up keeps its name and id.
LEMMA SetUpKept == ASSUME CloudInv, NEW n \in Nodes, SetUp(n) PROVE NamesKept
<1> DEFINE Changed(m) == IF m.id # work[n].seen THEN m ELSE [m EXCEPT !.data = TRUE, !.on = At(n, "power-on")]
<1>1. \A m \in machines : Changed(m).id = m.id /\ Changed(m).name = m.name
  <2> SUFFICES ASSUME NEW m \in machines PROVE Changed(m).id = m.id /\ Changed(m).name = m.name
    OBVIOUS
  <2>1. m \in MachineType(made)
    BY DEF CloudInv, Types, StockType
  <2> PICK b : b = At(n, "power-on")
    OBVIOUS
  <2>2. Changed(m) = m \/ Changed(m) = [m EXCEPT !.data = TRUE, !.on = b]
    OBVIOUS
  <2> HIDE DEF Changed
  <2> QED
    BY <2>1, <2>2 DEF MachineType
<1>2. machines' = {Changed(m) : m \in machines}
  BY DEF SetUp
<1> HIDE DEF Changed
<1>3. ASSUME NEW i, NEW x PROVE Is(machines', i, x) <=> Is(machines, i, x)
  <2>1. ASSUME NEW m \in machines, m.id = i, m.name = x PROVE \E l \in machines' : l.id = i /\ l.name = x
    <3>1. Changed(m) \in machines' /\ Changed(m).id = i /\ Changed(m).name = x
      BY <1>1, <1>2, <2>1
    <3> QED
      BY <3>1
  <2>2. ASSUME NEW l \in machines', l.id = i, l.name = x PROVE \E m \in machines : m.id = i /\ m.name = x
    <3>1. PICK m \in machines : l = Changed(m)
      BY <1>2
    <3> QED
      BY <1>1, <2>2, <3>1
  <2> QED
    BY <2>1, <2>2 DEF Is
<1> QED
  BY <1>3 DEF NamesKept

\* A look-up of a worker's own node finds a machine of the node.
LEMMA FoundIs == ASSUME NEW n \in Nodes, NEW x, NEW m \in Lookup(n, x) PROVE Is(machines, m.id, x)
  BY LookedUp DEF Is

\* A worker knows a machine of the name that it looked up.
LEMMA KnowsMoves ==
    ASSUME CloudInv, NEW n \in Nodes, NEW x, NEW m \in Lookup(n, x), NEW j, DidWith(n, j, Knows(work[n], n, x, m)),
           NamesKept, UNCHANGED undeleted
    PROVE  Moves(n)
<1> PICK w : w = work[n]
  OBVIOUS
<1> PICK i : i = m.id
  OBVIOUS
<1> PICK y : y = [w EXCEPT !.seen = i, !.got = IF x = n THEN i ELSE @, !.dns = IF x = "dns" THEN i ELSE @]
  OBVIOUS
<1>1. w \in WorkerType(made) /\ DidWith(n, j, y)
  BY DEF Knows, CloudInv, Types, WorkType
<1>2. {"todo", "got"} \subseteq DOMAIN y /\ y.got = IF x = n THEN i ELSE w.got
  BY <1>1 DEF WorkerType
<1>3. x = n => Is(machines, y.got, n)
  BY <1>2, FoundIs
<1> QED
  BY <1>1, <1>2, <1>3, DidMoves

\* What changes neither the node it is told of nor the machines' names.
LEMMA FieldMoves ==
    ASSUME CloudInv, NEW n \in Nodes, NEW x, DOMAIN x = DOMAIN work[n], x.got = work[n].got, NEW j, DidWith(n, j, x), NamesKept,
           UNCHANGED undeleted
    PROVE  Moves(n)
<1>1. {"todo", "got"} \subseteq DOMAIN x
  BY DEF CloudInv, Types, WorkType, WorkerType
<1> QED
  BY <1>1, DidMoves

\* Each call of a worker is one of these.
LEMMA StepMoves == ASSUME CloudInv, NEW n \in Nodes, Step(n) PROVE Moves(n)
<1>0. work[n] \in WorkerType(made)
  BY DEF CloudInv, Types, WorkType
<1>1. ASSUME machines' = machines, UNCHANGED undeleted, NEW j, Did(n, j) \/ Dies(n) PROVE Moves(n)
  BY <1>1, SameMachines, CallMoves, DeadMoves
<1>2. CASE Unregister(n) \/ Ready(n) \/ Register(n) \/ NoEffect(n) \/ NetLook(n) \/ NetCall(n) \/ PutRules(n)
  BY <1>1, <1>2 DEF Unregister, Ready, Register, NoEffect, NetLook, NetCall, PutRules, account, ghosts
<1>3. CASE FindCall(n)
  <2>1. UNCHANGED <<machines, undeleted>>
    BY <1>3 DEF FindCall
  <2>2. CASE \E m \in Lookup(n, Name(n)) : DidWith(n, 1, [work[n] EXCEPT !.seen = m.id])
    <3>1. PICK m \in Lookup(n, Name(n)) : DidWith(n, 1, [work[n] EXCEPT !.seen = m.id])
      BY <2>2
    <3> PICK i : i = m.id
      OBVIOUS
    <3> PICK x : x = [work[n] EXCEPT !.seen = i]
      OBVIOUS
    <3>2. DOMAIN x = DOMAIN work[n] /\ x.got = work[n].got /\ DidWith(n, 1, x)
      BY <1>0, <3>1 DEF WorkerType
    <3> QED
      BY <2>1, <3>2, SameMachines, FieldMoves
  <2>3. CASE Did(n, 2) \/ Dies(n)
    BY <1>1, <2>1, <2>3
  <2> QED
    BY <1>3, <2>2, <2>3 DEF FindCall
<1>4. CASE CreateCall(n)
  <2>1. CASE Dies(n) /\ UNCHANGED <<machines, made>>
    BY <1>1, <1>4, <2>1 DEF CreateCall
  <2>2. CASE Making(n, At(n, "create"))
             /\ DidWith(n, 1, [work[n] EXCEPT !.seen = made + 1, !.mine = @ \cup {made + 1},
                                              !.own = IF Name(n) = n THEN made + 1 ELSE @])
    <3> PICK i, o, t : i = made + 1 /\ o = (IF Name(n) = n THEN made + 1 ELSE work[n].own) /\ t = work[n].mine \cup {made + 1}
      OBVIOUS
    <3> PICK x : x = [work[n] EXCEPT !.seen = i, !.mine = t, !.own = o]
      OBVIOUS
    <3>1. {"todo", "got"} \subseteq DOMAIN x /\ x.got = work[n].got /\ DidWith(n, 1, x)
      BY <1>0, <2>2 DEF WorkerType
    <3> PICK v : v = After(x, 1)
      OBVIOUS
    <3>2. work' = [work EXCEPT ![n] = v] /\ v.got = work[n].got
      BY <3>1, AfterGot DEF DidWith, After
    <3> QED
      BY <1>4, <2>2, <3>2, MakingMoves DEF CreateCall
  <2> QED
    BY <1>4, <2>1, <2>2 DEF CreateCall
<1>5. CASE SetUp(n)
  BY <1>5, SetUpKept, CallMoves DEF SetUp, ghosts
<1>6. CASE Address(n)
  BY <1>1, <1>6, SameMachines, KnowsMoves DEF Address
<1>7. CASE Reuse(n)
  <2>1. UNCHANGED <<machines, undeleted>>
    BY <1>7 DEF Reuse
  <2>2. CASE \E m \in Lookup(n, Name(n)) : DidWith(n, CHOOSE i \in DOMAIN work[n].todo : work[n].todo[i] = Call("ready", Name(n)),
                                                    Knows(work[n], n, Name(n), m))
    BY <2>1, <2>2, SameMachines, KnowsMoves
  <2>3. CASE Did(n, 1) \/ Dies(n)
    BY <1>1, <2>1, <2>3
  <2> QED
    BY <1>7, <2>2, <2>3 DEF Reuse
<1>8. CASE AddRules(n)
  <2>1. UNCHANGED <<machines, undeleted>>
    BY <1>8 DEF AddRules
  <2>2. CASE DidWith(n, 1, [work[n] EXCEPT !.lack = {"ssh", Name(n)} \ rules])
    <3> PICK i : i = {"ssh", Name(n)} \ rules
      OBVIOUS
    <3> PICK x : x = [work[n] EXCEPT !.lack = i]
      OBVIOUS
    <3>1. DOMAIN x = DOMAIN work[n] /\ x.got = work[n].got /\ DidWith(n, 1, x)
      BY <1>0, <2>2 DEF WorkerType
    <3> QED
      BY <2>1, <3>1, SameMachines, FieldMoves
  <2>3. CASE Did(n, 1) \/ Dies(n)
    BY <1>1, <2>1, <2>3
  <2> QED
    BY <1>8, <2>2, <2>3 DEF AddRules
<1> QED
  BY <1>2, <1>3, <1>4, <1>5, <1>6, <1>7, <1>8, DeleteMoves DEF Step

\* What is left: a worker starts, a destruction or a call fails, or no worker moves.
LEMMA FailMoves ==
    ASSUME CloudInv, NEW n \in Nodes, Start(n) \/ DestroyFails(n) \/ CallFails(n) \/ RecordLost(n)
    PROVE  Moves(n)
<1>1. CASE Start(n)
  <2> PICK v : v = [Idle EXCEPT !.todo = <<Call("unregister", n)>> \o Delete(n) \o Provision(cloud, n, overlay)]
    OBVIOUS
  <2>1. v.got = 0
    BY DEF Idle
  <2>2. work' = [work EXCEPT ![n] = v] /\ UNCHANGED <<machines, undeleted>>
    BY <1>1 DEF Start, ghosts
  <2> QED
    BY <2>1, <2>2, SameMachines, QuietMoves
<1>2. CASE DestroyFails(n)
  <2>1. machines' = machines /\ undeleted' = undeleted \cup {n}
    BY <1>2 DEF DestroyFails
  <2>2. \E j : Did(n, j)
    BY <1>2 DEF DestroyFails
  <2> QED
    BY <2>1, <2>2, SameMachines, CallMoves
<1>3. CASE CallFails(n)
  <2>1. Dies(n) /\ undeleted' = undeleted /\ work' = [work EXCEPT ![n] = Dead] /\ Dead.got = 0
    BY <1>3 DEF CallFails, Dies, Dead, Idle
  <2>2. CASE UNCHANGED <<machines, made>>
    BY <2>1, <2>2, SameMachines, DeadMoves
  <2>3. CASE (At(n, "create") \/ At(n, "create-off")) /\ Making(n, At(n, "create"))
    BY <2>1, <2>3, MakingMoves
  <2> QED
    BY <1>3, <2>2, <2>3 DEF CallFails
<1>4. CASE RecordLost(n)
  BY <1>4, SameMachines, CallMoves DEF RecordLost
<1> QED
  BY <1>1, <1>2, <1>3, <1>4

\* The operator and the provider change no worker, and no name of a machine.
LEMMA ElseStays ==
    ASSUME CloudInv,
           \/ \E x \in Nodes \cup Shared : PowerOff(x) \/ PowerOn(x)
           \/ \E m \in machines : Boots(m)
           \/ UNCHANGED vars
    PROVE  UNCHANGED <<work, undeleted>> /\ NamesKept
<1>1. UNCHANGED <<work, undeleted>>
  BY DEF PowerOff, PowerOn, Boots, vars, ghosts
<1>2. \A m \in machines : m \in MachineType(made)
  BY DEF CloudInv, Types, StockType
<1>3. ASSUME NEW x \in Nodes \cup Shared, PowerOff(x) PROVE NamesKept
  <2>1. PICK m \in machines : machines' = (machines \ {m}) \cup {[m EXCEPT !.on = FALSE, !.up = FALSE]}
    BY <1>3 DEF PowerOff
  <2> PICK r : r = [m EXCEPT !.on = FALSE, !.up = FALSE]
    OBVIOUS
  <2>2. r.id = m.id /\ r.name = m.name
    BY <1>2 DEF MachineType
  <2> QED
    BY <2>1, <2>2, SwitchKept
<1>4. ASSUME NEW x \in Nodes \cup Shared, PowerOn(x) PROVE NamesKept
  <2>1. PICK m \in machines : machines' = (machines \ {m}) \cup {[m EXCEPT !.on = TRUE]}
    BY <1>4 DEF PowerOn
  <2> PICK r : r = [m EXCEPT !.on = TRUE]
    OBVIOUS
  <2>2. r.id = m.id /\ r.name = m.name
    BY <1>2 DEF MachineType
  <2> QED
    BY <2>1, <2>2, SwitchKept
<1>5. ASSUME NEW m \in machines, Boots(m) PROVE NamesKept
  <2> PICK b : b = m.addr
    OBVIOUS
  <2> PICK r : r = [m EXCEPT !.addr = TRUE, !.up = b]
    OBVIOUS
  <2>1. machines' = (machines \ {m}) \cup {r}
    BY <1>5 DEF Boots
  <2>2. r.id = m.id /\ r.name = m.name
    BY <1>2 DEF MachineType
  <2> QED
    BY <2>1, <2>2, SwitchKept
<1>6. CASE UNCHANGED vars
  BY <1>6, SameMachines DEF vars
<1> QED
  BY <1>1, <1>3, <1>4, <1>5, <1>6

\* Every step is one worker's, or changes no worker and no name.
LEMMA NextMoves ==
    ASSUME CloudInv, [Next]_vars
    PROVE  (\E n \in Nodes : Moves(n)) \/ (UNCHANGED <<work, undeleted>> /\ NamesKept)
  BY StepMoves, FailMoves, ElseStays DEF Next

\* The machine that a worker knows as its node's is there, and has the node's name.
LEMMA KnownAlways == Spec => [](CloudInv /\ AllKnown)
<1>1. Init => AllKnown
  BY DEF Init, Idle, AllKnown, Known
<1>2. CloudInv /\ AllKnown /\ [Next]_vars => AllKnown'
  <2> SUFFICES ASSUME CloudInv, AllKnown, [Next]_vars PROVE AllKnown'
    OBVIOUS
  <2>1. CASE UNCHANGED <<work, undeleted>> /\ NamesKept
    BY <2>1 DEF AllKnown, Known, NamesKept
  <2> QED
    BY <2>1, NextMoves, KnownMoves
<1> QED
  BY <1>1, <1>2, CloudInvariant, PTL DEF Spec

(***************************************************************************)
(* The registry's view                                                     *)
(***************************************************************************)
Machines(n) == IF Sure(n) THEN {m.id : m \in {k \in machines : k.name = n}} ELSE {}
Told(n) == IF Sure(n) /\ work[n].end = "ok" THEN work[n].got ELSE 0
RegistryAt == [n \in Nodes |-> Machines(n)]
RegistryTold == [n \in Nodes |-> Told(n)]
Only(n) == \A k \in Nodes \ {n} : Machines(k)' = Machines(k) /\ Told(k)' = Told(k)
RegistryStays == \A k \in Nodes : Machines(k)' = Machines(k) /\ Told(k)' = Told(k)
RegistryStep == Registry!Next \/ UNCHANGED Registry!regvars

\* The mapped state, node by node.
LEMMA RegistryIs ==
    /\ [n \in Nodes |-> IF Sure(n) THEN {m.id : m \in {k \in machines : k.name = n}} ELSE {}] = RegistryAt
    /\ [n \in Nodes |-> IF Sure(n) /\ work[n].end = "ok" THEN work[n].got ELSE 0] = RegistryTold
  BY DEF RegistryAt, RegistryTold, Machines, Told

\* The machines of a node as the registry sees them, before and after a step.
LEMMA MachinesAre ==
    ASSUME NEW n, NEW i
    PROVE  /\ i \in Machines(n) <=> n \notin undeleted /\ Is(machines, i, n)
           /\ i \in Machines(n)' <=> n \notin undeleted' /\ Is(machines', i, n)
  BY DEF Machines, Sure, Is

\* destroy_vm(), or a machine that could not be removed.
LEMMA DestroyIs ==
    ASSUME NEW n \in Nodes, Only(n), Machines(n)' = {}, Told(n)' = 0
    PROVE  Registry!Destroy(n)
<1>1. RegistryAt' = [RegistryAt EXCEPT ![n] = {}]
  BY DEF RegistryAt, Only
<1>2. RegistryTold' = [RegistryTold EXCEPT ![n] = 0]
  BY DEF RegistryTold, Only
<1> QED
  BY <1>1, <1>2, RegistryIs DEF Registry!Destroy, RegistryAt, RegistryTold, Machines, Told

\* create_vm(): the first machine of a node.
LEMMA MakeIs ==
    ASSUME NEW n \in Nodes, Only(n), Machines(n) = {}, NEW i \in Nat \ {0}, \A y \in Nodes : i \notin Machines(y),
           Machines(n)' = {i}, Told(n)' = Told(n)
    PROVE  Registry!Make(n)
<1>1. RegistryAt' = [RegistryAt EXCEPT ![n] = {i}] /\ RegistryAt[n] = {} /\ i \in RegistryAt'[n]
  BY DEF RegistryAt, Only
<1>2. RegistryTold' = RegistryTold
  BY DEF RegistryTold, Only
<1>3. ASSUME NEW y \in Nodes PROVE i \notin RegistryAt[y]
  BY DEF RegistryAt
<1> QED
  BY <1>1, <1>2, <1>3, RegistryIs DEF Registry!Make, RegistryAt, RegistryTold, Machines, Told

\* provision_vm() has ended, with the machine that the node has.
LEMMA TellIs ==
    ASSUME NEW n \in Nodes, Only(n), Machines(n)' = Machines(n), NEW i \in Machines(n), Told(n)' = i
    PROVE  Registry!Tell(n)
<1>1. RegistryAt' = RegistryAt /\ RegistryAt[n] = Machines(n)
  BY DEF RegistryAt, Only
<1>2. RegistryTold' = [RegistryTold EXCEPT ![n] = i]
  BY DEF RegistryTold, Only
<1> QED
  BY <1>1, <1>2, RegistryIs DEF Registry!Tell, RegistryAt, RegistryTold, Machines, Told

\* The next provisioning of the node has begun, or this one has failed.
LEMMA ForgetIs ==
    ASSUME NEW n \in Nodes, Only(n), Machines(n)' = Machines(n), Told(n)' = 0
    PROVE  Registry!Forget(n)
<1>1. RegistryAt' = RegistryAt
  BY DEF RegistryAt, Only
<1>2. RegistryTold' = [RegistryTold EXCEPT ![n] = 0]
  BY DEF RegistryTold, Only
<1> QED
  BY <1>1, <1>2, RegistryIs DEF Registry!Forget, RegistryAt, RegistryTold, Machines, Told

\* A step that changes neither table of the registry.
LEMMA StayIs == RegistryStays => UNCHANGED Registry!regvars
<1> SUFFICES ASSUME RegistryStays PROVE UNCHANGED Registry!regvars
  OBVIOUS
<1>1. RegistryAt' = RegistryAt /\ RegistryTold' = RegistryTold
  BY DEF RegistryAt, RegistryTold, RegistryStays
<1> QED
  BY <1>1, RegistryIs DEF Registry!regvars, RegistryAt, RegistryTold, Machines, Told

\* The registry's view of a node that did not move.
LEMMA UnmovedView ==
    ASSUME NEW k, Unmoved(k), work'[k] = work[k]
    PROVE  Machines(k)' = Machines(k) /\ Told(k)' = Told(k)
<1>1. \A i : i \in Machines(k)' <=> i \in Machines(k)
  BY MachinesAre DEF Unmoved
<1>2. Told(k)' = Told(k)
  BY DEF Told, Sure, Unmoved
<1> QED
  BY <1>1, <1>2

\* A worker's step is a step of the registry.
LEMMA MovesRegistry ==
    ASSUME CloudInv, AllKnown, NEW n \in Nodes, Moves(n)
    PROVE  RegistryStep
<1>1. Only(n)
  BY UnmovedView DEF Moves, Only
<1>2. CASE n \in undeleted'
  <2>1. Machines(n)' = {} /\ Told(n)' = 0
    BY <1>2 DEF Machines, Told, Sure
  <2> QED
    BY <1>1, <2>1, DestroyIs DEF RegistryStep, Registry!Next
<1>3. CASE n \notin undeleted' /\ Goes(n)
  <2>1. Machines(n)' = Machines(n)
    <3>1. n \notin undeleted
      BY <1>3 DEF Goes
    <3>2. \A i : i \in Machines(n)' <=> i \in Machines(n)
      BY <1>3, <3>1, MachinesAre DEF Goes
    <3> QED
      BY <3>2
  <2>2. CASE Told(n)' = 0
    BY <1>1, <2>1, <2>2, ForgetIs DEF RegistryStep, Registry!Next
  <2>3. CASE Told(n)' # 0
    <3>1. Told(n)' = work'[n].got /\ work'[n].got # 0
      BY <2>3 DEF Told
    <3>2. Is(machines', work'[n].got, n)
      BY <3>1, KnownMoves DEF AllKnown, Known
    <3>3. work'[n].got \in Machines(n)
      BY <1>3, <2>1, <3>2, MachinesAre
    <3> QED
      BY <1>1, <2>1, <3>1, <3>3, TellIs DEF RegistryStep, Registry!Next
  <2> QED
    BY <2>2, <2>3
<1>4. CASE n \notin undeleted' /\ Removes(n)
  <2>1. Told(n)' = 0
    BY <1>4 DEF Removes, Told
  <2>2. n \notin undeleted /\ \A m1, m2 \in machines : m1.name = n /\ m2.name = n => m1.id = m2.id
    BY <1>4 DEF Removes, CloudInv, Owned, OwnedBy, Kept
  <2>3. PICK j : Is(machines, j, n) /\ \A i : Is(machines', i, n) <=> Is(machines, i, n) /\ i # j
    BY <1>4 DEF Removes
  <2>4. \A i : Is(machines, i, n) => i = j
    BY <2>2, <2>3 DEF Is
  <2>5. \A i : i \notin Machines(n)'
    BY <2>3, <2>4, MachinesAre
  <2> QED
    BY <1>1, <2>1, <2>5, DestroyIs DEF RegistryStep, Registry!Next
<1>5. CASE n \notin undeleted' /\ Creates(n)
  <2>1. Told(n)' = 0 /\ Told(n) = 0
    BY <1>5 DEF Creates, Told
  <2>2. n \notin undeleted /\ \A i : ~Is(machines, i, n)
    BY <1>5 DEF Creates
  <2> PICK i : i = made + 1
    OBVIOUS
  <2>3. i \in Nat \ {0} /\ (\A x : ~Is(machines, i, x)) /\ \A j : Is(machines', j, n) <=> Is(machines, j, n) \/ j = i
    BY <1>5 DEF Creates
  <2>4. Machines(n) = {} /\ \A y \in Nodes : i \notin Machines(y)
    BY <2>2, <2>3, MachinesAre
  <2>5. Machines(n)' = {i}
    <3>1. \A j : j \in Machines(n)' <=> j = i
      BY <1>5, <2>2, <2>3, MachinesAre
    <3> QED
      BY <3>1
  <2> QED
    BY <1>1, <2>1, <2>3, <2>4, <2>5, MakeIs DEF RegistryStep, Registry!Next
<1> QED
  BY <1>2, <1>3, <1>4, <1>5 DEF Moves

\* Every step is a step of the registry or leaves it alone.
LEMMA RegistryNext == CloudInv /\ AllKnown /\ [Next]_vars => RegistryStep
<1> SUFFICES ASSUME CloudInv, AllKnown, [Next]_vars PROVE RegistryStep
  OBVIOUS
<1>1. CASE UNCHANGED <<work, undeleted>> /\ NamesKept
  <2>1. \A k \in Nodes : Unmoved(k) /\ work'[k] = work[k]
    BY <1>1 DEF Unmoved, NamesKept
  <2>2. RegistryStays
    BY <2>1, UnmovedView DEF RegistryStays
  <2> QED
    BY <2>2, StayIs DEF RegistryStep
<1> QED
  BY <1>1, NextMoves, MovesRegistry

\* The registry starts empty.
LEMMA RegistryInit == Init => Registry!Init
<1> SUFFICES ASSUME Init PROVE Registry!Init
  OBVIOUS
<1>1. ASSUME NEW n \in Nodes PROVE Machines(n) = {} /\ Told(n) = 0
  <2>1. machines = {} /\ work[n].got = 0
    BY DEF Init, Idle
  <2> QED
    BY <2>1 DEF Machines, Told
<1>2. RegistryAt = [n \in Nodes |-> {}] /\ RegistryTold = [n \in Nodes |-> 0]
  BY <1>1 DEF RegistryAt, RegistryTold
<1> QED
  BY <1>2, RegistryIs DEF Registry!Init

\* What create_vm(), delete_vm() and the look-ups of the eight providers do is what a registry of machines
\* allows (MachineRegistry): with workers in parallel, whatever fails and is tried again, a node whose
\* destruction never failed has one machine at most, made when it had none, and provision_vm() ends with
\* that one.
THEOREM CloudIsRegistry == Spec => IsRegistry
<1>1. Registry!Init /\ [][RegistryStep]_Registry!regvars => IsRegistry
  BY PTL DEF IsRegistry, Registry!Spec, RegistryStep
<1> QED
  BY <1>1, RegistryInit, RegistryNext, KnownAlways, PTL DEF Spec, RegistryStep, IsRegistry, Registry!Spec

(***************************************************************************)
(* Provisioned nodes are reachable                                         *)
(***************************************************************************)
Left(s) == {s[i] : i \in 1..Len(s)}
FillOps == Makes \cup NetOps \cup {"user-data", "power-on", "address"}

\* What a look-up may pass over.
Skips(s) ==
    \A i \in 1..Len(s) :
        /\ s[i].op = "gateway?" => /\ i + 1 \in 1..Len(s) /\ i + 2 \in 1..Len(s)
                                   /\ s[i + 1].op = "make-gateway" /\ s[i + 2].op = "attach-gateway"
        /\ s[i].op = "dhcp?" => /\ i + 1 \in 1..Len(s) /\ i + 2 \in 1..Len(s)
                                /\ s[i + 1].op = "make-options" /\ s[i + 2].op = "dhcp"
        /\ s[i].op = "route?" => i + 1 \in 1..Len(s) /\ s[i + 1].op = "add-route"
        /\ s[i].op = "find" => i + 1 \in 1..Len(s) /\ s[i + 1].op \in {"delete", "reboot", "forward"}
\* What the look-up of a shared machine may pass over is the making of that machine.
Filled(s) ==
    \A i, j, k \in 1..Len(s) : i < j /\ j < k /\ s[i].op = "reuse" /\ s[k] = Call("ready", s[i].name) =>
        s[j].op \in FillOps /\ (s[j].op \in {"rules?", "rule"} => s[j].name \notin Nodes)
\* The DNS machine is waited for before it is used, its address is known before it is waited for, and it is
\* waited for when it is made.
DnsOps == {"register", "dhcp?", "make-options", "dhcp"}
UsedLate(s) == \A i, j \in 1..Len(s) : i < j /\ s[i].op \in DnsOps => s[j] # Call("ready", "dns")
Addressed(s) == \A i \in 1..Len(s) : i + 1 \in 1..Len(s) /\ s[i + 1] = Call("ready", "dns") => s[i] = Call("address", "dns")
Awaits(s) == \E i \in 1..Len(s) : s[i] = Call("ready", "dns") /\ \A j \in 1..i : s[j].op # "reuse"
Awaited(s) ==
    \A i \in 1..Len(s) : s[i].op \in Makes /\ s[i].name = "dns" =>
        \E j \in 1..Len(s) : i < j /\ s[j] = Call("ready", "dns") /\ \A l \in i..j : s[l].op # "reuse"
\* The rule of node n's machine is added after the group was asked for it, and for no other in between.
Adds(n, s) == \E i \in 1..Len(s) : s[i] = Call("rule", n) /\ \A j \in 1..i : s[j].op # "rules?"
Asked(n, s) ==
    \A i \in 1..Len(s) : s[i] = Call("rules?", n) =>
        \E j \in 1..Len(s) : i < j /\ s[j] = Call("rule", n) /\ \A l \in (i + 1)..j : s[l].op # "rules?"
Neat(n, s) == Skips(s) /\ Filled(s) /\ UsedLate(s) /\ Addressed(s) /\ Awaited(s) /\ Asked(n, s)

\* A worker that is at work or has ended well, and one that made its node's machine and knows it.
Active(n) == Busy(n) \/ work[n].end = "ok"

\* What is not left to do is done: the ports of node n,
Opened(n) ==
    /\ cloud = "aws" => \/ n \in rules
                        \/ Call("rules?", n) \in Left(work[n].todo)
                        \/ n \in work[n].lack /\ Adds(n, work[n].todo)
    /\ cloud \in {"gcp", "alibaba", "exoscale"} => n \in rules \/ Call("put-rule", n) \in Left(work[n].todo)
    /\ cloud \in {"gcp", "exoscale"} =>
          \/ Call("tag", n) \in Left(work[n].todo)
          \/ work[n].got # 0 /\ (n \in undeleted \/ <<work[n].got, n>> \in groups)
\* ... its record,
Recorded(n) ==
    \/ Call("register", n) \in Left(work[n].todo)
    \/ work[n].got # 0 /\ \E d \in machines : d.name = "dns" /\ <<d.id, n, work[n].got>> \in records
\* ... the DHCP options,
Optioned(n) ==
    cloud = "aws" => \/ Call("dhcp", "dns") \in Left(work[n].todo)
                     \/ \E d \in machines : d.name = "dns" /\ net.dhcp = d.id
\* ... and the DNS machine.
Waited(n) ==
    \/ Call("ready", "dns") \in Left(work[n].todo)
    \/ \E d \in machines : d.name = "dns" /\ d.up /\ (Busy(n) => work[n].dns = d.id)
\* A worker that is to wait for the DNS machine next knows its address.
Seen(n) == Busy(n) /\ work[n].todo[1] = Call("ready", "dns") =>
               work[n].seen = work[n].dns /\ Is(machines, work[n].dns, "dns")
\* A DNS machine that is not up is waited for.
Coming == \A d \in machines : d.name = "dns" /\ ~d.up => \E k \in Nodes : Awaits(work[k].todo)

AllNeat == \A n \in Nodes : Neat(n, work[n].todo) /\ (Busy(n) => work[n].end = "none")
PortsInv == \A n \in Nodes : Active(n) => Opened(n)
DnsInv == mode = "turn" /\ ~unsure =>
    Coming /\ \A n \in Nodes : Seen(n) /\ (Active(n) => Recorded(n) /\ Optioned(n) /\ Waited(n))

\* A part of a worker's calls that looks up and waits for none but the shared machines X.
Tidy(n, s, X) ==
    /\ s \in Seq(Calls) /\ Neat(n, s) /\ (1 \in 1..Len(s) => s[1] # Call("ready", "dns"))
    /\ \A i \in 1..Len(s) : s[i].op \in {"reuse", "ready"} => s[i].name \in X

\* What look-ups may pass over is still there with more calls before or after,
LEMMA SkipsConcat ==
    ASSUME NEW s \in Seq(Calls), NEW t \in Seq(Calls), Skips(s), Skips(t) PROVE Skips(s \o t)
<1> PICK u : u = s \o t
  OBVIOUS
<1>1. /\ Len(s) \in Nat /\ Len(t) \in Nat /\ Len(u) = Len(s) + Len(t)
      /\ \A i \in 1..Len(s) : i \in 1..Len(u) /\ u[i] = s[i]
      /\ \A i \in 1..Len(t) : i + Len(s) \in 1..Len(u) /\ u[i + Len(s)] = t[i]
      /\ \A i \in 1..Len(u) : i \in 1..Len(s) \/ i - Len(s) \in 1..Len(t)
      /\ \A i \in 1..Len(u) : i - Len(s) \in 1..Len(t) => u[i] = t[i - Len(s)]
  BY Joined
<1>2. ASSUME NEW i \in 1..Len(u), NEW v, NEW b \in 1..Len(v), u[i] = v[b], Skips(v),
             b + 1 \in 1..Len(v) => i + 1 \in 1..Len(u) /\ u[i + 1] = v[b + 1],
             b + 2 \in 1..Len(v) => i + 2 \in 1..Len(u) /\ u[i + 2] = v[b + 2]
      PROVE  /\ u[i].op = "gateway?" => /\ i + 1 \in 1..Len(u) /\ i + 2 \in 1..Len(u)
                                        /\ u[i + 1].op = "make-gateway" /\ u[i + 2].op = "attach-gateway"
             /\ u[i].op = "dhcp?" => /\ i + 1 \in 1..Len(u) /\ i + 2 \in 1..Len(u)
                                     /\ u[i + 1].op = "make-options" /\ u[i + 2].op = "dhcp"
             /\ u[i].op = "route?" => i + 1 \in 1..Len(u) /\ u[i + 1].op = "add-route"
             /\ u[i].op = "find" => i + 1 \in 1..Len(u) /\ u[i + 1].op \in {"delete", "reboot", "forward"}
  <2>1. /\ v[b].op = "gateway?" => /\ b + 1 \in 1..Len(v) /\ b + 2 \in 1..Len(v)
                                   /\ v[b + 1].op = "make-gateway" /\ v[b + 2].op = "attach-gateway"
        /\ v[b].op = "dhcp?" => /\ b + 1 \in 1..Len(v) /\ b + 2 \in 1..Len(v)
                                /\ v[b + 1].op = "make-options" /\ v[b + 2].op = "dhcp"
        /\ v[b].op = "route?" => b + 1 \in 1..Len(v) /\ v[b + 1].op = "add-route"
        /\ v[b].op = "find" => b + 1 \in 1..Len(v) /\ v[b + 1].op \in {"delete", "reboot", "forward"}
    BY <1>2 DEF Skips
  <2> QED
    BY ONLY <1>2, <2>1
<1>3. ASSUME NEW i \in 1..Len(u)
      PROVE  \E v \in {s, t} : \E b \in 1..Len(v) :
                /\ u[i] = v[b]
                /\ b + 1 \in 1..Len(v) => i + 1 \in 1..Len(u) /\ u[i + 1] = v[b + 1]
                /\ b + 2 \in 1..Len(v) => i + 2 \in 1..Len(u) /\ u[i + 2] = v[b + 2]
  <2>1. CASE i \in 1..Len(s)
    BY <1>1, <2>1
  <2>2. CASE i - Len(s) \in 1..Len(t)
    <3> PICK k : k = i - Len(s)
      OBVIOUS
    <3>1. k \in 1..Len(t) /\ u[i] = t[k] /\ (k + 1) + Len(s) = i + 1 /\ (k + 2) + Len(s) = i + 2
      BY <1>1, <2>2
    <3>2. k + 1 \in 1..Len(t) => (k + 1) + Len(s) \in 1..Len(u) /\ u[(k + 1) + Len(s)] = t[k + 1]
      BY <1>1
    <3>3. k + 2 \in 1..Len(t) => (k + 2) + Len(s) \in 1..Len(u) /\ u[(k + 2) + Len(s)] = t[k + 2]
      BY <1>1
    <3> QED
      BY <3>1, <3>2, <3>3
  <2> QED
    BY <1>1, <2>1, <2>2
<1> QED
  BY <1>2, <1>3 DEF Skips

\* ... and what it may pass over in the use of a shared machine, that the second waits for none that the
\* first looks up,
LEMMA FilledConcat ==
    ASSUME NEW s \in Seq(Calls), NEW t \in Seq(Calls), Filled(s), Filled(t),
           \A i \in 1..Len(s), k \in 1..Len(t) : s[i].op = "reuse" => t[k] # Call("ready", s[i].name)
    PROVE  Filled(s \o t)
<1> PICK u : u = s \o t
  OBVIOUS
<1>1. /\ Len(s) \in Nat /\ Len(t) \in Nat /\ Len(u) = Len(s) + Len(t)
      /\ \A i \in 1..Len(s) : i \in 1..Len(u) /\ u[i] = s[i]
      /\ \A i \in 1..Len(u) : i \in 1..Len(s) \/ i - Len(s) \in 1..Len(t)
      /\ \A i \in 1..Len(u) : i - Len(s) \in 1..Len(t) => u[i] = t[i - Len(s)]
  BY Joined
<1> SUFFICES ASSUME NEW i \in 1..Len(u), NEW j \in 1..Len(u), NEW k \in 1..Len(u), i < j, j < k,
                    u[i].op = "reuse", u[k] = Call("ready", u[i].name)
             PROVE  u[j].op \in FillOps /\ (u[j].op \in {"rules?", "rule"} => u[j].name \notin Nodes)
  BY DEF Filled
<1>2. CASE k \in 1..Len(s)
  <2>1. i \in 1..Len(s) /\ j \in 1..Len(s)
    BY <1>1, <1>2
  <2>2. u[i] = s[i] /\ u[j] = s[j] /\ u[k] = s[k]
    BY <1>1, <1>2, <2>1
  <2> QED
    BY <1>2, <2>1, <2>2 DEF Filled
<1>3. CASE i \in 1..Len(s) /\ k - Len(s) \in 1..Len(t)
  <2>1. u[i] = s[i] /\ u[k] = t[k - Len(s)]
    BY <1>1, <1>3
  <2> QED
    BY <1>3, <2>1
<1>4. CASE i - Len(s) \in 1..Len(t) /\ k - Len(s) \in 1..Len(t)
  <2>1. j - Len(s) \in 1..Len(t) /\ i - Len(s) < j - Len(s) /\ j - Len(s) < k - Len(s)
    <3>1. Len(s) \in Nat /\ Len(t) \in Nat /\ i \in Int /\ j \in Int /\ k \in Int /\ i < j /\ j < k
      BY <1>1
    <3> QED
      BY ONLY <1>4, <3>1
  <2>2. u[i] = t[i - Len(s)] /\ u[j] = t[j - Len(s)] /\ u[k] = t[k - Len(s)]
    BY <1>1, <1>4, <2>1
  <2> QED
    BY <1>4, <2>1, <2>2 DEF Filled
<1> QED
  BY <1>1, <1>2, <1>3, <1>4

\* ... nor for the DNS machine when the first uses it,
LEMMA LateConcat ==
    ASSUME NEW s \in Seq(Calls), NEW t \in Seq(Calls), UsedLate(s), UsedLate(t), Addressed(s), Addressed(t),
           \A i \in 1..Len(s), k \in 1..Len(t) : s[i].op \in DnsOps => t[k] # Call("ready", "dns"),
           1 \in 1..Len(t) => t[1] # Call("ready", "dns")
    PROVE  UsedLate(s \o t) /\ Addressed(s \o t)
<1> PICK u : u = s \o t
  OBVIOUS
<1>1. /\ Len(s) \in Nat /\ Len(t) \in Nat /\ Len(u) = Len(s) + Len(t)
      /\ \A i \in 1..Len(s) : i \in 1..Len(u) /\ u[i] = s[i]
      /\ \A i \in 1..Len(u) : i \in 1..Len(s) \/ i - Len(s) \in 1..Len(t)
      /\ \A i \in 1..Len(u) : i - Len(s) \in 1..Len(t) => u[i] = t[i - Len(s)]
  BY Joined
<1>2. UsedLate(u)
  <2> SUFFICES ASSUME NEW i \in 1..Len(u), NEW j \in 1..Len(u), i < j, u[i].op \in DnsOps, u[j] = Call("ready", "dns")
               PROVE  FALSE
    BY DEF UsedLate
  <2>1. CASE j \in 1..Len(s)
    <3>1. i \in 1..Len(s)
      BY <1>1, <2>1
    <3> QED
      BY <1>1, <2>1, <3>1 DEF UsedLate
  <2>2. CASE i \in 1..Len(s) /\ j - Len(s) \in 1..Len(t)
    BY <1>1, <2>2
  <2>3. CASE i - Len(s) \in 1..Len(t) /\ j - Len(s) \in 1..Len(t)
    <3>1. i - Len(s) < j - Len(s) /\ u[i] = t[i - Len(s)] /\ u[j] = t[j - Len(s)]
      BY <1>1, <2>3
    <3> QED
      BY <2>3, <3>1 DEF UsedLate
  <2> QED
    BY <1>1, <2>1, <2>2, <2>3
<1>3. Addressed(u)
  <2> SUFFICES ASSUME NEW i \in 1..Len(u), i + 1 \in 1..Len(u), u[i + 1] = Call("ready", "dns")
               PROVE  u[i] = Call("address", "dns")
    BY DEF Addressed
  <2>1. CASE i + 1 \in 1..Len(s)
    <3>1. i \in 1..Len(s) /\ u[i] = s[i] /\ u[i + 1] = s[i + 1]
      BY <1>1, <2>1
    <3> QED
      BY <2>1, <3>1 DEF Addressed
  <2>2. CASE (i + 1) - Len(s) \in 1..Len(t)
    <3> PICK k : k = i - Len(s)
      OBVIOUS
    <3>1. (i + 1) - Len(s) = k + 1 /\ k \in Int
      BY <1>1
    <3>2. u[i + 1] = t[k + 1] /\ k + 1 \in 1..Len(t)
      BY <1>1, <2>2, <3>1
    <3>3. k # 0
      BY <3>2
    <3>4. k \in 1..Len(t) /\ u[i] = t[k]
      BY <1>1, <3>1, <3>2, <3>3
    <3> QED
      BY <3>2, <3>4 DEF Addressed
  <2> QED
    BY <1>1, <2>1, <2>2
<1> QED
  BY <1>2, <1>3

\* A call and a later one of the same part, with all between.
LEMMA JoinedRange ==
    ASSUME NEW s \in Seq(Calls), NEW t \in Seq(Calls), NEW u, u = s \o t
    PROVE  /\ \A a \in 1..Len(s), b \in 1..Len(s) :
                 /\ u[b] = s[b] /\ b \in 1..Len(u)
                 /\ \A l \in a..b : u[l] = s[l]
                 /\ \A l \in (a + 1)..b : u[l] = s[l]
           /\ \A i \in Int : \A a \in 1..Len(t), b \in 1..Len(t) : i = a + Len(s) /\ a < b =>
                 /\ u[b + Len(s)] = t[b] /\ b + Len(s) \in 1..Len(u) /\ i < b + Len(s)
                 /\ \A l \in i..(b + Len(s)) : l - Len(s) \in a..b /\ u[l] = t[l - Len(s)]
                 /\ \A l \in (i + 1)..(b + Len(s)) : l - Len(s) \in (a + 1)..b /\ u[l] = t[l - Len(s)]
<1>1. /\ Len(s) \in Nat /\ Len(t) \in Nat /\ Len(u) = Len(s) + Len(t)
      /\ \A i \in 1..Len(s) : i \in 1..Len(u) /\ u[i] = s[i]
      /\ \A i \in 1..Len(t) : i + Len(s) \in 1..Len(u) /\ u[i + Len(s)] = t[i]
      /\ \A i \in 1..Len(u) : i - Len(s) \in 1..Len(t) => u[i] = t[i - Len(s)]
  BY Joined
<1>2. ASSUME NEW a \in 1..Len(s), NEW b \in 1..Len(s)
      PROVE  /\ u[b] = s[b] /\ b \in 1..Len(u)
             /\ \A l \in a..b : u[l] = s[l]
             /\ \A l \in (a + 1)..b : u[l] = s[l]
  <2>1. \A l \in a..b : l \in 1..Len(s)
    BY <1>1
  <2>2. \A l \in (a + 1)..b : l \in 1..Len(s)
    BY <1>1
  <2> QED
    BY <1>1, <2>1, <2>2
<1>3. ASSUME NEW i \in Int, NEW a \in 1..Len(t), NEW b \in 1..Len(t), i = a + Len(s), a < b
      PROVE  /\ u[b + Len(s)] = t[b] /\ b + Len(s) \in 1..Len(u) /\ i < b + Len(s)
             /\ \A l \in i..(b + Len(s)) : l - Len(s) \in a..b /\ u[l] = t[l - Len(s)]
             /\ \A l \in (i + 1)..(b + Len(s)) : l - Len(s) \in (a + 1)..b /\ u[l] = t[l - Len(s)]
  <2>1. ASSUME NEW l \in i..(b + Len(s)) PROVE l \in 1..Len(u) /\ l - Len(s) \in 1..Len(t) /\ l - Len(s) \in a..b
    BY <1>1, <1>3
  <2>2. \A l \in (i + 1)..(b + Len(s)) : l \in i..(b + Len(s)) /\ l - Len(s) \in (a + 1)..b
    BY <1>1, <1>3
  <2>3. i < b + Len(s)
    BY <1>1, <1>3
  <2> QED
    BY <1>1, <2>1, <2>2, <2>3
<1>4. \A a \in 1..Len(s), b \in 1..Len(s) :
         /\ u[b] = s[b] /\ b \in 1..Len(u)
         /\ \A l \in a..b : u[l] = s[l]
         /\ \A l \in (a + 1)..b : u[l] = s[l]
  BY <1>2
<1>5. \A i \in Int : \A a \in 1..Len(t), b \in 1..Len(t) : i = a + Len(s) /\ a < b =>
         /\ u[b + Len(s)] = t[b] /\ b + Len(s) \in 1..Len(u) /\ i < b + Len(s)
         /\ \A l \in i..(b + Len(s)) : l - Len(s) \in a..b /\ u[l] = t[l - Len(s)]
         /\ \A l \in (i + 1)..(b + Len(s)) : l - Len(s) \in (a + 1)..b /\ u[l] = t[l - Len(s)]
  BY <1>3
<1> QED
  BY ONLY <1>4, <1>5

\* ... and the machine that is made is waited for,
LEMMA AwaitedConcat ==
    ASSUME NEW s \in Seq(Calls), NEW t \in Seq(Calls), Awaited(s), Awaited(t) PROVE Awaited(s \o t)
<1> PICK u : u = s \o t
  OBVIOUS
<1>1. /\ Len(s) \in Nat /\ Len(t) \in Nat
      /\ \A i \in 1..Len(s) : i \in 1..Len(u) /\ u[i] = s[i]
      /\ \A i \in 1..Len(u) : i \in 1..Len(s) \/ i - Len(s) \in 1..Len(t)
      /\ \A i \in 1..Len(u) : i - Len(s) \in 1..Len(t) => u[i] = t[i - Len(s)]
  BY Joined
<1> SUFFICES ASSUME NEW i \in 1..Len(u), u[i].op \in Makes, u[i].name = "dns"
             PROVE  \E j \in 1..Len(u) : i < j /\ u[j] = Call("ready", "dns") /\ \A l \in i..j : u[l].op # "reuse"
  BY DEF Awaited
<1>2. CASE i \in 1..Len(s)
  <2>1. u[i] = s[i]
    BY <1>1, <1>2
  <2>2. PICK j \in 1..Len(s) : i < j /\ s[j] = Call("ready", "dns") /\ \A l \in i..j : s[l].op # "reuse"
    BY <1>2, <2>1 DEF Awaited
  <2>3. u[j] = s[j] /\ j \in 1..Len(u) /\ \A l \in i..j : u[l] = s[l]
    BY <1>2, JoinedRange
  <2> QED
    BY <2>2, <2>3
<1>3. CASE i - Len(s) \in 1..Len(t)
  <2> PICK a : a = i - Len(s)
    OBVIOUS
  <2>1. u[i] = t[a] /\ a \in 1..Len(t) /\ i = a + Len(s) /\ i \in Int
    BY <1>1, <1>3
  <2>2. PICK j \in 1..Len(t) : a < j /\ t[j] = Call("ready", "dns") /\ \A l \in a..j : t[l].op # "reuse"
    BY <2>1 DEF Awaited
  <2>3. /\ u[j + Len(s)] = t[j] /\ j + Len(s) \in 1..Len(u) /\ i < j + Len(s)
        /\ \A l \in i..(j + Len(s)) : l - Len(s) \in a..j /\ u[l] = t[l - Len(s)]
    BY <2>1, <2>2, JoinedRange
  <2> QED
    BY <2>2, <2>3
<1> QED
  BY <1>1, <1>2, <1>3

\* ... and the rule that is asked for is added.
LEMMA AskedConcat ==
    ASSUME NEW n, NEW s \in Seq(Calls), NEW t \in Seq(Calls), Asked(n, s), Asked(n, t) PROVE Asked(n, s \o t)
<1> PICK u : u = s \o t
  OBVIOUS
<1>1. /\ Len(s) \in Nat /\ Len(t) \in Nat
      /\ \A i \in 1..Len(s) : i \in 1..Len(u) /\ u[i] = s[i]
      /\ \A i \in 1..Len(u) : i \in 1..Len(s) \/ i - Len(s) \in 1..Len(t)
      /\ \A i \in 1..Len(u) : i - Len(s) \in 1..Len(t) => u[i] = t[i - Len(s)]
  BY Joined
<1> SUFFICES ASSUME NEW i \in 1..Len(u), u[i] = Call("rules?", n)
             PROVE  \E j \in 1..Len(u) : i < j /\ u[j] = Call("rule", n) /\ \A l \in (i + 1)..j : u[l].op # "rules?"
  BY DEF Asked
<1>2. CASE i \in 1..Len(s)
  <2>1. u[i] = s[i]
    BY <1>1, <1>2
  <2>2. PICK j \in 1..Len(s) : i < j /\ s[j] = Call("rule", n) /\ \A l \in (i + 1)..j : s[l].op # "rules?"
    BY <1>2, <2>1 DEF Asked
  <2>3. u[j] = s[j] /\ j \in 1..Len(u) /\ \A l \in (i + 1)..j : u[l] = s[l]
    BY <1>2, JoinedRange
  <2> QED
    BY <2>2, <2>3
<1>3. CASE i - Len(s) \in 1..Len(t)
  <2> PICK a : a = i - Len(s)
    OBVIOUS
  <2>1. u[i] = t[a] /\ a \in 1..Len(t) /\ i = a + Len(s) /\ i \in Int
    BY <1>1, <1>3
  <2>2. PICK j \in 1..Len(t) : a < j /\ t[j] = Call("rule", n) /\ \A l \in (a + 1)..j : t[l].op # "rules?"
    BY <2>1 DEF Asked
  <2>3. /\ u[j + Len(s)] = t[j] /\ j + Len(s) \in 1..Len(u) /\ i < j + Len(s)
        /\ \A l \in (i + 1)..(j + Len(s)) : l - Len(s) \in (a + 1)..j /\ u[l] = t[l - Len(s)]
    BY <2>1, <2>2, JoinedRange
  <2> QED
    BY <2>2, <2>3
<1> QED
  BY <1>1, <1>2, <1>3

\* Parts that use different shared machines; the DNS machine is not used before it is waited for.
LEMMA TidyConcat ==
    ASSUME NEW n, NEW X, NEW Y, NEW s, NEW t, Tidy(n, s, X), Tidy(n, t, Y), X \cap Y = {},
           "dns" \in Y => \A i \in 1..Len(s) : s[i].op \notin DnsOps
    PROVE  Tidy(n, s \o t, X \cup Y)
<1>1. /\ s \in Seq(Calls) /\ t \in Seq(Calls)
      /\ (1 \in 1..Len(s) => s[1] # Call("ready", "dns")) /\ (1 \in 1..Len(t) => t[1] # Call("ready", "dns"))
      /\ Skips(s) /\ Filled(s) /\ UsedLate(s) /\ Addressed(s) /\ Awaited(s) /\ Asked(n, s)
      /\ Skips(t) /\ Filled(t) /\ UsedLate(t) /\ Addressed(t) /\ Awaited(t) /\ Asked(n, t)
      /\ \A i \in 1..Len(s) : s[i].op \in {"reuse", "ready"} => s[i].name \in X
      /\ \A i \in 1..Len(t) : t[i].op \in {"reuse", "ready"} => t[i].name \in Y
  BY DEF Tidy, Neat
<1>2. \A x : Call("ready", x).op = "ready" /\ Call("ready", x).name = x
  BY DEF Call
<1>3. \A i \in 1..Len(s), k \in 1..Len(t) : s[i].op = "reuse" => t[k] # Call("ready", s[i].name)
  BY <1>1, <1>2
<1>4. \A i \in 1..Len(s), k \in 1..Len(t) : s[i].op \in DnsOps => t[k] # Call("ready", "dns")
  BY <1>1, <1>2
<1>5. 1 \in 1..Len(t) => t[1] # Call("ready", "dns")
  BY <1>1
<1>6. Skips(s \o t)
  BY <1>1, SkipsConcat
<1>7. Filled(s \o t)
  BY <1>1, <1>3, FilledConcat
<1>8. UsedLate(s \o t) /\ Addressed(s \o t)
  BY <1>1, <1>4, <1>5, LateConcat
<1>9. Awaited(s \o t) /\ Asked(n, s \o t)
  BY <1>1, AwaitedConcat, AskedConcat
<1> PICK u : u = s \o t
  OBVIOUS
<1>10. /\ u \in Seq(Calls) /\ Len(s) \in Nat /\ Len(t) \in Nat
       /\ \A i \in 1..Len(s) : i \in 1..Len(u) /\ u[i] = s[i]
       /\ \A i \in 1..Len(u) : i \in 1..Len(s) \/ i - Len(s) \in 1..Len(t)
       /\ \A i \in 1..Len(u) : i - Len(s) \in 1..Len(t) => u[i] = t[i - Len(s)]
  BY <1>1, Joined
<1>11. \A i \in 1..Len(u) : u[i].op \in {"reuse", "ready"} => u[i].name \in X \cup Y
  BY <1>1, <1>10
<1>12. 1 \in 1..Len(u) => u[1] # Call("ready", "dns")
  <2>1. 1 - Len(s) \in 1..Len(t) => 1 - Len(s) = 1
    BY <1>10
  <2> QED
    BY <1>1, <1>10, <2>1
<1> QED
  BY <1>1, <1>6, <1>7, <1>8, <1>9, <1>10, <1>11, <1>12 DEF Tidy, Neat

(***************************************************************************)
(* The calls of a program, part by part                                    *)
(***************************************************************************)
\* Calls that neither use nor wait for a shared machine.
LEMMA TidyPlain ==
    ASSUME NEW n, NEW s \in Seq(Calls), Skips(s), Asked(n, s),
           \A i \in 1..Len(s) : s[i].op \notin {"reuse", "ready"} /\ (s[i].op \in Makes => s[i].name # "dns")
    PROVE  Tidy(n, s, {})
<1>1. \A x : Call("ready", x).op = "ready"
  BY DEF Call
<1>2. Filled(s) /\ UsedLate(s)
  BY <1>1 DEF Filled, UsedLate
<1>3. Addressed(s)
  BY <1>1 DEF Addressed
<1>4. Awaited(s)
  BY DEF Awaited
<1>5. 1 \in 1..Len(s) => s[1] # Call("ready", "dns")
  BY <1>1
<1> QED
  BY <1>2, <1>3, <1>4, <1>5 DEF Tidy, Neat

\* Calls of which none is a look-up, nor makes a machine, nor asks for rules.
Single == CallOps \ (Makes \cup {"reuse", "ready", "gateway?", "dhcp?", "route?", "find", "rules?"})
\* A part of such calls alone is Tidy, whatever is looked up elsewhere.
LEMMA TidySingle ==
    ASSUME NEW n, NEW s \in Seq(Calls), \A i \in 1..Len(s) : s[i].op \in Single PROVE Tidy(n, s, {})
<1>1. Skips(s)
  BY DEF Skips, Single
<1>2. Asked(n, s)
  <2>1. Call("rules?", n).op = "rules?"
    BY DEF Call
  <2> QED
    BY <2>1 DEF Asked, Single
<1>3. \A i \in 1..Len(s) : s[i].op \notin {"reuse", "ready"} \cup Makes
  BY DEF Single
<1> QED
  BY <1>1, <1>2, <1>3, TidyPlain

\* The calls that are part of making machine z, whoever makes it.
Fill(s, z) ==
    /\ s \in Seq(Calls) /\ Skips(s) /\ \A n \in Nodes : Asked(n, s)
    /\ \A i \in 1..Len(s) : /\ s[i].op \in FillOps
                            /\ s[i].op \in Makes => s[i].name = z
                            /\ s[i].op \in {"rules?", "rule"} => s[i].name \in {z, "ssh"}
\* Two parts that fill in what one machine needs are one.
LEMMA FillConcat == ASSUME NEW z, NEW s, NEW t, Fill(s, z), Fill(t, z) PROVE Fill(s \o t, z)
<1>1. s \in Seq(Calls) /\ t \in Seq(Calls)
  BY DEF Fill
<1>2. Skips(s \o t)
  BY <1>1, SkipsConcat DEF Fill
<1>3. \A n \in Nodes : Asked(n, s \o t)
  BY <1>1, AskedConcat DEF Fill
<1> PICK u : u = s \o t
  OBVIOUS
<1>4. /\ u \in Seq(Calls)
      /\ \A i \in 1..Len(s) : i \in 1..Len(u) /\ u[i] = s[i]
      /\ \A i \in 1..Len(u) : i \in 1..Len(s) \/ i - Len(s) \in 1..Len(t)
      /\ \A i \in 1..Len(u) : i - Len(s) \in 1..Len(t) => u[i] = t[i - Len(s)]
  BY <1>1, Joined
<1>5. \A i \in 1..Len(u) : /\ u[i].op \in FillOps
                           /\ u[i].op \in Makes => u[i].name = z
                           /\ u[i].op \in {"rules?", "rule"} => u[i].name \in {z, "ssh"}
  BY <1>4 DEF Fill
<1> QED
  BY <1>2, <1>3, <1>4, <1>5 DEF Fill

\* The network's way out, and the rules of a machine, on AWS.
LEMMA FillNet == ASSUME NEW z \in Nodes \cup Shared PROVE Fill(InternetGateway, z) /\ Fill(SecurityGroup(z), z)
<1>1. Fill(InternetGateway, z)
  <2> PICK s : s = InternetGateway
    OBVIOUS
  <2>1. /\ s \in Seq(Calls) /\ Len(s) = 5 /\ s[1].op = "gateway?" /\ s[2].op = "make-gateway" /\ s[3].op = "attach-gateway"
        /\ s[4].op = "route?" /\ s[5].op = "add-route"
    BY DEF InternetGateway, Calls, Call, CallOps, NetOps
  <2>2. \A i \in 1..Len(s) : i = 1 \/ i = 2 \/ i = 3 \/ i = 4 \/ i = 5
    BY <2>1
  <2>3. Skips(s)
    <3>1. /\ 1 + 1 \in 1..Len(s) /\ 1 + 2 \in 1..Len(s) /\ 4 + 1 \in 1..Len(s) /\ s[1 + 1] = s[2] /\ s[1 + 2] = s[3]
          /\ s[4 + 1] = s[5]
      BY <2>1
    <3> QED
      BY <2>1, <2>2, <3>1 DEF Skips
  <2>4. \A i \in 1..Len(s) : s[i].op \in FillOps \ (Makes \cup {"rules?", "rule"})
    BY <2>1, <2>2 DEF FillOps, NetOps, Makes
  <2>5. \A n \in Nodes : Asked(n, s)
    <3>1. \A n : Call("rules?", n).op = "rules?"
      BY DEF Call
    <3> QED
      BY <2>4, <3>1 DEF Asked
  <2> QED
    BY <2>1, <2>3, <2>4, <2>5 DEF Fill
<1>2. Fill(SecurityGroup(z), z)
  <2> PICK s : s = SecurityGroup(z)
    OBVIOUS
  <2>1. s \in Seq(Calls) /\ Len(s) = 3 /\ s[1] = Call("rules?", z) /\ s[2] = Call("rule", "ssh") /\ s[3] = Call("rule", z)
    BY DEF SecurityGroup, Calls, Call, CallOps, NetOps
  <2>2. 3 \in 1..Len(s) /\ \A i \in 1..Len(s) : i = 1 \/ i = 2 \/ i = 3
    BY <2>1
  <2>3. /\ s[1].op = "rules?" /\ s[1].name = z /\ s[2].op = "rule" /\ s[2].name = "ssh" /\ s[3].op = "rule" /\ s[3].name = z
    BY <2>1 DEF Call
  <2>4. Skips(s)
    BY <2>2, <2>3 DEF Skips
  <2>5. \A i \in 1..Len(s) : s[i].op \in {"rules?", "rule"} /\ s[i].name \in {z, "ssh"}
    BY <2>2, <2>3
  <2>6. {"rules?", "rule"} \subseteq FillOps \ Makes
    BY DEF FillOps, NetOps, Makes
  <2>7. ASSUME NEW n \in Nodes PROVE Asked(n, s)
    <3> SUFFICES ASSUME NEW i \in 1..Len(s), s[i] = Call("rules?", n)
                 PROVE  \E j \in 1..Len(s) : i < j /\ s[j] = Call("rule", n) /\ \A l \in (i + 1)..j : s[l].op # "rules?"
      BY DEF Asked
    <3>1. s[i].op = "rules?" /\ s[i].name = n
      BY DEF Call
    <3>2. i = 1 /\ n = z
      BY <2>2, <2>3, <3>1
    <3>3. \A l \in (i + 1)..3 : l = 2 \/ l = 3
      BY <3>2
    <3>4. i < 3 /\ s[3] = Call("rule", n) /\ \A l \in (i + 1)..3 : s[l].op # "rules?"
      BY <2>1, <2>3, <3>2, <3>3
    <3> QED
      BY <2>2, <3>4
  <2> QED
    BY <2>1, <2>4, <2>5, <2>6, <2>7 DEF Fill
<1> QED
  BY <1>1, <1>2

\* create_vm(), whatever the provider, ends with the address of the machine it made.
LEMMA FillCreate ==
    ASSUME NEW z \in Nodes \cup Shared, NEW c \in Providers, NEW m, m = Create(c, z)
    PROVE  Fill(m, z) /\ Len(m) \in 1..Len(m) /\ m[Len(m)] = Call("address", z)
<1>1. ASSUME NEW s, s = <<Call("create", z), Call("address", z)>>
      PROVE  Fill(s, z) /\ s \in Seq(Calls) /\ Len(s) = 2 /\ s[2] = Call("address", z)
  <2>1. s \in Seq(Calls) /\ Len(s) = 2 /\ s[1] = Call("create", z) /\ s[2] = Call("address", z)
    BY <1>1 DEF Calls, Call, CallOps, Makes, LaterOps
  <2>2. s[1].op = "create" /\ s[1].name = z /\ s[2].op = "address" /\ \A i \in 1..Len(s) : i = 1 \/ i = 2
    BY <2>1 DEF Call
  <2>3. Skips(s)
    BY <2>2 DEF Skips
  <2>4. \A i \in 1..Len(s) : s[i].op \in {"create", "address"} /\ (s[i].op \in Makes => s[i].name = z)
    BY <2>2 DEF Makes
  <2>5. {"create", "address"} \subseteq FillOps
    BY DEF FillOps, Makes
  <2>6. \A n \in Nodes : Asked(n, s)
    <3>1. \A n : Call("rules?", n).op = "rules?"
      BY DEF Call
    <3> QED
      BY <2>4, <3>1 DEF Asked
  <2>7. Fill(s, z)
    BY <2>1, <2>3, <2>4, <2>5, <2>6 DEF Fill
  <2> QED
    BY <2>1, <2>7
<1>2. ASSUME NEW s, s = ScalewayCreate(z)
      PROVE  Fill(s, z) /\ s \in Seq(Calls) /\ Len(s) = 4 /\ s[4] = Call("address", z)
  <2>1. /\ s \in Seq(Calls) /\ Len(s) = 4 /\ s[1] = Call("create-off", z) /\ s[2] = Call("user-data", z)
        /\ s[3] = Call("power-on", z) /\ s[4] = Call("address", z)
    BY <1>2 DEF ScalewayCreate, Calls, Call, CallOps, Makes, LaterOps
  <2>2. /\ s[1].op = "create-off" /\ s[1].name = z /\ s[2].op = "user-data" /\ s[3].op = "power-on" /\ s[4].op = "address"
        /\ \A i \in 1..Len(s) : i = 1 \/ i = 2 \/ i = 3 \/ i = 4
    BY <2>1 DEF Call
  <2>3. Skips(s)
    BY <2>2 DEF Skips
  <2>4. \A i \in 1..Len(s) : s[i].op \in {"create-off", "user-data", "power-on", "address"} /\ (s[i].op \in Makes => s[i].name = z)
    BY <2>2 DEF Makes
  <2>5. {"create-off", "user-data", "power-on", "address"} \subseteq FillOps
    BY DEF FillOps, Makes
  <2>6. \A n \in Nodes : Asked(n, s)
    <3>1. \A n : Call("rules?", n).op = "rules?"
      BY DEF Call
    <3> QED
      BY <2>4, <3>1 DEF Asked
  <2>7. Fill(s, z)
    BY <2>1, <2>3, <2>4, <2>5, <2>6 DEF Fill
  <2> QED
    BY <2>1, <2>7
<1>3. ASSUME m = AWSCreate(z) PROVE Fill(m, z) /\ Len(m) \in 1..Len(m) /\ m[Len(m)] = Call("address", z)
  <2> PICK e : e = <<Call("create", z), Call("address", z)>>
    OBVIOUS
  <2> PICK h : h = InternetGateway \o SecurityGroup(z)
    OBVIOUS
  <2>1. Fill(h, z) /\ Fill(e, z) /\ e \in Seq(Calls) /\ Len(e) = 2 /\ e[2] = Call("address", z)
    BY <1>1, FillNet, FillConcat
  <2>2. m = h \o e /\ h \in Seq(Calls)
    BY <1>3, <2>1 DEF AWSCreate, Fill
  <2>3. Fill(m, z)
    BY <2>1, <2>2, FillConcat
  <2>4. /\ Len(h) \in Nat /\ Len(m) = Len(h) + Len(e)
        /\ \A i \in 1..Len(e) : i + Len(h) \in 1..Len(m) /\ m[i + Len(h)] = e[i]
    <3>1. h \in Seq(Calls) /\ e \in Seq(Calls) /\ m = h \o e
      BY <2>1, <2>2
    <3> QED
      BY ONLY <3>1, Joined
  <2>5. 2 \in 1..Len(e) /\ 2 + Len(h) = Len(m)
    BY <2>1, <2>4
  <2>6. Len(m) \in 1..Len(m) /\ m[Len(m)] = e[2]
    BY <2>4, <2>5
  <2> QED
    BY <2>1, <2>3, <2>6
<1>4. ASSUME m = <<Call("create", z), Call("address", z)>> PROVE Fill(m, z) /\ Len(m) \in 1..Len(m) /\ m[Len(m)] = Call("address", z)
  BY <1>1, <1>4
<1>5. ASSUME m = ScalewayCreate(z) PROVE Fill(m, z) /\ Len(m) \in 1..Len(m) /\ m[Len(m)] = Call("address", z)
  <2>1. Fill(m, z) /\ Len(m) = 4 /\ m[4] = Call("address", z)
    BY <1>2, <1>5
  <2> QED
    BY <2>1
<1> QED
  BY <1>3, <1>4, <1>5
  DEF Create, Providers, HetznerCreate, GCPCreate, AlibabaCreate, UpCloudCreate, OVHcloudCreate, ExoscaleCreate

\* create_vm() of a node.
LEMMA TidyFill == ASSUME NEW n \in Nodes, NEW z \in Nodes, NEW s, Fill(s, z) PROVE Tidy(n, s, {})
<1>1. z # "dns"
  BY CloudVmsAssumption DEF Shared
<1>2. FillOps \cap {"reuse", "ready"} = {}
  BY DEF FillOps, Makes, NetOps
<1>3. \A i \in 1..Len(s) : s[i].op \notin {"reuse", "ready"} /\ (s[i].op \in Makes => s[i].name # "dns")
  BY <1>1, <1>2 DEF Fill
<1> QED
  BY <1>3, TidyPlain DEF Fill

\* The other parts of a program.
LEMMA TidyCalls ==
    ASSUME NEW n \in Nodes, NEW c \in Providers,
           NEW s \in {Reboot(c, n), OpenPorts(c, n), UseDnsServer, Forwarding, InternalTraffic, <<>>,
                      <<Call("register", n), Call("online", n)>>, <<Call("online", n)>>}
    PROVE  Tidy(n, s, {})
<1>0. Single \subseteq CallOps
  BY DEF Single
<1>1. ASSUME NEW x, NEW t, x \in Nodes \/ x = "gw", NEW op \in {"reboot", "forward"}, t = <<Call("find", x), Call(op, x)>>
      PROVE  Tidy(n, t, {})
  <2>1. t \in Seq(Calls) /\ Len(t) = 2 /\ t[1].op = "find" /\ t[2].op = op
    BY <1>1 DEF Calls, Call, CallOps, LaterOps, Shared
  <2>2. 1 + 1 \in 1..Len(t) /\ t[1 + 1] = t[2] /\ \A i \in 1..Len(t) : i = 1 \/ i = 2
    BY <2>1
  <2>3. Skips(t)
    BY <2>1, <2>2 DEF Skips
  <2>4. \A i \in 1..Len(t) : t[i].op \notin {"reuse", "ready", "rules?"} \cup Makes
    BY <2>1, <2>2 DEF Makes
  <2>5. Asked(n, t)
    <3>1. Call("rules?", n).op = "rules?"
      BY DEF Call
    <3> QED
      BY <2>4, <3>1 DEF Asked
  <2> QED
    BY <2>1, <2>3, <2>4, <2>5, TidyPlain
<1>2. ASSUME NEW t, NEW a \in Single, NEW b \in Single, t = <<Call(a, n), Call(b, n)>> PROVE Tidy(n, t, {})
  <2>1. Call(a, n) \in Calls /\ Call(b, n) \in Calls
    BY <1>0, AnyCall
  <2>2. t \in Seq(Calls) /\ Len(t) = 2 /\ t[1].op = a /\ t[2].op = b
    BY <1>2, <2>1 DEF Call
  <2>3. \A i \in 1..Len(t) : i = 1 \/ i = 2
    BY <2>2
  <2> QED
    BY <2>2, <2>3, TidySingle
<1>3. ASSUME NEW t, NEW a \in Single, t = <<Call(a, n)>> PROVE Tidy(n, t, {})
  <2>1. Call(a, n) \in Calls
    BY <1>0, AnyCall
  <2>2. t \in Seq(Calls) /\ Len(t) = 1 /\ t[1].op = a
    BY <1>3, <2>1 DEF Call
  <2>3. \A i \in 1..Len(t) : i = 1
    BY <2>2
  <2> QED
    BY <2>2, <2>3, TidySingle
<1>4. Tidy(n, UseDnsServer, {})
  <2> PICK t : t = UseDnsServer
    OBVIOUS
  <2>1. t \in Seq(Calls) /\ Len(t) = 3 /\ t[1].op = "dhcp?" /\ t[2].op = "make-options" /\ t[3].op = "dhcp"
    BY DEF UseDnsServer, Calls, Call, CallOps, LaterOps, Shared
  <2>2. /\ 1 + 1 \in 1..Len(t) /\ 1 + 2 \in 1..Len(t) /\ t[1 + 1] = t[2] /\ t[1 + 2] = t[3]
        /\ \A i \in 1..Len(t) : i = 1 \/ i = 2 \/ i = 3
    BY <2>1
  <2>3. Skips(t)
    BY <2>1, <2>2 DEF Skips
  <2>4. \A i \in 1..Len(t) : t[i].op \notin {"reuse", "ready", "rules?"} \cup Makes
    BY <2>1, <2>2 DEF Makes
  <2>5. Asked(n, t)
    <3>1. Call("rules?", n).op = "rules?"
      BY DEF Call
    <3> QED
      BY <2>4, <3>1 DEF Asked
  <2> QED
    BY <2>1, <2>3, <2>4, <2>5, TidyPlain
<1>5. Tidy(n, <<>>, {})
  <2>1. <<>> \in Seq(Calls) /\ Len(<<>>) = 0
    BY EmptySeq
  <2>2. \A i \in 1..Len(<<>>) : FALSE
    BY <2>1
  <2> QED
    BY <2>1, <2>2, TidySingle
<1>6. {"register", "online", "reboot", "put-rule", "tag"} \subseteq Single
  BY DEF Single, CallOps, LaterOps, NetOps, Makes
<1>7. Tidy(n, Reboot(c, n), {})
  BY <1>1, <1>3, <1>6 DEF Reboot, Providers, HetznerPower, AWSPower, GCPPower, AlibabaPower, ScalewayPower, UpCloudPower,
     OVHcloudPower, ExoscalePower
<1>8. Tidy(n, OpenPorts(c, n), {})
  <2>1. Tidy(n, SecurityGroup(n), {})
    BY FillNet, TidyFill
  <2> QED
    BY <1>2, <1>3, <1>5, <1>6, <2>1 DEF OpenPorts, Providers, AWSPorts, GCPPorts, AlibabaPorts, ExoscalePorts
<1>9. Tidy(n, Forwarding, {})
  BY <1>1 DEF Forwarding
<1>10. Tidy(n, InternalTraffic, {})
  <2> PICK t : t = InternalTraffic
    OBVIOUS
  <2>1. t \in Seq(Calls) /\ Len(t) = 2 /\ t[1] = Call("rules?", "internal") /\ t[2] = Call("rule", "internal")
    BY DEF InternalTraffic, Calls, Call, CallOps, NetOps
  <2>2. /\ t[1].op = "rules?" /\ t[1].name = "internal" /\ t[2].op = "rule"
        /\ 2 \in 1..Len(t) /\ \A i \in 1..Len(t) : i = 1 \/ i = 2
    BY <2>1 DEF Call
  <2>3. Skips(t)
    BY <2>2 DEF Skips
  <2>4. \A i \in 1..Len(t) : t[i].op \notin {"reuse", "ready"} \cup Makes
    BY <2>2 DEF Makes
  <2>5. Asked(n, t)
    <3> SUFFICES ASSUME NEW i \in 1..Len(t), t[i] = Call("rules?", n)
                 PROVE  \E j \in 1..Len(t) : i < j /\ t[j] = Call("rule", n) /\ \A l \in (i + 1)..j : t[l].op # "rules?"
      BY DEF Asked
    <3>1. t[i].op = "rules?" /\ t[i].name = n
      BY DEF Call
    <3>2. i = 1 /\ n = "internal"
      BY <2>2, <3>1
    <3>3. \A l \in (i + 1)..2 : l = 2
      BY <3>2
    <3>4. i < 2 /\ t[2] = Call("rule", n) /\ \A l \in (i + 1)..2 : t[l].op # "rules?"
      BY <2>1, <2>2, <3>2, <3>3
    <3> QED
      BY <2>2, <3>4
  <2> QED
    BY <2>1, <2>3, <2>4, <2>5, TidyPlain
<1>11. Tidy(n, <<Call("register", n), Call("online", n)>>, {})
  BY <1>2, <1>6
<1>12. Tidy(n, <<Call("online", n)>>, {})
  BY <1>3, <1>6
<1> QED
  BY <1>4, <1>5, <1>7, <1>8, <1>9, <1>10, <1>11, <1>12

\* The calls of ensure_cloud_dns_vm() and its twins: the look-up, the making, and the wait for it.
LEMMA EnsureParts ==
    ASSUME NEW x \in Shared, NEW c \in Providers, NEW m, m = Create(c, x), NEW s, s = EnsureShared(c, x)
    PROVE  /\ m \in Seq(Calls) /\ s \in Seq(Calls) /\ Len(m) \in Nat /\ Len(s) = Len(m) + 2 /\ Len(m) + 2 \in 1..Len(s)
           /\ s[1] = Call("reuse", x) /\ s[Len(m) + 2] = Call("ready", x)
           /\ \A i \in 1..Len(s) : i = 1 \/ i = Len(m) + 2 \/ (i - 1 \in 1..Len(m) /\ s[i] = m[i - 1])
           /\ Skips(m) => Skips(s)
<1> PICK r, y, h : r = <<Call("reuse", x)>> /\ y = <<Call("ready", x)>> /\ h = r \o m
  OBVIOUS
<1>1. /\ Call("reuse", x) \in Calls /\ Call("ready", x) \in Calls /\ Call("reuse", x).op = "reuse" /\ Call("ready", x).op = "ready"
  BY DEF Calls, Call, CallOps, LaterOps
<1>2. r \in Seq(Calls) /\ Len(r) = 1 /\ r[1] = Call("reuse", x) /\ y \in Seq(Calls) /\ Len(y) = 1 /\ y[1] = Call("ready", x)
  BY <1>1
<1>3. m \in Seq(Calls) /\ s = h \o y
  BY FillCreate DEF EnsureShared, Fill
<1>4. /\ h \in Seq(Calls) /\ Len(m) \in Nat /\ Len(h) = 1 + Len(m) /\ h[1] = r[1]
      /\ \A i \in 1..Len(h) : i = 1 \/ (i - 1 \in 1..Len(m) /\ h[i] = m[i - 1])
  <2>1. r \in Seq(Calls) /\ m \in Seq(Calls) /\ h = r \o m
    BY <1>2, <1>3
  <2>2. /\ h \in Seq(Calls) /\ Len(m) \in Nat /\ Len(h) = Len(r) + Len(m)
        /\ \A i \in 1..Len(r) : i \in 1..Len(h) /\ h[i] = r[i]
        /\ \A i \in 1..Len(h) : i \in 1..Len(r) \/ i - Len(r) \in 1..Len(m)
        /\ \A i \in 1..Len(h) : i - Len(r) \in 1..Len(m) => h[i] = m[i - Len(r)]
    BY ONLY <2>1, Joined
  <2> QED
    BY <1>2, <2>2
<1>5. /\ s \in Seq(Calls) /\ Len(s) = Len(h) + Len(y)
      /\ \A i \in 1..Len(h) : i \in 1..Len(s) /\ s[i] = h[i]
      /\ \A i \in 1..Len(y) : i + Len(h) \in 1..Len(s) /\ s[i + Len(h)] = y[i]
      /\ \A i \in 1..Len(s) : i \in 1..Len(h) \/ i - Len(h) \in 1..Len(y)
  <2>1. h \in Seq(Calls) /\ y \in Seq(Calls) /\ s = h \o y
    BY <1>2, <1>3, <1>4
  <2> QED
    BY ONLY <2>1, Joined
<1>6. 1 + Len(h) = Len(m) + 2 /\ Len(s) = Len(m) + 2 /\ 1 \in 1..Len(h)
  BY <1>2, <1>4, <1>5
<1>7. s[1] = r[1] /\ s[Len(m) + 2] = y[1] /\ Len(m) + 2 \in 1..Len(s)
  BY <1>2, <1>4, <1>5, <1>6
<1>8. ASSUME NEW i \in 1..Len(s), i # 1, i # Len(m) + 2 PROVE i - 1 \in 1..Len(m) /\ s[i] = m[i - 1]
  <2>1. i \in 1..Len(h)
    BY <1>2, <1>4, <1>5, <1>6, <1>8
  <2> QED
    BY <1>4, <1>5, <1>8, <2>1
<1>9. ASSUME Skips(m) PROVE Skips(s)
  <2>1. Skips(r) /\ Skips(y)
    <3>1. (\A i \in 1..Len(r) : r[i].op = "reuse") /\ \A i \in 1..Len(y) : y[i].op = "ready"
      BY <1>1, <1>2
    <3> QED
      BY <3>1 DEF Skips
  <2>2. Skips(h)
    BY <1>2, <1>3, <1>9, <2>1, SkipsConcat
  <2> QED
    BY <1>2, <1>3, <1>4, <2>1, <2>2, SkipsConcat
<1> QED
  BY <1>2, <1>3, <1>4, <1>5, <1>6, <1>7, <1>8, <1>9

\* What it passes over when there is a machine is the making of that machine, and one that it makes is waited for.
LEMMA EnsureTidy ==
    ASSUME NEW n \in Nodes, NEW x \in Shared, NEW c \in Providers, NEW s, s = EnsureShared(c, x)
    PROVE  Tidy(n, s, {x}) /\ Call("ready", x) \in Left(s)
<1> PICK m : m = Create(c, x)
  OBVIOUS
<1>1. Fill(m, x) /\ Len(m) \in 1..Len(m) /\ m[Len(m)] = Call("address", x)
  BY FillCreate
<1>2. /\ m \in Seq(Calls) /\ s \in Seq(Calls) /\ Len(m) \in Nat /\ Len(s) = Len(m) + 2 /\ Len(m) + 2 \in 1..Len(s)
      /\ s[1] = Call("reuse", x) /\ s[Len(m) + 2] = Call("ready", x)
      /\ \A i \in 1..Len(s) : i = 1 \/ i = Len(m) + 2 \/ (i - 1 \in 1..Len(m) /\ s[i] = m[i - 1])
      /\ Skips(m) => Skips(s)
  BY EnsureParts
<1> PICK e : e = Len(m) + 2
  OBVIOUS
<1>3. s[1].op = "reuse" /\ s[1].name = x /\ s[e].op = "ready" /\ s[e].name = x /\ e \in 1..Len(s) /\ e = Len(s) /\ Len(s) \in Nat
  BY <1>2 DEF Call
<1>4. /\ x \notin Nodes /\ FillOps \cap ({"reuse", "ready"} \cup DnsOps) = {}
      /\ "ssh" \notin Nodes
  BY CloudVmsAssumption DEF FillOps, Makes, NetOps, DnsOps
<1>5. ASSUME NEW i \in 1..Len(s), i # 1, i # e
      PROVE  /\ s[i].op \in FillOps /\ (s[i].op \in {"rules?", "rule"} => s[i].name \notin Nodes)
             /\ s[i].op \in Makes => s[i].name = x
  <2>1. i - 1 \in 1..Len(m) /\ s[i] = m[i - 1]
    BY <1>2, <1>5
  <2> QED
    BY <1>1, <1>4, <2>1 DEF Fill
<1>6. Filled(s)
  <2> SUFFICES ASSUME NEW i \in 1..Len(s), NEW j \in 1..Len(s), NEW k \in 1..Len(s), i < j, j < k, s[i].op = "reuse"
               PROVE  s[j].op \in FillOps /\ (s[j].op \in {"rules?", "rule"} => s[j].name \notin Nodes)
    BY DEF Filled
  <2>1. j # 1 /\ j # e
    BY <1>3
  <2> QED
    BY <1>5, <2>1
<1>7. UsedLate(s)
  <2>1. \A i \in 1..Len(s) : s[i].op \notin DnsOps
    <3>1. "reuse" \notin DnsOps /\ "ready" \notin DnsOps
      BY DEF DnsOps
    <3> QED
      BY <1>3, <1>4, <1>5, <3>1
  <2> QED
    BY <2>1 DEF UsedLate
<1>8. Addressed(s)
  <2> SUFFICES ASSUME NEW i \in 1..Len(s), i + 1 \in 1..Len(s), s[i + 1] = Call("ready", "dns") PROVE s[i] = Call("address", "dns")
    BY DEF Addressed
  <2>1. s[i + 1].op = "ready" /\ s[i + 1].name = "dns"
    BY DEF Call
  <2>2. i + 1 # 1
    BY <1>3
  <2>3. i + 1 = e
    BY <1>4, <1>5, <2>1, <2>2
  <2>4. x = "dns"
    BY <1>3, <2>1, <2>3
  <2>5. i = Len(m) + 1 /\ i # 1 /\ i # e /\ i - 1 = Len(m)
    BY <1>1, <1>2, <2>3
  <2>6. s[i] = m[i - 1]
    BY <1>2, <2>5
  <2> QED
    BY <1>1, <2>4, <2>5, <2>6
<1>9. Awaited(s)
  <2> SUFFICES ASSUME NEW i \in 1..Len(s), s[i].op \in Makes, s[i].name = "dns"
               PROVE  \E j \in 1..Len(s) : i < j /\ s[j] = Call("ready", "dns") /\ \A l \in i..j : s[l].op # "reuse"
    BY DEF Awaited
  <2>1. i # 1 /\ i # e
    BY <1>3 DEF Makes
  <2>2. x = "dns" /\ i < e
    BY <1>3, <1>5, <2>1
  <2>3. \A l \in i..e : l \in 1..Len(s) /\ l # 1
    BY <1>3, <2>1
  <2>4. \A l \in i..e : s[l].op # "reuse"
    BY <1>3, <1>4, <1>5, <2>3
  <2> QED
    BY <1>2, <1>3, <2>2, <2>4
<1>10. Asked(n, s)
  <2> SUFFICES ASSUME NEW i \in 1..Len(s), s[i] = Call("rules?", n) PROVE FALSE
    BY DEF Asked
  <2>1. s[i].op = "rules?" /\ s[i].name = n
    BY DEF Call
  <2>2. i # 1 /\ i # e
    BY <1>3, <2>1
  <2> QED
    BY <1>5, <2>1, <2>2
<1>11. \A i \in 1..Len(s) : s[i].op \in {"reuse", "ready"} => s[i].name \in {x}
  BY <1>3, <1>4, <1>5
<1>12. Skips(s)
  BY <1>1, <1>2 DEF Fill
<1>13. s[1] # Call("ready", "dns") /\ Call("ready", x) \in Left(s)
  <2>1. Call("ready", "dns").op = "ready"
    BY DEF Call
  <2> QED
    BY <1>2, <1>3, <2>1 DEF Left
<1> QED
  BY <1>2, <1>6, <1>7, <1>8, <1>9, <1>10, <1>11, <1>12, <1>13 DEF Tidy, Neat

\* What is left to do in one part is left to do in all.
LEMMA LeftConcat ==
    ASSUME NEW s \in Seq(Calls), NEW t \in Seq(Calls) PROVE Left(s) \subseteq Left(s \o t) /\ Left(t) \subseteq Left(s \o t)
<1> PICK u : u = s \o t
  OBVIOUS
<1>1. /\ \A i \in 1..Len(s) : i \in 1..Len(u) /\ u[i] = s[i]
      /\ \A i \in 1..Len(t) : i + Len(s) \in 1..Len(u) /\ u[i + Len(s)] = t[i]
  BY Joined
<1>2. Left(s) \subseteq Left(u)
  BY <1>1 DEF Left
<1>3. ASSUME NEW y \in Left(t) PROVE y \in Left(u)
  <2>1. PICK i \in 1..Len(t) : y = t[i]
    BY DEF Left
  <2>2. i + Len(s) \in 1..Len(u) /\ u[i + Len(s)] = y
    BY <1>1, <2>1
  <2> QED
    BY <2>2 DEF Left
<1> QED
  BY <1>2, <1>3

\* The ports are opened for the node's machine.
Openings(c, n) ==
    (IF c = "aws" THEN {Call("rules?", n)} ELSE {})
    \cup (IF c \in {"gcp", "alibaba", "exoscale"} THEN {Call("put-rule", n)} ELSE {})
    \cup (IF c \in {"gcp", "exoscale"} THEN {Call("tag", n)} ELSE {})
\* A worker that starts has left to do what opens its ports.
LEMMA PortsLeft == ASSUME NEW n \in Nodes, NEW c \in Providers PROVE Openings(c, n) \subseteq Left(OpenPorts(c, n))
<1>1. ASSUME NEW a, NEW b, NEW t, t = <<a, b>> PROVE a \in Left(t) /\ b \in Left(t)
  <2>1. 1 \in 1..Len(t) /\ 2 \in 1..Len(t) /\ t[1] = a /\ t[2] = b
    BY <1>1
  <2> QED
    BY <2>1 DEF Left
<1>2. ASSUME NEW a, NEW t, t = <<a>> PROVE a \in Left(t)
  <2>1. 1 \in 1..Len(t) /\ t[1] = a
    BY <1>2
  <2> QED
    BY <2>1 DEF Left
<1>3. Call("rules?", n) \in Left(SecurityGroup(n))
  <2> PICK t : t = SecurityGroup(n)
    OBVIOUS
  <2>1. 1 \in 1..Len(t) /\ t[1] = Call("rules?", n)
    BY DEF SecurityGroup
  <2> QED
    BY <2>1 DEF Left
<1>4. CASE c = "aws"
  BY <1>3, <1>4 DEF Openings, OpenPorts, AWSPorts
<1>5. CASE c \in {"gcp", "exoscale"}
  <2>1. OpenPorts(c, n) = <<Call("put-rule", n), Call("tag", n)>>
    BY <1>5 DEF OpenPorts, GCPPorts, ExoscalePorts
  <2>2. Openings(c, n) = {Call("put-rule", n), Call("tag", n)}
    BY <1>5 DEF Openings
  <2> QED
    BY <1>1, <2>1, <2>2
<1>6. CASE c = "alibaba"
  <2>1. OpenPorts(c, n) = <<Call("put-rule", n)>>
    BY <1>6 DEF OpenPorts, AlibabaPorts
  <2>2. Openings(c, n) = {Call("put-rule", n)}
    BY <1>6 DEF Openings
  <2> QED
    BY <1>2, <2>1, <2>2
<1>7. CASE c \notin {"aws", "gcp", "exoscale", "alibaba"}
  BY <1>7 DEF Openings
<1> QED
  BY <1>4, <1>5, <1>6, <1>7

\* destroy_vm() and provision_vm(): the machine and its ports, the record and what needs the DNS machine are to come.
LEMMA ProgramTidy ==
    ASSUME NEW n \in Nodes, NEW c \in Providers, NEW withGw \in BOOLEAN, NEW p,
           p = <<Call("unregister", n)>> \o Delete(n) \o Provision(c, n, withGw)
    PROVE  /\ Neat(n, p) /\ p \in Seq(Calls) /\ p[1].op = "unregister" /\ Openings(c, n) \subseteq Left(p)
           /\ {Call("register", n), Call("ready", "dns")} \subseteq Left(p)
           /\ c = "aws" => Call("dhcp", "dns") \in Left(p)
<1> DEFINE X0 == {}
           X1 == {"dns"}
           X2 == {"gw"}
           e == IF withGw THEN EnsureGateway(c) ELSE <<>>
           d == IF c = "aws" THEN UseDnsServer ELSE <<>>
           r == <<Call("register", n), Call("online", n)>>
<1>1. X1 \cap X2 = {} /\ "dns" \in Shared /\ "gw" \in Shared /\ "dns" \notin X0 /\ "dns" \notin X2
  BY DEF Shared
<1>2. ASSUME NEW s, NEW t, NEW X, Tidy(n, s, X), Tidy(n, t, X0)
      PROVE  /\ Tidy(n, s \o t, X) /\ Left(s) \subseteq Left(s \o t) /\ Left(t) \subseteq Left(s \o t)
  <2>1. X \cup X0 = X /\ X \cap X0 = {}
    OBVIOUS
  <2>2. Tidy(n, s \o t, X)
    BY <1>1, <1>2, <2>1, TidyConcat
  <2> QED
    BY <1>2, <2>2, LeftConcat DEF Tidy
<1>3. \A s \in {Reboot(c, n), OpenPorts(c, n), UseDnsServer, Forwarding, InternalTraffic, <<>>,
                <<Call("register", n), Call("online", n)>>, <<Call("online", n)>>} : Tidy(n, s, X0)
  BY TidyCalls
<1>4. /\ Tidy(n, EnsureShared(c, "dns"), X1) /\ Tidy(n, EnsureShared(c, "gw"), X2)
      /\ Call("ready", "dns") \in Left(EnsureShared(c, "dns"))
  BY <1>1, EnsureTidy
<1>5. Tidy(n, e, X2) \/ Tidy(n, e, X0)
  <2>1. Tidy(n, Forwarding \o InternalTraffic, X0)
    BY <1>2, <1>3
  <2>2. Tidy(n, EnsureGateway(c), X2)
    BY <1>2, <1>3, <1>4, <2>1 DEF EnsureGateway
  <2> QED
    BY <1>3, <2>2
<1>6. Tidy(n, d, X0) /\ Tidy(n, r, X0) /\ (c = "aws" => Call("dhcp", "dns") \in Left(d)) /\ Call("register", n) \in Left(r)
  <2>1. c = "aws" => Call("dhcp", "dns") \in Left(d)
    <3> PICK t : t = UseDnsServer
      OBVIOUS
    <3>1. 3 \in 1..Len(t) /\ t[3] = Call("dhcp", "dns")
      BY DEF UseDnsServer
    <3> QED
      BY <3>1 DEF Left
  <2>2. Call("register", n) \in Left(r)
    <3>1. 1 \in 1..Len(r) /\ r[1] = Call("register", n)
      OBVIOUS
    <3> QED
      BY <3>1 DEF Left
  <2> QED
    BY <1>3, <2>1, <2>2
<1>7. /\ Tidy(n, Create(c, n) \o OpenPorts(c, n), X0) /\ Openings(c, n) \subseteq Left(Create(c, n) \o OpenPorts(c, n))
      /\ \A i \in 1..Len(Create(c, n) \o OpenPorts(c, n)) : (Create(c, n) \o OpenPorts(c, n))[i].op \notin DnsOps
  <2> PICK s, t, u : s = Create(c, n) /\ t = OpenPorts(c, n) /\ u = s \o t
    OBVIOUS
  <2>1. Fill(s, n)
    BY FillCreate
  <2>2. Tidy(n, s, X0) /\ Tidy(n, t, X0)
    BY <1>3, <2>1, TidyFill
  <2>3. s \in Seq(Calls) /\ t \in Seq(Calls)
    BY <2>2 DEF Tidy
  <2>4. \A i \in 1..Len(t) : t[i].op \notin DnsOps
    <3>1. Fill(SecurityGroup(n), n) /\ FillOps \cap DnsOps = {}
      BY FillNet DEF FillOps, DnsOps, Makes, NetOps
    <3>2. c = "aws" => t = SecurityGroup(n)
      BY DEF OpenPorts, AWSPorts
    <3>3. c = "aws" => \A i \in 1..Len(t) : t[i].op \notin DnsOps
      BY <3>1, <3>2 DEF Fill
    <3>4. c # "aws" => t = <<Call("put-rule", n), Call("tag", n)>> \/ t = <<Call("put-rule", n)>> \/ t = <<>>
      BY DEF OpenPorts, GCPPorts, AlibabaPorts, ExoscalePorts
    <3>5. ASSUME t = <<Call("put-rule", n), Call("tag", n)>> PROVE \A i \in 1..Len(t) : t[i].op \in {"put-rule", "tag"}
      <4>1. Len(t) = 2 /\ t[1].op = "put-rule" /\ t[2].op = "tag"
        BY <3>5 DEF Call
      <4>2. \A i \in 1..Len(t) : i = 1 \/ i = 2
        BY <4>1
      <4> QED
        BY <4>1, <4>2
    <3>6. ASSUME t = <<Call("put-rule", n)>> PROVE \A i \in 1..Len(t) : t[i].op \in {"put-rule", "tag"}
      <4>1. Len(t) = 1 /\ t[1].op = "put-rule"
        BY <3>6 DEF Call
      <4>2. \A i \in 1..Len(t) : i = 1
        BY <4>1
      <4> QED
        BY <4>1, <4>2
    <3>7. ASSUME t = <<>> PROVE \A i \in 1..Len(t) : t[i].op \in {"put-rule", "tag"}
      <4>1. Len(t) = 0
        BY <3>7, EmptySeq
      <4> QED
        BY <4>1
    <3>8. {"put-rule", "tag"} \cap DnsOps = {}
      BY DEF DnsOps
    <3> QED
      BY <3>3, <3>4, <3>5, <3>6, <3>7, <3>8
  <2>5. \A i \in 1..Len(s) : s[i].op \notin DnsOps
    <3>1. FillOps \cap DnsOps = {}
      BY DEF FillOps, DnsOps, Makes, NetOps
    <3> QED
      BY <2>1, <3>1 DEF Fill
  <2>6. /\ \A i \in 1..Len(s) : i \in 1..Len(u) /\ u[i] = s[i]
        /\ \A i \in 1..Len(u) : i \in 1..Len(s) \/ i - Len(s) \in 1..Len(t)
        /\ \A i \in 1..Len(u) : i - Len(s) \in 1..Len(t) => u[i] = t[i - Len(s)]
    BY <2>3, Joined
  <2>7. \A i \in 1..Len(u) : u[i].op \notin DnsOps
    BY <2>4, <2>5, <2>6
  <2>8. Tidy(n, u, X0) /\ Openings(c, n) \subseteq Left(u)
    <3>1. Tidy(n, s \o t, X0) /\ Left(t) \subseteq Left(s \o t)
      BY <1>2, <2>2
    <3>2. Openings(c, n) \subseteq Left(t)
      BY PortsLeft
    <3> QED
      BY <3>1, <3>2
  <2> QED
    BY <2>7, <2>8
<1> PICK q : q = Create(c, n) \o OpenPorts(c, n) \o EnsureShared(c, "dns") \o d \o r \o Reboot(c, n) \o <<Call("online", n)>>
  OBVIOUS
<1>8. Provision(c, n, withGw) = q \o e
  BY DEF Provision
<1> HIDE DEF d, e, r, X0, X1, X2
<1> DEFINE Has(s) == /\ Tidy(n, s, X1) /\ Openings(c, n) \subseteq Left(s)
                     /\ Call("ready", "dns") \in Left(s)
<1>9. \A s, t : Has(s) /\ Tidy(n, t, X0) => Has(s \o t) /\ Left(s) \subseteq Left(s \o t) /\ Left(t) \subseteq Left(s \o t)
  BY <1>2
<1>10. /\ Has(q) /\ Call("register", n) \in Left(q)
       /\ c = "aws" => Call("dhcp", "dns") \in Left(q)
  <2> PICK q0, q1, q2, q3, q4 : /\ q0 = Create(c, n) \o OpenPorts(c, n) /\ q1 = q0 \o EnsureShared(c, "dns") /\ q2 = q1 \o d
                                /\ q3 = q2 \o r /\ q4 = q3 \o Reboot(c, n)
    OBVIOUS
  <2>1. Has(q1)
    <3>1. X0 \cup X1 = X1 /\ X0 \cap X1 = {}
      BY DEF X0
    <3>2. Tidy(n, q1, X0 \cup X1)
      <4>1. Tidy(n, q0, X0) /\ Tidy(n, EnsureShared(c, "dns"), X1) /\ \A i \in 1..Len(q0) : q0[i].op \notin DnsOps
        BY <1>4, <1>7
      <4> PICK y : y = EnsureShared(c, "dns")
        OBVIOUS
      <4>2. Tidy(n, q0 \o y, X0 \cup X1)
        BY <3>1, <4>1, TidyConcat
      <4> QED
        BY <4>2
    <3>3. Left(q0) \subseteq Left(q1) /\ Left(EnsureShared(c, "dns")) \subseteq Left(q1)
      BY <1>4, <1>7, LeftConcat DEF Tidy
    <3> QED
      BY <1>4, <1>7, <3>1, <3>2, <3>3
  <2>2. Has(q2) /\ (c = "aws" => Call("dhcp", "dns") \in Left(q2))
    BY <1>6, <1>9, <2>1
  <2>3. Has(q3) /\ (c = "aws" => Call("dhcp", "dns") \in Left(q3)) /\ Call("register", n) \in Left(q3)
    BY <1>6, <1>9, <2>2
  <2>4. Has(q4) /\ (c = "aws" => Call("dhcp", "dns") \in Left(q4)) /\ Call("register", n) \in Left(q4)
    BY <1>3, <1>9, <2>3
  <2>5. q = q4 \o <<Call("online", n)>>
    OBVIOUS
  <2> QED
    BY <1>3, <1>9, <2>4, <2>5
<1> PICK t : t = q \o e
  OBVIOUS
<1>11. /\ Tidy(n, t, X1) \/ Tidy(n, t, X1 \cup X2)
       /\ Left(q) \subseteq Left(t)
  <2>1. X1 \cap X2 = {} /\ "dns" \notin X2
    BY <1>1 DEF X1, X2
  <2>2. Tidy(n, e, X2) => Tidy(n, q \o e, X1 \cup X2)
    BY <1>10, <2>1, TidyConcat
  <2> QED
    BY <1>2, <1>5, <1>10, <2>2, LeftConcat DEF Tidy
<1> PICK b : b = <<Call("unregister", n)>> \o Delete(n)
  OBVIOUS
<1>12. /\ b \in Seq(Calls) /\ Len(b) = 3 /\ b[1].op = "unregister" /\ b[2].op = "find" /\ b[3].op = "delete"
  <2> PICK f, g : f = <<Call("unregister", n)>> /\ g = Delete(n)
    OBVIOUS
  <2>1. f \in Seq(Calls) /\ Len(f) = 1 /\ f[1].op = "unregister"
    BY DEF Calls, Call, CallOps
  <2>2. g \in Seq(Calls) /\ Len(g) = 2 /\ g[1].op = "find" /\ g[2].op = "delete"
    BY DEF Delete, Calls, Call, CallOps
  <2>3. b = f \o g
    OBVIOUS
  <2>4. /\ b \in Seq(Calls) /\ Len(b) = Len(f) + Len(g)
        /\ \A i \in 1..Len(f) : b[i] = f[i]
        /\ \A i \in 1..Len(g) : b[i + Len(f)] = g[i]
    <3>1. f \in Seq(Calls) /\ g \in Seq(Calls) /\ b = f \o g
      BY <2>1, <2>2, <2>3
    <3>2. /\ b \in Seq(Calls) /\ Len(b) = Len(f) + Len(g)
          /\ \A i \in 1..Len(f) : i \in 1..Len(b) /\ b[i] = f[i]
          /\ \A i \in 1..Len(g) : i + Len(f) \in 1..Len(b) /\ b[i + Len(f)] = g[i]
      BY ONLY <3>1, Joined
    <3> QED
      BY ONLY <3>2
  <2>5. b[1] = f[1] /\ b[2] = g[1] /\ b[3] = g[2]
    <3>1. 1 \in 1..Len(f) /\ 1 \in 1..Len(g) /\ 2 \in 1..Len(g) /\ 1 + Len(f) = 2 /\ 2 + Len(f) = 3
      BY <2>1, <2>2
    <3> QED
      BY ONLY <2>4, <3>1
  <2> QED
    BY <2>1, <2>2, <2>4, <2>5
<1>13. Tidy(n, b, X0) /\ \A i \in 1..Len(b) : b[i].op \notin DnsOps
  <2>1. 2 + 1 \in 1..Len(b) /\ b[2 + 1] = b[3] /\ \A i \in 1..Len(b) : i = 1 \/ i = 2 \/ i = 3
    BY <1>12
  <2>2. Skips(b)
    BY <1>12, <2>1 DEF Skips
  <2>3. \A i \in 1..Len(b) : b[i].op \notin {"reuse", "ready", "rules?"} \cup Makes \cup DnsOps
    BY <1>12, <2>1 DEF Makes, DnsOps
  <2>4. Asked(n, b)
    <3>1. Call("rules?", n).op = "rules?"
      BY DEF Call
    <3> QED
      BY <2>3, <3>1 DEF Asked
  <2> QED
    BY <1>12, <2>2, <2>3, <2>4, TidyPlain DEF X0
<1>14. p = b \o t
  BY <1>8
<1>15. Neat(n, p) /\ p \in Seq(Calls) /\ Left(t) \subseteq Left(p)
  <2>1. ASSUME NEW Y, Tidy(n, t, Y) PROVE Tidy(n, b \o t, X0 \cup Y) /\ Left(t) \subseteq Left(b \o t)
    <3>1. X0 \cap Y = {}
      BY DEF X0
    <3>2. Tidy(n, b \o t, X0 \cup Y)
      BY <1>13, <2>1, <3>1, TidyConcat
    <3> QED
      BY <1>12, <2>1, <3>2, LeftConcat DEF Tidy
  <2> QED
    BY <1>11, <1>14, <2>1 DEF Tidy
<1>16. p[1].op = "unregister"
  <2>1. t \in Seq(Calls)
    BY <1>11 DEF Tidy
  <2>2. \A i \in 1..Len(b) : i \in 1..Len(p) /\ p[i] = b[i]
    BY <1>12, <1>14, <2>1, Joined
  <2>3. 1 \in 1..Len(b)
    BY <1>12
  <2> QED
    BY <1>12, <2>2, <2>3
<1> QED
  BY <1>10, <1>11, <1>15, <1>16

\* What of a worker's calls is left after the first k, and where.
LEMMA Past ==
    ASSUME NEW s \in Seq(Calls), NEW k \in Nat \ {0}, NEW t, t = SubSeq(s, k + 1, Len(s))
    PROVE  /\ t \in Seq(Calls) /\ Len(s) \in Nat /\ Len(t) \in Nat /\ (t # <<>> => k + 1 \in 1..Len(s) /\ t[1] = s[k + 1])
           /\ \A i \in 1..Len(t) : i + k \in 1..Len(s) /\ t[i] = s[i + k]
           /\ \A a \in 1..Len(s) : k < a => a - k \in 1..Len(t) /\ t[a - k] = s[a]
           /\ \A a \in Int, b \in 1..Len(s) : k < a => \A l \in (a - k)..(b - k) : l + k \in a..b /\ t[l] = s[l + k]
<1>1. /\ t \in Seq(Calls) /\ Len(s) \in Nat /\ Len(t) = IF k < Len(s) THEN Len(s) - k ELSE 0
      /\ \A i \in 1..Len(t) : i + k \in 1..Len(s) /\ t[i] = s[i + k]
      /\ k >= Len(s) => t = <<>>
  BY Suffix
<1>2. ASSUME NEW a \in 1..Len(s), k < a PROVE a - k \in 1..Len(t) /\ t[a - k] = s[a]
  <2>1. a - k \in 1..Len(t) /\ (a - k) + k = a
    BY <1>1, <1>2
  <2> QED
    BY <1>1, <2>1
<1>3. ASSUME NEW a \in Int, NEW b \in 1..Len(s), k < a, NEW l \in (a - k)..(b - k)
      PROVE  l + k \in a..b /\ t[l] = s[l + k]
  <2>1. l + k \in a..b /\ l \in 1..Len(t)
    BY <1>1, <1>3
  <2> QED
    BY <1>1, <2>1
<1>4. t # <<>> => k + 1 \in 1..Len(s) /\ t[1] = s[k + 1]
  <2>1. t # <<>> => k < Len(s)
    BY <1>1
  <2>2. k < Len(s) => 1 \in 1..Len(t) /\ 1 + k = k + 1
    BY <1>1
  <2> QED
    BY <1>1, <2>1, <2>2
<1>5. Len(t) \in Nat
  BY <1>1
<1>6. \A a \in 1..Len(s) : k < a => a - k \in 1..Len(t) /\ t[a - k] = s[a]
  BY <1>2
<1>7. \A a \in Int, b \in 1..Len(s) : k < a => \A l \in (a - k)..(b - k) : l + k \in a..b /\ t[l] = s[l + k]
  BY <1>3
<1> QED
  BY ONLY <1>1, <1>4, <1>5, <1>6, <1>7

\* A look-up that is left still may pass over no more than it could,
LEMMA SkipsTail ==
    ASSUME NEW s \in Seq(Calls), NEW k \in Nat \ {0}, NEW t, t = SubSeq(s, k + 1, Len(s)), Skips(s), Filled(s)
    PROVE  Skips(t) /\ Filled(t)
<1>1. /\ Len(s) \in Nat /\ Len(t) \in Nat
      /\ \A i \in 1..Len(t) : i + k \in 1..Len(s) /\ t[i] = s[i + k]
      /\ \A a \in 1..Len(s) : k < a => a - k \in 1..Len(t) /\ t[a - k] = s[a]
  BY Past
<1>2. Skips(t)
  <2> SUFFICES ASSUME NEW i \in 1..Len(t)
               PROVE  /\ t[i].op = "gateway?" => /\ i + 1 \in 1..Len(t) /\ i + 2 \in 1..Len(t)
                                                 /\ t[i + 1].op = "make-gateway" /\ t[i + 2].op = "attach-gateway"
                      /\ t[i].op = "dhcp?" => /\ i + 1 \in 1..Len(t) /\ i + 2 \in 1..Len(t)
                                              /\ t[i + 1].op = "make-options" /\ t[i + 2].op = "dhcp"
                      /\ t[i].op = "route?" => i + 1 \in 1..Len(t) /\ t[i + 1].op = "add-route"
                      /\ t[i].op = "find" => i + 1 \in 1..Len(t) /\ t[i + 1].op \in {"delete", "reboot", "forward"}
    BY DEF Skips
  <2> PICK a : a = i + k
    OBVIOUS
  <2>1. a \in 1..Len(s) /\ t[i] = s[a]
    BY <1>1
  <2>2. k < a + 1 /\ k < a + 2 /\ (a + 1) - k = i + 1 /\ (a + 2) - k = i + 2
    OBVIOUS
  <2>3. a + 1 \in 1..Len(s) => i + 1 \in 1..Len(t) /\ t[i + 1] = s[a + 1]
    BY <1>1, <2>2
  <2>4. a + 2 \in 1..Len(s) => i + 2 \in 1..Len(t) /\ t[i + 2] = s[a + 2]
    BY <1>1, <2>2
  <2> QED
    BY ONLY <2>1, <2>3, <2>4, Skips(s) DEF Skips
<1>3. Filled(t)
  <2> SUFFICES ASSUME NEW i \in 1..Len(t), NEW j \in 1..Len(t), NEW l \in 1..Len(t), i < j, j < l,
                      t[i].op = "reuse", t[l] = Call("ready", t[i].name)
               PROVE  t[j].op \in FillOps /\ (t[j].op \in {"rules?", "rule"} => t[j].name \notin Nodes)
    BY DEF Filled
  <2> PICK a, b, c : a = i + k /\ b = j + k /\ c = l + k
    OBVIOUS
  <2>1. a \in 1..Len(s) /\ b \in 1..Len(s) /\ c \in 1..Len(s) /\ t[i] = s[a] /\ t[j] = s[b] /\ t[l] = s[c]
    BY <1>1
  <2>2. a < b /\ b < c
    BY <1>1
  <2> QED
    BY <2>1, <2>2 DEF Filled
<1> QED
  BY <1>2, <1>3

\* ... the DNS machine is still waited for before its use and after its making,
LEMMA LateTail ==
    ASSUME NEW s \in Seq(Calls), NEW k \in Nat \ {0}, NEW t, t = SubSeq(s, k + 1, Len(s)), UsedLate(s), Addressed(s), Awaited(s)
    PROVE  UsedLate(t) /\ Addressed(t) /\ Awaited(t)
<1>1. /\ Len(s) \in Nat /\ Len(t) \in Nat
      /\ \A i \in 1..Len(t) : i + k \in 1..Len(s) /\ t[i] = s[i + k]
      /\ \A a \in 1..Len(s) : k < a => a - k \in 1..Len(t) /\ t[a - k] = s[a]
      /\ \A a \in Int, b \in 1..Len(s) : k < a => \A l \in (a - k)..(b - k) : l + k \in a..b /\ t[l] = s[l + k]
  BY Past
<1>2. UsedLate(t)
  <2> SUFFICES ASSUME NEW i \in 1..Len(t), NEW j \in 1..Len(t), i < j, t[i].op \in DnsOps
               PROVE  t[j] # Call("ready", "dns")
    BY DEF UsedLate
  <2>1. i + k \in 1..Len(s) /\ j + k \in 1..Len(s) /\ i + k < j + k /\ t[i] = s[i + k] /\ t[j] = s[j + k]
    BY <1>1
  <2> QED
    BY <2>1 DEF UsedLate
<1>3. Addressed(t)
  <2> SUFFICES ASSUME NEW i \in 1..Len(t), i + 1 \in 1..Len(t), t[i + 1] = Call("ready", "dns")
               PROVE  t[i] = Call("address", "dns")
    BY DEF Addressed
  <2>1. i + k \in 1..Len(s) /\ t[i] = s[i + k] /\ (i + 1) + k \in 1..Len(s) /\ t[i + 1] = s[(i + 1) + k]
    BY <1>1
  <2>2. (i + 1) + k = (i + k) + 1
    OBVIOUS
  <2> QED
    BY <2>1, <2>2 DEF Addressed
<1>4. Awaited(t)
  <2> SUFFICES ASSUME NEW i \in 1..Len(t), t[i].op \in Makes, t[i].name = "dns"
               PROVE  \E j \in 1..Len(t) : i < j /\ t[j] = Call("ready", "dns") /\ \A l \in i..j : t[l].op # "reuse"
    BY DEF Awaited
  <2> PICK a : a = i + k
    OBVIOUS
  <2>1. a \in 1..Len(s) /\ t[i] = s[a] /\ k < a /\ a \in Int /\ a - k = i
    BY <1>1
  <2>2. PICK b \in 1..Len(s) : a < b /\ s[b] = Call("ready", "dns") /\ \A l \in a..b : s[l].op # "reuse"
    BY <2>1 DEF Awaited
  <2>3. k < b /\ i < b - k
    BY <2>1, <2>2
  <2>4. b - k \in 1..Len(t) /\ t[b - k] = s[b]
    BY <1>1, <2>3
  <2>5. \A l \in i..(b - k) : t[l].op # "reuse"
    BY <1>1, <2>1, <2>2
  <2> QED
    BY <2>2, <2>3, <2>4, <2>5
<1> QED
  BY <1>2, <1>3, <1>4

\* ... and the rule that is asked for is still added.
LEMMA NeatTail ==
    ASSUME NEW n, NEW s \in Seq(Calls), NEW k \in Nat \ {0}, NEW t, t = SubSeq(s, k + 1, Len(s)), Neat(n, s)
    PROVE  Neat(n, t)
<1>1. /\ Len(s) \in Nat /\ Len(t) \in Nat
      /\ \A i \in 1..Len(t) : i + k \in 1..Len(s) /\ t[i] = s[i + k]
      /\ \A a \in 1..Len(s) : k < a => a - k \in 1..Len(t) /\ t[a - k] = s[a]
      /\ \A a \in Int, b \in 1..Len(s) : k < a => \A l \in (a - k)..(b - k) : l + k \in a..b /\ t[l] = s[l + k]
  BY Past
<1>2. Asked(n, t)
  <2> SUFFICES ASSUME NEW i \in 1..Len(t), t[i] = Call("rules?", n)
               PROVE  \E j \in 1..Len(t) : i < j /\ t[j] = Call("rule", n) /\ \A l \in (i + 1)..j : t[l].op # "rules?"
    BY DEF Asked
  <2> PICK a : a = i + k
    OBVIOUS
  <2>1. a \in 1..Len(s) /\ t[i] = s[a] /\ k < a + 1 /\ a + 1 \in Int /\ (a + 1) - k = i + 1
    BY <1>1
  <2>2. PICK b \in 1..Len(s) : a < b /\ s[b] = Call("rule", n) /\ \A l \in (a + 1)..b : s[l].op # "rules?"
    BY <2>1 DEF Neat, Asked
  <2>3. k < b /\ i < b - k
    BY <1>1, <2>1, <2>2
  <2>4. b - k \in 1..Len(t) /\ t[b - k] = s[b]
    BY <1>1, <2>3
  <2>5. \A l \in (i + 1)..(b - k) : t[l].op # "rules?"
    BY <1>1, <2>1, <2>2
  <2> QED
    BY <2>2, <2>3, <2>4, <2>5
<1>3. Skips(s) /\ Filled(s) /\ UsedLate(s) /\ Addressed(s) /\ Awaited(s)
  BY DEF Neat
<1>6. t = SubSeq(s, k + 1, Len(s))
  OBVIOUS
<1>4. Skips(t) /\ Filled(t)
  <2>1. Skips(s) /\ Filled(s)
    BY <1>3
  <2>2. s \in Seq(Calls) /\ k \in Nat \ {0} /\ t = SubSeq(s, k + 1, Len(s))
    OBVIOUS
  <2>3. Skips(t)
    BY ONLY <2>1, <2>2, SkipsTail, ZenonT(30)
  <2>4. Filled(t)
    BY ONLY <2>1, <2>2, SkipsTail, ZenonT(30)
  <2> QED
    BY ONLY <2>3, <2>4
<1>5. UsedLate(t) /\ Addressed(t) /\ Awaited(t)
  BY ONLY <1>3, <1>6, s \in Seq(Calls), k \in Nat \ {0}, LateTail, ZenonT(30)
<1> QED
  BY ONLY <1>2, <1>4, <1>5 DEF Neat

\* A worker without calls is neat, and has none left.
LEMMA NeatEmpty == (\A n : Neat(n, <<>>)) /\ Left(<<>>) = {} /\ ~Awaits(<<>>)
<1>1. 1..Len(<<>>) = {}
  BY EmptySeq
<1> QED
  BY <1>1 DEF Neat, Skips, Filled, UsedLate, Addressed, Awaited, Asked, Left, Awaits

\* A call that was left is left still, or is one of those that were done or passed over.
Gone(s, k) == {s[i] : i \in {j \in 1..Len(s) : j <= k}}
\* Those are Gone, and no other call is lost.
LEMMA LeftPast ==
    ASSUME NEW s \in Seq(Calls), NEW k \in Nat \ {0}, NEW t, t = SubSeq(s, k + 1, Len(s)), NEW c \in Left(s)
    PROVE  c \in Left(t) \/ c \in Gone(s, k)
<1>1. PICK i \in 1..Len(s) : c = s[i]
  BY DEF Left
<1>2. CASE k < i
  <2>1. i - k \in 1..Len(t) /\ t[i - k] = s[i]
    BY <1>2, Past
  <2> QED
    BY <1>1, <2>1 DEF Left
<1>3. CASE i <= k
  BY <1>1, <1>3 DEF Gone
<1>4. Len(s) \in Nat
  BY Past
<1> QED
  BY <1>2, <1>3, <1>4

\* Of the calls that are done one by one, each is the first.
LEMMA GoneFirst ==
    ASSUME NEW s \in Seq(Calls), s # <<>>
    PROVE  Gone(s, 1) = {s[1]} /\ \A k \in Nat \ {0} : s[1] \in Gone(s, k)
<1>1. Len(s) \in Nat /\ 1 \in 1..Len(s)
  BY EmptySeq, LenProperties
<1>2. {j \in 1..Len(s) : j <= 1} = {1}
  BY <1>1
<1> QED
  BY <1>1, <1>2 DEF Gone

\* What a worker's calls leave of the ports that are open, ...
PortsLast ==
    /\ cloud' = cloud /\ rules \subseteq rules' /\ undeleted \subseteq undeleted'
    /\ \A j \in Nodes : work[j].got # 0 /\ <<work[j].got, j>> \in groups => <<work[j].got, j>> \in groups'
\* ... and of the DNS machine and what is set to it.
DnsStays ==
    /\ \A d \in machines : d.name = "dns" => \E e \in machines' : e.id = d.id /\ e.name = "dns" /\ (d.up => e.up)
    /\ \A e \in machines' : e.name = "dns" => \E d \in machines : d.id = e.id /\ d.name = "dns" /\ (d.up => e.up)
DnsLast(n) ==
    /\ mode' = mode /\ (unsure => unsure')
    /\ \A j \in Nodes : \A d : work[j].got # 0 /\ <<d, j, work[j].got>> \in records => <<d, j, work[j].got>> \in records'
    /\ net'.dhcp = net.dhcp \/ (At(n, "dhcp") /\ net'.dhcp = work[n].dns)
    /\ \A d \in machines : d.name = "dns" => \E e \in machines' : e.id = d.id /\ e.name = "dns" /\ (d.up => e.up)
    /\ DnsStays \/ (Busy(n) /\ work[n].todo[1].op \in Makes /\ work[n].todo[1].name = "dns")

\* Worker n, now x, has done or passed over k calls: what it knows of its own node's machine it keeps.
Fields == {"todo", "seen", "lack", "got", "dns", "end"}
Done(n, k, x) ==
    /\ k \in Nat \ {0} /\ DidWith(n, k, x) /\ Fields \subseteq DOMAIN x /\ x.todo = work[n].todo /\ x.end = work[n].end
    /\ x.got = work[n].got \/ work[n].got = 0
    /\ work[n].todo[1].op \in Makes => k = 1
\* What it did for the ports: it asked for the rules or added them, none was passed over,
PortsDone(n, k, x) ==
    /\ Call("rules?", n) \in Gone(work[n].todo, k) => k = 1 /\ x.lack = {"ssh", n} \ rules
    /\ Call("rule", n) \in Gone(work[n].todo, k) => k = 1 /\ (n \notin work[n].lack \/ n \in rules')
    /\ work[n].todo[1].op # "rules?" => x.lack = work[n].lack
    /\ Call("put-rule", n) \in Gone(work[n].todo, k) => n \in rules'
    /\ Call("tag", n) \in Gone(work[n].todo, k) =>
          work[n].got # 0 /\ x.got = work[n].got /\ (n \in undeleted' \/ <<work[n].got, n>> \in groups')
\* ... and for the DNS machine: it was waited for or looked up, its address is known, the record is sent to it
\* and the options name it.
DnsDone(n, k, x) ==
    /\ Call("ready", "dns") \in Gone(work[n].todo, k) =>
          \/ k = 1 /\ work[n].todo[1] = Call("ready", "dns") /\ x.dns = work[n].dns /\ \E m \in machines : m.id = work[n].seen /\ m.up
          \/ work[n].todo[1].op = "reuse" /\ \E m \in machines : m.name = "dns" /\ x.dns = m.id
    /\ x.dns = work[n].dns \/ \E m \in machines : m.name = "dns" /\ x.dns = m.id
    /\ k \in 1..Len(work[n].todo) /\ work[n].todo[k] = Call("address", "dns") =>
          \E m \in machines : m.name = "dns" /\ x.seen = m.id /\ x.dns = m.id
    /\ Call("register", n) \in Gone(work[n].todo, k) =>
          /\ k = 1 /\ work[n].todo[1].op = "register" /\ work[n].got # 0 /\ x.got = work[n].got
          /\ unsure' \/ ((\E d \in machines : d.id = work[n].dns /\ d.up) => <<work[n].dns, n, work[n].got>> \in records')
    /\ Call("dhcp", "dns") \in Gone(work[n].todo, k) =>
          work[n].todo[1].op \in {"dhcp?", "dhcp"} /\ net'.dhcp = work[n].dns

\* The worker after those calls.
LEMMA DoneIs ==
    ASSUME CloudInv, NEW n \in Nodes, NEW k, NEW x, Done(n, k, x), NEW s, s = work[n].todo, NEW v, v = After(x, k)
    PROVE  /\ work' = [work EXCEPT ![n] = v] /\ work'[n] = v /\ \A j \in Nodes \ {n} : work'[j] = work[j]
           /\ s \in Seq(Calls) /\ v.todo = SubSeq(s, k + 1, Len(s)) /\ v.got = x.got
           /\ v.todo # <<>> => v.lack = x.lack /\ v.seen = x.seen /\ v.dns = x.dns /\ v.end = work[n].end
<1>1. work \in [Nodes -> WorkerType(made)] /\ work[n].todo \in Seq(Calls)
  BY DEF CloudInv, Types, WorkType, WorkerType
<1>2. Fields \subseteq DOMAIN x /\ x.todo = s /\ x.end = work[n].end /\ k \in Nat \ {0}
  BY DEF Done
<1>3. v.todo = SubSeq(s, k + 1, Len(s))
  <2>1. "todo" \in DOMAIN x /\ x.todo \in Seq(Calls)
    BY <1>1, <1>2 DEF Fields
  <2> QED
    BY <1>2, <2>1, AfterTodo
<1>4. v.got = x.got
  BY <1>2, AfterGot DEF Fields
<1>5. Len(x.todo) # k => v.lack = x.lack /\ v.seen = x.seen /\ v.dns = x.dns /\ v.end = work[n].end
  BY <1>2 DEF After, Fields
<1>6. v.todo # <<>> => Len(x.todo) # k
  BY <1>2 DEF After, Idle
<1>7. work' = [work EXCEPT ![n] = v]
  BY DEF Done, DidWith, After
<1> QED
  BY <1>1, <1>3, <1>4, <1>5, <1>6, <1>7

\* ... in short: what it has left and knows then.
Moved(n, k, x) ==
    /\ work'[n] = After(x, k) /\ \A j \in Nodes \ {n} : work'[j] = work[j]
    /\ work[n].todo \in Seq(Calls) /\ After(x, k).todo = SubSeq(work[n].todo, k + 1, Len(work[n].todo))
    /\ After(x, k).got = x.got
    /\ After(x, k).todo # <<>> => After(x, k).lack = x.lack /\ After(x, k).seen = x.seen /\ After(x, k).dns = x.dns
\* A worker that does calls moves.
LEMMA DoneMoves == ASSUME CloudInv, NEW n \in Nodes, NEW k, NEW x, Done(n, k, x) PROVE Moved(n, k, x)
<1> PICK v : v = After(x, k)
  OBVIOUS
<1> PICK s : s = work[n].todo
  OBVIOUS
<1> QED
  BY DoneIs DEF Moved

\* The ports of a node whose worker does not move stay open.
LEMMA OthersOpened ==
    ASSUME PortsLast, NEW j \in Nodes, work'[j] = work[j], Active(j) => Opened(j) PROVE (Active(j) => Opened(j))'
<1> PICK w : w = work[j]
  OBVIOUS
<1> SUFFICES ASSUME Active(j)' PROVE Opened(j)'
  OBVIOUS
<1>1. Opened(j) /\ work[j] = w /\ work'[j] = w
  BY DEF Active, Busy
<1> QED
  BY <1>1 DEF Opened, PortsLast

\* A worker's calls leave open what they opened.
LEMMA DoneOpened ==
    ASSUME CloudInv, AllKnown, AllNeat, PortsInv, PortsLast, NEW n \in Nodes, Busy(n), NEW k, NEW x, Done(n, k, x), PortsDone(n, k, x)
    PROVE  PortsInv'
<1> PICK w : w = work[n]
  OBVIOUS
<1> PICK s : s = w.todo
  OBVIOUS
<1> PICK v : v = After(x, k)
  OBVIOUS
<1> PICK t : t = v.todo
  OBVIOUS
<1>1. /\ work'[n] = v /\ \A j \in Nodes \ {n} : work'[j] = work[j]
      /\ s \in Seq(Calls) /\ t = SubSeq(s, k + 1, Len(s)) /\ v.got = x.got /\ k \in Nat \ {0}
      /\ t # <<>> => v.lack = x.lack
  <2>1. Done(n, k, x) /\ s = work[n].todo /\ k \in Nat \ {0}
    BY DEF Done
  <2> QED
    BY <2>1, DoneIs
<1>2. ASSUME NEW c \in Left(s) PROVE c \in Left(t) \/ c \in Gone(s, k)
  BY <1>1, LeftPast
<1>3. Opened(n) /\ Asked(n, s) /\ s # <<>>
  BY DEF PortsInv, Active, AllNeat, Neat, Busy
<1>4. cloud = "aws" => n \in rules' \/ Call("rules?", n) \in Left(t) \/ (n \in v.lack /\ Adds(n, t))
  <2> SUFFICES ASSUME cloud = "aws", n \notin rules', Call("rules?", n) \notin Left(t) PROVE n \in v.lack /\ Adds(n, t)
    OBVIOUS
  <2>1. n \notin rules
    BY DEF PortsLast
  <2>2. Call("rules?", n) \in Left(s) \/ (n \in w.lack /\ Adds(n, s))
    BY <1>3, <2>1 DEF Opened
  <2>3. CASE Call("rules?", n) \in Gone(s, k)
    <3>1. k = 1 /\ n \in x.lack /\ s[1] = Call("rules?", n) /\ 1 \in 1..Len(s)
      <4>1. k = 1 /\ n \in x.lack
        BY <2>1, <2>3 DEF PortsDone
      <4>2. Gone(s, 1) = {s[1]} /\ Len(s) \in Nat
        BY <1>1, <1>3, GoneFirst, Past
      <4>3. 1 \in 1..Len(s)
        BY <1>1, <1>3, <4>2, EmptySeq
      <4> QED
        BY <2>3, <4>1, <4>2, <4>3
    <3>2. PICK j \in 1..Len(s) : 1 < j /\ s[j] = Call("rule", n) /\ \A l \in (1 + 1)..j : s[l].op # "rules?"
      BY <1>3, <3>1 DEF Asked
    <3>3. /\ j - k \in 1..Len(t) /\ t[j - k] = s[j]
          /\ \A l \in 1..(j - k) : t[l].op # "rules?"
      <4>1. k < j
        BY <3>1, <3>2
      <4>2. j - k \in 1..Len(t) /\ t[j - k] = s[j]
        BY <1>1, <4>1, Past
      <4>3. ASSUME NEW l \in 1..(j - k) PROVE t[l].op # "rules?"
        <5>1. l \in 1..Len(t) /\ l + k \in (1 + 1)..j
          BY <3>1, <4>2
        <5>2. t[l] = s[l + k]
          BY <1>1, <5>1, Past
        <5>3. s[l + k].op # "rules?"
          BY <3>2, <5>1
        <5> QED
          BY ONLY <5>2, <5>3
      <4> QED
        BY <4>2, <4>3
    <3>4. t # <<>>
      BY <3>3, EmptySeq
    <3> QED
      BY <1>1, <3>1, <3>2, <3>3, <3>4 DEF Adds
  <2>4. CASE n \in w.lack /\ Adds(n, s)
    <3>1. PICK j \in 1..Len(s) : s[j] = Call("rule", n) /\ \A l \in 1..j : s[l].op # "rules?"
      BY <2>4 DEF Adds
    <3>2. k < j
      <4>1. Call("rule", n) \notin Gone(s, k)
        BY <2>4 DEF PortsDone
      <4>2. j <= k => s[j] \in Gone(s, k)
        BY DEF Gone
      <4>3. j \in Nat
        BY <1>1, Past
      <4> QED
        BY <1>1, <3>1, <4>1, <4>2, <4>3
    <3>3. j - k \in 1..Len(t) /\ t[j - k] = s[j]
      BY <1>1, <3>2, Past
    <3>4. \A l \in 1..(j - k) : t[l].op # "rules?"
      <4>1. k + 1 \in Int /\ k < k + 1 /\ (k + 1) - k = 1
        BY <1>1
      <4>2. \A l \in ((k + 1) - k)..(j - k) : l + k \in (k + 1)..j /\ t[l] = s[l + k]
        BY <1>1, <4>1, Past
      <4>3. \A l \in (k + 1)..j : l \in 1..j
        BY <1>1
      <4> QED
        BY <3>1, <4>1, <4>2, <4>3
    <3>5. s[1].op # "rules?"
      <4>1. 1 \in 1..j
        BY <1>1, <3>2
      <4> QED
        BY <3>1, <4>1
    <3>6. t # <<>>
      BY <3>3, EmptySeq
    <3>7. x.lack = w.lack
      BY <3>5 DEF PortsDone
    <3> QED
      BY <1>1, <2>4, <3>1, <3>3, <3>4, <3>6, <3>7 DEF Adds
  <2> QED
    BY <1>2, <2>2, <2>3, <2>4
<1>5. cloud \in {"gcp", "alibaba", "exoscale"} => n \in rules' \/ Call("put-rule", n) \in Left(t)
  <2>1. Call("put-rule", n) \in Gone(s, k) => n \in rules'
    BY DEF PortsDone
  <2>2. cloud \in {"gcp", "alibaba", "exoscale"} => n \in rules \/ Call("put-rule", n) \in Left(s)
    BY <1>3 DEF Opened
  <2> QED
    BY <1>2, <2>1, <2>2 DEF PortsLast
<1>6. cloud \in {"gcp", "exoscale"} =>
         Call("tag", n) \in Left(t) \/ (v.got # 0 /\ (n \in undeleted' \/ <<v.got, n>> \in groups'))
  <2>1. Call("tag", n) \in Gone(s, k) => w.got # 0 /\ x.got = w.got /\ (n \in undeleted' \/ <<w.got, n>> \in groups')
    BY DEF PortsDone
  <2>2. cloud \in {"gcp", "exoscale"} =>
            Call("tag", n) \in Left(s) \/ (w.got # 0 /\ (n \in undeleted \/ <<w.got, n>> \in groups))
    BY <1>3 DEF Opened
  <2>3. w.got # 0 => x.got = w.got /\ (<<w.got, n>> \in groups => <<w.got, n>> \in groups')
    BY DEF Done, PortsLast
  <2>4. undeleted \subseteq undeleted'
    BY DEF PortsLast
  <2> QED
    BY <1>1, <1>2, <2>1, <2>2, <2>3, <2>4
<1>7. Opened(n)'
  BY <1>1, <1>4, <1>5, <1>6 DEF Opened, PortsLast
<1>8. ASSUME NEW j \in Nodes \ {n} PROVE (Active(j) => Opened(j))'
  BY <1>1, OthersOpened DEF PortsInv
<1> QED
  BY <1>7, <1>8 DEF PortsInv

\* With workers in turn, who is at work knows the DNS machine once it needs it, and waits for one that is not up.
LEMMA DnsKnown ==
    ASSUME CloudInv, InTurn, AllNeat, Coming, NEW n \in Nodes, Busy(n), Seen(n), Waited(n), NEW s, s = work[n].todo
    PROVE  /\ \A d, e \in machines : d.name = "dns" /\ e.name = "dns" => d = e
           /\ (\E d \in machines : d.name = "dns" /\ ~d.up) => Awaits(s)
           /\ s[1].op \in DnsOps => \E d \in machines : d.name = "dns" /\ d.up /\ work[n].dns = d.id
           /\ \A k \in Nat \ {0} : \A x : DnsDone(n, k, x) /\ Call("ready", "dns") \in Gone(s, k) =>
                 \E d \in machines : d.name = "dns" /\ d.up /\ x.dns = d.id
<1>1. s \in Seq(Calls) /\ s # <<>> /\ Len(s) \in Nat /\ 1 \in 1..Len(s) /\ Neat(n, s)
  <2>1. s \in Seq(Calls) /\ s # <<>> /\ Neat(n, s)
    BY DEF CloudInv, Types, WorkType, WorkerType, Busy, AllNeat
  <2> QED
    BY <2>1, EmptySeq, LenProperties
<1>2. ASSUME NEW d \in machines, NEW e \in machines, d.name = "dns", e.name = "dns" PROVE d = e
  BY <1>2 DEF InTurn, Once, Shared
<1>3. ASSUME NEW d \in machines, d.name = "dns", ~d.up PROVE Awaits(s)
  <2>1. PICK k \in Nodes : Awaits(work[k].todo)
    BY <1>3 DEF Coming
  <2>2. Busy(k)
    BY <2>1, NeatEmpty DEF Busy
  <2> QED
    BY <2>1, <2>2 DEF InTurn
<1>4. ASSUME s[1].op \in DnsOps PROVE \E d \in machines : d.name = "dns" /\ d.up /\ work[n].dns = d.id
  <2>1. Call("ready", "dns") \notin Left(s)
    <3> SUFFICES ASSUME NEW i \in 1..Len(s), s[i] = Call("ready", "dns") PROVE FALSE
      BY DEF Left
    <3>1. i # 1
      BY <1>4 DEF DnsOps, Call
    <3>2. 1 < i
      BY <1>1, <3>1
    <3> QED
      BY <1>1, <1>4, <3>2 DEF Neat, UsedLate
  <2> QED
    BY <2>1 DEF Waited
<1>5. ASSUME NEW k \in Nat \ {0}, NEW x, DnsDone(n, k, x), Call("ready", "dns") \in Gone(s, k)
      PROVE  \E d \in machines : d.name = "dns" /\ d.up /\ x.dns = d.id
  <2>1. CASE s[1] = Call("ready", "dns") /\ x.dns = work[n].dns /\ \E m \in machines : m.id = work[n].seen /\ m.up
    <3>1. work[n].seen = work[n].dns /\ Is(machines, work[n].dns, "dns")
      BY <2>1 DEF Seen
    <3>2. PICK m \in machines : m.id = work[n].dns /\ m.up
      BY <2>1, <3>1
    <3>3. PICK d \in machines : d.id = work[n].dns /\ d.name = "dns"
      BY <3>1 DEF Is
    <3>4. m = d
      BY <3>2, <3>3 DEF CloudInv, Types, StockType, OneEach
    <3> QED
      BY <2>1, <3>2, <3>3, <3>4
  <2>2. CASE s[1].op = "reuse" /\ \E m \in machines : m.name = "dns" /\ x.dns = m.id
    <3>1. ~Awaits(s)
      <4>1. \A i \in 1..Len(s) : 1 \in 1..i
        BY <1>1
      <4> QED
        BY <2>2, <4>1 DEF Awaits
    <3> QED
      BY <1>3, <2>2, <3>1
  <2> QED
    BY <1>5, <2>1, <2>2 DEF DnsDone
<1> QED
  BY <1>2, <1>3, <1>4, <1>5

\* A DNS machine that was not up and is waited for is waited for still, or is up.
LEMMA AwaitsLeft ==
    ASSUME NEW s \in Seq(Calls), Awaits(s), NEW k \in Nat \ {0}, NEW t, t = SubSeq(s, k + 1, Len(s))
    PROVE  Awaits(t) \/ Call("ready", "dns") \in Gone(s, k)
<1>1. PICK i \in 1..Len(s) : s[i] = Call("ready", "dns") /\ \A j \in 1..i : s[j].op # "reuse"
  BY DEF Awaits
<1>2. Len(s) \in Nat
  BY Past
<1>3. CASE k < i
  <2>1. i - k \in 1..Len(t) /\ t[i - k] = s[i]
    BY <1>3, Past
  <2>2. ASSUME NEW l \in 1..(i - k) PROVE t[l].op # "reuse"
    <3>1. l \in 1..Len(t) /\ l + k \in 1..i
      BY <1>2, <2>1
    <3> QED
      BY <1>1, <3>1, Past
  <2> QED
    BY <1>1, <2>1, <2>2 DEF Awaits
<1>4. CASE i <= k
  BY <1>1, <1>4 DEF Gone
<1> QED
  BY <1>2, <1>3, <1>4

\* A DNS machine that is made is waited for, before and after the call.
LEMMA MadeAwaited ==
    ASSUME NEW s \in Seq(Calls), s # <<>>, Awaited(s), s[1].op \in Makes, s[1].name = "dns",
           NEW t, t = SubSeq(s, 1 + 1, Len(s))
    PROVE  Awaits(s) /\ Awaits(t)
<1>1. Len(s) \in Nat /\ 1 \in 1..Len(s)
  BY EmptySeq, LenProperties
<1>2. PICK j \in 1..Len(s) : 1 < j /\ s[j] = Call("ready", "dns") /\ \A l \in 1..j : s[l].op # "reuse"
  BY <1>1 DEF Awaited
<1>3. Awaits(s)
  BY <1>2 DEF Awaits
<1>4. Call("ready", "dns") \notin Gone(s, 1)
  BY GoneFirst DEF Makes, Call
<1>5. 1 \in Nat \ {0}
  OBVIOUS
<1> QED
  BY <1>3, <1>4, <1>5, AwaitsLeft

\* What is set to the DNS machine of a node whose worker does not move stays set.
LEMMA OthersDns ==
    ASSUME NEW n \in Nodes, DnsLast(n), NEW j \in Nodes, work'[j] = work[j], cloud' = cloud,
           Recorded(j) /\ Optioned(j) /\ Waited(j),
           At(n, "dhcp") => \E d \in machines : d.name = "dns" /\ work[n].dns = d.id
    PROVE  (Recorded(j) /\ Optioned(j) /\ Waited(j))'
<1> PICK w : w = work[j]
  OBVIOUS
<1>1. work[j] = w /\ work'[j] = w
  OBVIOUS
<1>2. ASSUME NEW d \in machines, d.name = "dns"
      PROVE  \E e \in machines' : e.id = d.id /\ e.name = "dns" /\ (d.up => e.up)
  BY <1>2 DEF DnsLast
<1>3. Recorded(j)'
  BY <1>1, <1>2 DEF Recorded, DnsLast
<1>4. Optioned(j)'
  <2>1. CASE cloud # "aws" \/ Call("dhcp", "dns") \in Left(w.todo)
    BY <1>1, <2>1 DEF Optioned
  <2>2. CASE \E d \in machines : d.name = "dns" /\ net.dhcp = d.id
    <3>1. PICK d \in machines : d.name = "dns" /\ net'.dhcp = d.id
      <4>1. net'.dhcp = net.dhcp \/ (At(n, "dhcp") /\ net'.dhcp = work[n].dns)
        BY DEF DnsLast
      <4> QED
        BY <2>2, <4>1
    <3> QED
      BY <1>2, <3>1 DEF Optioned
  <2> QED
    BY <1>1, <2>1, <2>2 DEF Optioned
<1>5. Waited(j)'
  BY <1>1, <1>2 DEF Waited, Busy
<1> QED
  BY <1>3, <1>4, <1>5

\* A worker's calls keep the DNS machine, and what is set to it.
LEMMA DoneDns ==
    ASSUME CloudInv, InTurn, AllNeat, Coming, NEW n \in Nodes, Busy(n), DnsLast(n), cloud' = cloud, ~unsure',
           \A j \in Nodes : Seen(j) /\ (Active(j) => Recorded(j) /\ Optioned(j) /\ Waited(j)),
           NEW k, NEW x, Done(n, k, x), DnsDone(n, k, x)
    PROVE  Coming' /\ \A j \in Nodes : Seen(j)' /\ (Active(j)' => Recorded(j)' /\ Optioned(j)' /\ Waited(j)')
<1> PICK w : w = work[n]
  OBVIOUS
<1> PICK s : s = w.todo
  OBVIOUS
<1> PICK v : v = After(x, k)
  OBVIOUS
<1> PICK t : t = v.todo
  OBVIOUS
<1>1. /\ work'[n] = v /\ \A j \in Nodes \ {n} : work'[j] = work[j]
      /\ s \in Seq(Calls) /\ t = SubSeq(s, k + 1, Len(s)) /\ v.got = x.got /\ k \in Nat \ {0}
      /\ t # <<>> => v.seen = x.seen /\ v.dns = x.dns
  <2>1. Moved(n, k, x) /\ k \in Nat \ {0}
    BY DoneMoves DEF Done
  <2>2. s = work[n].todo
    OBVIOUS
  <2> QED
    BY ONLY <2>1, <2>2, v = After(x, k), t = v.todo DEF Moved
<1>2. ASSUME NEW c \in Left(s) PROVE c \in Left(t) \/ c \in Gone(s, k)
  BY <1>1, LeftPast
<1>3. s # <<>> /\ Neat(n, s) /\ Recorded(n) /\ Optioned(n) /\ Waited(n) /\ Seen(n) /\ 1 \in 1..Len(s)
  <2>1. s # <<>> /\ Neat(n, s) /\ Recorded(n) /\ Optioned(n) /\ Waited(n) /\ Seen(n)
    BY DEF Active, AllNeat, Busy
  <2> QED
    BY <1>1, <2>1, EmptySeq, LenProperties
<1>4. /\ \A d, e \in machines : d.name = "dns" /\ e.name = "dns" => d = e
      /\ (\E d \in machines : d.name = "dns" /\ ~d.up) => Awaits(s)
      /\ s[1].op \in DnsOps => \E d \in machines : d.name = "dns" /\ d.up /\ w.dns = d.id
      /\ Call("ready", "dns") \in Gone(s, k) => \E d \in machines : d.name = "dns" /\ d.up /\ x.dns = d.id
  BY <1>1, <1>3, DnsKnown
<1>5. ASSUME NEW d \in machines, d.name = "dns"
      PROVE  \E e \in machines' : e.id = d.id /\ e.name = "dns" /\ (d.up => e.up)
  BY <1>5 DEF DnsLast
<1>6. Coming'
  <2> SUFFICES ASSUME NEW e \in machines', e.name = "dns", ~e.up PROVE Awaits(t)
    BY <1>1 DEF Coming
  <2>1. CASE s[1].op \in Makes /\ s[1].name = "dns"
    <3>1. k = 1
      BY <2>1 DEF Done
    <3>2. t = SubSeq(s, 1 + 1, Len(s)) /\ Awaited(s)
      BY <1>1, <1>3, <3>1 DEF Neat
    <3> QED
      BY <1>1, <1>3, <2>1, <3>2, MadeAwaited
  <2>2. CASE DnsStays
    <3>1. PICK d \in machines : d.id = e.id /\ d.name = "dns" /\ ~d.up
      BY <2>2 DEF DnsStays
    <3>2. Awaits(s)
      BY <1>4, <3>1
    <3>3. Call("ready", "dns") \notin Gone(s, k)
      BY <1>4, <3>1
    <3> QED
      BY <1>1, <3>2, <3>3, AwaitsLeft
  <2> QED
    BY <2>1, <2>2 DEF DnsLast
<1>7. Seen(n)'
  <2> SUFFICES ASSUME t # <<>>, t[1] = Call("ready", "dns") PROVE x.seen = x.dns /\ Is(machines', x.dns, "dns")
    BY <1>1 DEF Seen, Busy
  <2>1. k + 1 \in 1..Len(s) /\ s[k + 1] = Call("ready", "dns") /\ k \in 1..Len(s)
    <3>1. k + 1 \in 1..Len(s) /\ t[1] = s[k + 1] /\ Len(s) \in Nat
      BY <1>1, Past
    <3> QED
      BY <1>1, <3>1
  <2>2. s[k] = Call("address", "dns")
    BY <1>3, <2>1 DEF Neat, Addressed
  <2>3. PICK m \in machines : m.name = "dns" /\ x.seen = m.id /\ x.dns = m.id
    BY <2>1, <2>2 DEF DnsDone
  <2> QED
    BY <1>5, <2>3 DEF Is
<1>8. Waited(n)'
  <2>1. CASE Call("ready", "dns") \in Left(t)
    BY <1>1, <2>1 DEF Waited
  <2>2. CASE \E d \in machines : d.name = "dns" /\ d.up /\ x.dns = d.id
    <3>1. PICK d \in machines : d.name = "dns" /\ d.up /\ x.dns = d.id
      BY <2>2
    <3>2. PICK e \in machines' : e.id = d.id /\ e.name = "dns" /\ e.up
      BY <1>5, <3>1
    <3>3. t # <<>> => v.dns = e.id
      BY <1>1, <3>1, <3>2
    <3> QED
      BY <1>1, <3>2, <3>3 DEF Waited, Busy
  <2>3. CASE \E d \in machines : d.name = "dns" /\ d.up /\ w.dns = d.id
    <3>1. PICK d \in machines : d.name = "dns" /\ d.up /\ w.dns = d.id
      BY <2>3
    <3>2. x.dns = w.dns \/ \E m \in machines : m.name = "dns" /\ x.dns = m.id
      BY DEF DnsDone
    <3>3. x.dns = d.id
      BY <1>4, <3>1, <3>2
    <3> QED
      BY <2>2, <3>1, <3>3
  <2>4. Call("ready", "dns") \in Left(s) \/ \E d \in machines : d.name = "dns" /\ d.up /\ w.dns = d.id
    BY <1>3 DEF Waited
  <2> QED
    BY <1>2, <1>4, <2>1, <2>2, <2>3, <2>4
<1>9. Recorded(n)'
  <2>1. CASE Call("register", n) \in Left(t)
    BY <1>1, <2>1 DEF Recorded
  <2>2. CASE Call("register", n) \in Gone(s, k)
    <3>1. /\ s[1].op = "register" /\ w.got # 0 /\ x.got = w.got
          /\ (\E d \in machines : d.id = w.dns /\ d.up) => <<w.dns, n, w.got>> \in records'
      BY <2>2 DEF DnsDone
    <3>2. PICK d \in machines : d.name = "dns" /\ d.up /\ w.dns = d.id
      BY <1>4, <3>1 DEF DnsOps
    <3>3. PICK e \in machines' : e.id = d.id /\ e.name = "dns"
      BY <1>5, <3>2
    <3> QED
      BY <1>1, <3>1, <3>2, <3>3 DEF Recorded
  <2>3. CASE w.got # 0 /\ \E d \in machines : d.name = "dns" /\ <<d.id, n, w.got>> \in records
    <3>1. PICK d \in machines : d.name = "dns" /\ <<d.id, n, w.got>> \in records
      BY <2>3
    <3>2. x.got = w.got /\ <<d.id, n, w.got>> \in records'
      BY <2>3, <3>1 DEF Done, DnsLast
    <3>3. PICK e \in machines' : e.id = d.id /\ e.name = "dns"
      BY <1>5, <3>1
    <3> QED
      BY <1>1, <2>3, <3>2, <3>3 DEF Recorded
  <2>4. Call("register", n) \in Left(s) \/ (w.got # 0 /\ \E d \in machines : d.name = "dns" /\ <<d.id, n, w.got>> \in records)
    BY <1>3 DEF Recorded
  <2> QED
    BY <1>2, <2>1, <2>2, <2>3, <2>4
<1>10. At(n, "dhcp") => \E d \in machines : d.name = "dns" /\ w.dns = d.id
  BY <1>4 DEF At, DnsOps
<1>11. Optioned(n)'
  <2>1. CASE \E d \in machines : d.name = "dns" /\ net'.dhcp = d.id
    <3>1. PICK d \in machines : d.name = "dns" /\ net'.dhcp = d.id
      BY <2>1
    <3> QED
      BY <1>5, <3>1 DEF Optioned
  <2>2. CASE cloud # "aws" \/ Call("dhcp", "dns") \in Left(t)
    BY <1>1, <2>2 DEF Optioned
  <2>3. CASE Call("dhcp", "dns") \in Gone(s, k)
    <3>1. s[1].op \in DnsOps /\ net'.dhcp = w.dns
      BY <2>3 DEF DnsDone, DnsOps
    <3> QED
      BY <1>4, <2>1, <3>1
  <2>4. CASE \E d \in machines : d.name = "dns" /\ net.dhcp = d.id
    <3>1. net'.dhcp = net.dhcp \/ (At(n, "dhcp") /\ net'.dhcp = w.dns)
      BY DEF DnsLast
    <3> QED
      BY <1>10, <2>1, <2>4, <3>1
  <2>5. cloud # "aws" \/ Call("dhcp", "dns") \in Left(s) \/ \E d \in machines : d.name = "dns" /\ net.dhcp = d.id
    BY <1>3 DEF Optioned
  <2> QED
    BY <1>2, <2>2, <2>3, <2>4, <2>5
<1>12. ASSUME NEW j \in Nodes \ {n} PROVE Seen(j)' /\ (Active(j)' => Recorded(j)' /\ Optioned(j)' /\ Waited(j)')
  <2>1. work'[j] = work[j] /\ ~Busy(j)
    BY <1>1 DEF InTurn
  <2>2. Seen(j)'
    BY <2>1 DEF Seen, Busy
  <2>3. ASSUME Active(j)' PROVE Recorded(j)' /\ Optioned(j)' /\ Waited(j)'
    <3>1. Active(j)
      BY <2>1, <2>3 DEF Active, Busy
    <3>2. Recorded(j) /\ Optioned(j) /\ Waited(j)
      BY <3>1
    <3> QED
      BY <1>10, <2>1, <3>2, OthersDns
  <2> QED
    BY <2>2, <2>3
<1> QED
  BY <1>6, <1>7, <1>8, <1>9, <1>11, <1>12

\* A worker that fails without the DNS machine made to its end leaves it, and what is set to it.
LEMMA DeadDns ==
    ASSUME CloudInv, InTurn, AllNeat, Coming, NEW n \in Nodes, Busy(n), DnsLast(n), cloud' = cloud, ~unsure', Dies(n),
           \A j \in Nodes : Seen(j) /\ (Active(j) => Recorded(j) /\ Optioned(j) /\ Waited(j))
    PROVE  Coming' /\ \A j \in Nodes : Seen(j)' /\ (Active(j)' => Recorded(j)' /\ Optioned(j)' /\ Waited(j)')
<1> PICK s : s = work[n].todo
  OBVIOUS
<1>1. s \in Seq(Calls) /\ s # <<>> /\ DOMAIN s = 1..Len(s) /\ Neat(n, s) /\ n \in DOMAIN work
  <2>1. s \in Seq(Calls) /\ s # <<>> /\ Neat(n, s) /\ n \in DOMAIN work
    BY DEF CloudInv, Types, WorkType, WorkerType, Busy, AllNeat
  <2> QED
    BY <2>1, LenProperties
<1>2. work' = [work EXCEPT ![n] = Dead]
  BY DEF Dies, Dead
<1>3. work'[n] = Dead /\ \A j \in Nodes \ {n} : work'[j] = work[j]
  BY <1>1, <1>2 DEF CloudInv, Types, WorkType
<1>4. Dead.todo = <<>> /\ Dead.end = "failed"
  BY DEF Dead, Idle
<1>5. ~Awaits(s)
  <2> SUFFICES ASSUME Awaits(s) PROVE unsure'
    OBVIOUS
  <2>1. PICK i \in 1..Len(s) : s[i] = Call("ready", "dns") /\ \A j \in 1..i : s[j].op # "reuse"
    BY DEF Awaits
  <2>2. s[i].op = "ready"
    BY <2>1 DEF Call
  <2> QED
    BY <1>1, <2>1, <2>2 DEF Dies
<1>6. DnsStays
  <2>1. ~(s[1].op \in Makes /\ s[1].name = "dns")
    <3>1. Awaited(s)
      BY <1>1 DEF Neat
    <3> QED
      BY <1>1, <1>5, <3>1, MadeAwaited
  <2> QED
    BY <2>1 DEF DnsLast
<1>7. Coming'
  <2> SUFFICES ASSUME NEW e \in machines', e.name = "dns", ~e.up PROVE FALSE
    BY DEF Coming
  <2>1. \E d \in machines : d.name = "dns" /\ ~d.up
    BY <1>6 DEF DnsStays
  <2>2. Seen(n) /\ Waited(n)
    BY DEF Active
  <2> QED
    BY <1>5, <2>1, <2>2, DnsKnown
<1>8. ASSUME NEW j \in Nodes \ {n} PROVE Seen(j)' /\ (Active(j)' => Recorded(j)' /\ Optioned(j)' /\ Waited(j)')
  <2>1. work'[j] = work[j] /\ ~Busy(j)
    BY <1>3 DEF InTurn
  <2>2. Seen(j)'
    BY <2>1 DEF Seen, Busy
  <2>3. ASSUME Active(j)' PROVE Recorded(j)' /\ Optioned(j)' /\ Waited(j)'
    <3>1. Active(j)
      BY <2>1, <2>3 DEF Active, Busy
    <3>2. At(n, "dhcp") => \E d \in machines : d.name = "dns" /\ work[n].dns = d.id
      <4>1. Seen(n) /\ Waited(n)
        BY DEF Active
      <4>2. s[1].op \in DnsOps => \E d \in machines : d.name = "dns" /\ d.up /\ work[n].dns = d.id
        BY <4>1, DnsKnown
      <4> QED
        BY <4>2 DEF At, DnsOps
    <3> QED
      BY <2>1, <3>1, <3>2, OthersDns
  <2> QED
    BY <2>2, <2>3
<1>9. Seen(n)' /\ ~Active(n)'
  BY <1>3, <1>4 DEF Seen, Active, Busy
<1> QED
  BY <1>7, <1>8, <1>9

Does(n) == \E k, x : Done(n, k, x) /\ PortsDone(n, k, x) /\ DnsDone(n, k, x)
\* What a call asks for, and of which machine.
LEMMA CallIs == \A op, x : Call(op, x).op = op /\ Call(op, x).name = x
  BY DEF Call

\* The first of a worker's calls, one by one.
LEMMA OneDone ==
    ASSUME CloudInv, NEW n \in Nodes, Busy(n), NEW x, DidWith(n, 1, x), Fields \subseteq DOMAIN x, x.todo = work[n].todo,
           x.end = work[n].end, x.got = work[n].got \/ work[n].got = 0, NEW c, c = work[n].todo[1],
           c = Call("rules?", n) => x.lack = {"ssh", n} \ rules,
           c = Call("rule", n) => n \notin work[n].lack \/ n \in rules',
           c.op # "rules?" => x.lack = work[n].lack,
           c = Call("put-rule", n) => n \in rules',
           c = Call("tag", n) => work[n].got # 0 /\ x.got = work[n].got /\ (n \in undeleted' \/ <<work[n].got, n>> \in groups'),
           c = Call("ready", "dns") => x.dns = work[n].dns /\ \E m \in machines : m.id = work[n].seen /\ m.up,
           x.dns = work[n].dns \/ \E m \in machines : m.name = "dns" /\ x.dns = m.id,
           c = Call("address", "dns") => \E m \in machines : m.name = "dns" /\ x.seen = m.id /\ x.dns = m.id,
           c = Call("register", n) =>
              /\ work[n].got # 0 /\ x.got = work[n].got
              /\ unsure' \/ ((\E d \in machines : d.id = work[n].dns /\ d.up) => <<work[n].dns, n, work[n].got>> \in records'),
           c = Call("dhcp", "dns") => net'.dhcp = work[n].dns
    PROVE  Does(n)
<1>1. work[n].todo \in Seq(Calls) /\ work[n].todo # <<>>
  BY DEF CloudInv, Types, WorkType, WorkerType, Busy
<1>2. Gone(work[n].todo, 1) = {c} /\ 1 \in Nat \ {0}
  BY <1>1, GoneFirst
<1>3. Done(n, 1, x)
  BY <1>2 DEF Done
<1>4. PortsDone(n, 1, x)
  BY <1>2 DEF PortsDone
<1>5. c = Call("register", n) => c.op = "register"
  BY DEF Call
<1>6. c = Call("dhcp", "dns") => c.op \in {"dhcp?", "dhcp"}
  BY DEF Call
<1>7. DnsDone(n, 1, x)
  BY <1>2, <1>5, <1>6 DEF DnsDone
<1> QED
  BY <1>3, <1>4, <1>7 DEF Does

\* ... with no more known after than before,
LEMMA DidOne ==
    ASSUME CloudInv, NEW n \in Nodes, Busy(n), Did(n, 1), NEW c, c = work[n].todo[1], c.op \notin {"rules?", "address"},
           c = Call("rule", n) => n \notin work[n].lack \/ n \in rules',
           c = Call("put-rule", n) => n \in rules',
           c = Call("tag", n) => work[n].got # 0 /\ (n \in undeleted' \/ <<work[n].got, n>> \in groups'),
           c = Call("ready", "dns") => \E m \in machines : m.id = work[n].seen /\ m.up,
           c = Call("register", n) =>
              /\ work[n].got # 0
              /\ unsure' \/ ((\E d \in machines : d.id = work[n].dns /\ d.up) => <<work[n].dns, n, work[n].got>> \in records'),
           c = Call("dhcp", "dns") => net'.dhcp = work[n].dns
    PROVE  Does(n)
<1> PICK x : x = work[n]
  OBVIOUS
<1>1. Fields \subseteq DOMAIN x /\ DidWith(n, 1, x)
  BY DEF CloudInv, Types, WorkType, WorkerType, Fields, Did
<1>2. c # Call("rules?", n) /\ c # Call("address", "dns")
  BY CallIs
<1> QED
  BY <1>1, <1>2, OneDone

\* ... with no more known but the machine last looked up, by a call that tells nothing of ports and DNS,
Telling == {"rules?", "rule", "put-rule", "tag", "ready", "address", "register", "dhcp"}
\* Any other call leaves ports, record and DNS machine as they were.
LEMMA DidElse ==
    ASSUME CloudInv, NEW n \in Nodes, Busy(n), NEW x, DidWith(n, 1, x), Fields \subseteq DOMAIN x, x.todo = work[n].todo,
           x.end = work[n].end, x.got = work[n].got, x.lack = work[n].lack, x.dns = work[n].dns,
           work[n].todo[1].op \notin Telling
    PROVE  Does(n)
<1> PICK c : c = work[n].todo[1]
  OBVIOUS
<1>1. \A op \in Telling : \A y : c # Call(op, y)
  BY CallIs
<1>2. /\ c # Call("rules?", n) /\ c # Call("rule", n) /\ c # Call("put-rule", n) /\ c # Call("tag", n)
      /\ c # Call("ready", "dns") /\ c # Call("address", "dns") /\ c # Call("register", n) /\ c # Call("dhcp", "dns")
  BY <1>1 DEF Telling
<1> QED
  BY <1>2, OneDone

\* ... and several at once, of which none tells of ports and DNS but that the options are set.
LEMMA DidSkip ==
    ASSUME CloudInv, NEW n \in Nodes, Busy(n), NEW k \in Nat \ {0}, Did(n, k), work[n].todo[1].op \notin Makes,
           \A c \in Gone(work[n].todo, k) : c.op \notin Telling \/ (c.op = "dhcp" /\ work[n].todo[1].op = "dhcp?" /\ net'.dhcp = work[n].dns)
    PROVE  Does(n)
<1> PICK x : x = work[n]
  OBVIOUS
<1> PICK s : s = x.todo
  OBVIOUS
<1>1. Fields \subseteq DOMAIN x /\ DidWith(n, k, x) /\ s \in Seq(Calls) /\ s # <<>>
  BY DEF CloudInv, Types, WorkType, WorkerType, Fields, Did, Busy
<1>2. \A op \in Telling : \A y : Call(op, y) \in Gone(s, k) => op = "dhcp" /\ s[1].op = "dhcp?" /\ net'.dhcp = x.dns
  BY CallIs
<1>3. /\ Call("rules?", n) \notin Gone(s, k) /\ Call("rule", n) \notin Gone(s, k) /\ Call("put-rule", n) \notin Gone(s, k)
      /\ Call("tag", n) \notin Gone(s, k) /\ Call("ready", "dns") \notin Gone(s, k)
      /\ Call("address", "dns") \notin Gone(s, k) /\ Call("register", n) \notin Gone(s, k)
      /\ Call("dhcp", "dns") \in Gone(s, k) => s[1].op = "dhcp?" /\ net'.dhcp = x.dns
  BY <1>2 DEF Telling
<1>4. k \in 1..Len(s) => s[k] \in Gone(s, k)
  BY DEF Gone
<1>5. Done(n, k, x) /\ PortsDone(n, k, x) /\ DnsDone(n, k, x)
  BY <1>1, <1>3, <1>4 DEF Done, PortsDone, DnsDone
<1> QED
  BY <1>5 DEF Does

\* A call that tells nothing is done alone.
LEMMA QuietDoes ==
    ASSUME CloudInv, NEW n \in Nodes, Busy(n), Did(n, 1), work[n].todo[1].op \notin Telling PROVE Does(n)
<1> PICK x : x = work[n]
  OBVIOUS
<1>1. Fields \subseteq DOMAIN x /\ DidWith(n, 1, x)
  BY DEF CloudInv, Types, WorkType, WorkerType, Fields, Did
<1> QED
  BY <1>1, DidElse

\* Two calls, or three.
LEMMA GoneSome ==
    ASSUME NEW s PROVE Gone(s, 2) \subseteq {s[1], s[2]} /\ Gone(s, 3) \subseteq {s[1], s[2], s[3]}
<1> SUFFICES ASSUME NEW i \in 1..Len(s) PROVE (i <= 2 => i \in {1, 2}) /\ (i <= 3 => i \in {1, 2, 3})
  BY DEF Gone
<1> QED
  OBVIOUS

\* What a worker is at.
LEMMA AtIs ==
    ASSUME CloudInv, AllNeat, NEW n \in Nodes, Busy(n), NEW s, s = work[n].todo
    PROVE  s \in Seq(Calls) /\ s # <<>> /\ Neat(n, s) /\ 1 \in 1..Len(s) /\ Len(s) \in Nat /\ s[1] \in Calls
<1>1. s \in Seq(Calls) /\ s # <<>> /\ Neat(n, s)
  BY DEF CloudInv, Types, WorkType, WorkerType, Busy, AllNeat
<1> QED
  BY <1>1, EmptySeq, LenProperties

\* A destruction and a power-up, ...
LEMMA PlainDoes ==
    ASSUME CloudInv, AllNeat, NEW n \in Nodes, Unregister(n) \/ DeleteCall(n) \/ SetUp(n) \/ NoEffect(n)
    PROVE  Does(n)
<1>1. Busy(n) /\ Did(n, 1)
  BY DEF Unregister, DeleteCall, SetUp, NoEffect, At
<1>2. work[n].todo[1].op \in {"unregister", "delete", "user-data", "power-on", "reboot", "forward"}
  BY DEF Unregister, DeleteCall, SetUp, NoEffect, At
<1>3. work[n].todo[1].op \notin Telling
  BY <1>2 DEF Telling
<1> QED
  BY <1>1, <1>3, QuietDoes

\* ... a look-up, which may pass over the call it is for,
LEMMA FindDoes == ASSUME CloudInv, AllNeat, NEW n \in Nodes, FindCall(n) PROVE Dies(n) \/ Does(n)
<1> PICK s : s = work[n].todo
  OBVIOUS
<1>1. Busy(n) /\ s[1].op = "find"
  BY DEF FindCall, At
<1>2. s \in Seq(Calls) /\ Neat(n, s) /\ 1 \in 1..Len(s)
  BY <1>1, AtIs
<1>3. CASE \E m \in Lookup(n, Name(n)) : DidWith(n, 1, [work[n] EXCEPT !.seen = m.id])
  <2>1. PICK m \in Lookup(n, Name(n)) : DidWith(n, 1, [work[n] EXCEPT !.seen = m.id])
    BY <1>3
  <2> PICK i : i = m.id
    OBVIOUS
  <2> PICK x : x = [work[n] EXCEPT !.seen = i]
    OBVIOUS
  <2>2. work[n] \in WorkerType(made)
    BY DEF CloudInv, Types, WorkType
  <2>3. /\ Fields \subseteq DOMAIN x /\ x.todo = work[n].todo /\ x.end = work[n].end /\ x.got = work[n].got
        /\ x.lack = work[n].lack /\ x.dns = work[n].dns /\ DidWith(n, 1, x)
    BY <2>1, <2>2 DEF WorkerType, Fields
  <2>4. work[n].todo[1].op \notin Telling
    BY <1>1 DEF Telling
  <2> QED
    BY <1>1, <2>3, <2>4, DidElse
<1>4. CASE Did(n, 2)
  <2>1. s[2].op \in {"delete", "reboot", "forward"}
    <3>1. 1 + 1 \in 1..Len(s) /\ s[1 + 1].op \in {"delete", "reboot", "forward"}
      BY <1>1, <1>2 DEF Neat, Skips
    <3> QED
      BY <3>1
  <2>2. \A c \in Gone(s, 2) : c.op \notin Telling
    BY <1>1, <2>1, GoneSome DEF Telling
  <2>3. 2 \in Nat \ {0} /\ s[1].op \notin Makes
    BY <1>1 DEF Makes
  <2> QED
    BY <1>1, <1>4, <2>2, <2>3, DidSkip
<1> QED
  BY <1>3, <1>4 DEF FindCall

\* ... the network's, which pass over what is there,
LEMMA NetLookDoes == ASSUME CloudInv, AllNeat, NEW n \in Nodes, NetLook(n) PROVE Does(n)
<1> PICK s : s = work[n].todo
  OBVIOUS
<1>1. Busy(n) /\ s[1].op \in {"gateway?", "route?", "dhcp?", "make-gateway", "make-options"}
  BY DEF NetLook, At
<1>2. s \in Seq(Calls) /\ Skips(s) /\ 1 \in 1..Len(s)
  BY <1>1, AtIs DEF Neat
<1>3. CASE Did(n, 1)
  <2>1. s[1].op \notin Telling
    BY <1>1 DEF Telling
  <2> QED
    BY <1>1, <1>3, <2>1, QuietDoes
<1>4. CASE Did(n, 2) /\ s[1].op = "route?"
  <2>1. s[2].op = "add-route"
    <3>1. 1 + 1 \in 1..Len(s) /\ s[1 + 1].op = "add-route"
      BY <1>2, <1>4 DEF Skips
    <3> QED
      BY <3>1
  <2>2. \A c \in Gone(s, 2) : c.op \notin Telling
    BY <1>4, <2>1, GoneSome DEF Telling
  <2>3. 2 \in Nat \ {0} /\ s[1].op \notin Makes
    BY <1>4 DEF Makes
  <2> QED
    BY <1>1, <1>4, <2>2, <2>3, DidSkip
<1>5. CASE Did(n, 3) /\ s[1].op = "gateway?"
  <2>1. s[2].op = "make-gateway" /\ s[3].op = "attach-gateway"
    <3>1. s[1 + 1].op = "make-gateway" /\ s[1 + 2].op = "attach-gateway"
      BY <1>2, <1>5 DEF Skips
    <3> QED
      BY <3>1
  <2>2. \A c \in Gone(s, 3) : c.op \notin Telling
    BY <1>5, <2>1, GoneSome DEF Telling
  <2>3. 3 \in Nat \ {0} /\ s[1].op \notin Makes
    BY <1>5 DEF Makes
  <2> QED
    BY <1>1, <1>5, <2>2, <2>3, DidSkip
<1>6. CASE Did(n, 3) /\ s[1].op = "dhcp?" /\ net.dhcp = work[n].dns
  <2>1. s[2].op = "make-options" /\ s[3].op = "dhcp"
    <3>1. s[1 + 1].op = "make-options" /\ s[1 + 2].op = "dhcp"
      BY <1>2, <1>6 DEF Skips
    <3> QED
      BY <3>1
  <2>2. net'.dhcp = work[n].dns
    BY <1>6 DEF NetLook, account
  <2>3. \A c \in Gone(s, 3) : c.op \notin Telling \/ (c.op = "dhcp" /\ s[1].op = "dhcp?" /\ net'.dhcp = work[n].dns)
    BY <1>6, <2>1, <2>2, GoneSome DEF Telling
  <2>4. 3 \in Nat \ {0} /\ s[1].op \notin Makes
    BY <1>6 DEF Makes
  <2> QED
    BY <1>1, <1>6, <2>3, <2>4, DidSkip
<1> QED
  BY <1>3, <1>4, <1>5, <1>6 DEF NetLook, At

\* ... the changes of the network,
LEMMA NetCallDoes == ASSUME CloudInv, AllNeat, NEW n \in Nodes, NetCall(n) PROVE Dies(n) \/ Does(n)
<1>1. Busy(n)
  BY DEF NetCall, At
<1>2. CASE Did(n, 1) /\ work[n].todo[1].op \in {"attach-gateway", "add-route"}
  <2>1. work[n].todo[1].op \notin Telling
    BY <1>2 DEF Telling
  <2> QED
    BY <1>1, <1>2, <2>1, QuietDoes
<1>3. CASE Did(n, 1) /\ work[n].todo[1].op = "dhcp" /\ net' = [net EXCEPT !.dhcp = work[n].dns]
  <2> PICK c : c = work[n].todo[1]
    OBVIOUS
  <2>1. net'.dhcp = work[n].dns
    BY <1>3 DEF CloudInv, Types, AccountType
  <2>2. c.op = "dhcp" /\ \A y : c # Call("rule", y) /\ c # Call("put-rule", y) /\ c # Call("tag", y) /\ c # Call("ready", y) /\ c # Call("register", y)
    BY <1>3, CallIs
  <2> QED
    BY <1>1, <1>3, <2>1, <2>2, DidOne
<1> QED
  BY <1>2, <1>3 DEF NetCall, At

\* ... and the creation.
LEMMA CreateDoes == ASSUME CloudInv, AllNeat, NEW n \in Nodes, CreateCall(n) PROVE Dies(n) \/ Does(n)
<1>1. Busy(n) /\ work[n].todo[1].op \in Makes
  BY DEF CreateCall, At, Makes
<1>2. CASE DidWith(n, 1, [work[n] EXCEPT !.seen = made + 1, !.mine = @ \cup {made + 1},
                                         !.own = IF Name(n) = n THEN made + 1 ELSE @])
  <2> PICK i, o, t : i = made + 1 /\ o = (IF Name(n) = n THEN made + 1 ELSE work[n].own) /\ t = work[n].mine \cup {made + 1}
    OBVIOUS
  <2> PICK x : x = [work[n] EXCEPT !.seen = i, !.mine = t, !.own = o]
    OBVIOUS
  <2>1. work[n] \in WorkerType(made)
    BY DEF CloudInv, Types, WorkType
  <2>2. /\ Fields \subseteq DOMAIN x /\ x.todo = work[n].todo /\ x.end = work[n].end /\ x.got = work[n].got
        /\ x.lack = work[n].lack /\ x.dns = work[n].dns /\ DidWith(n, 1, x)
    BY <1>2, <2>1 DEF WorkerType, Fields
  <2>3. work[n].todo[1].op \notin Telling
    BY <1>1 DEF Telling, Makes
  <2> QED
    BY <1>1, <2>2, <2>3, DidElse
<1> QED
  BY <1>2 DEF CreateCall

\* The rules of the shared group are added once asked for,
LEMMA AddRulesDoes == ASSUME CloudInv, AllNeat, NEW n \in Nodes, AddRules(n) PROVE Dies(n) \/ Does(n)
<1> PICK c : c = work[n].todo[1]
  OBVIOUS
<1>1. Busy(n) /\ c.op \in {"rules?", "rule"} /\ Name(n) = c.name /\ work[n] \in WorkerType(made)
  BY DEF AddRules, At, Name, CloudInv, Types, WorkType
<1>2. CASE c.op = "rules?" /\ DidWith(n, 1, [work[n] EXCEPT !.lack = {"ssh", Name(n)} \ rules])
  <2> PICK i : i = {"ssh", c.name} \ rules
    OBVIOUS
  <2> PICK x : x = [work[n] EXCEPT !.lack = i]
    OBVIOUS
  <2>1. /\ Fields \subseteq DOMAIN x /\ x.todo = work[n].todo /\ x.end = work[n].end /\ x.got = work[n].got
        /\ x.lack = i /\ x.dns = work[n].dns /\ DidWith(n, 1, x)
    BY <1>1, <1>2 DEF WorkerType, Fields
  <2>2. c = Call("rules?", n) => x.lack = {"ssh", n} \ rules
    BY <2>1, CallIs
  <2>3. /\ c # Call("rule", n) /\ c # Call("put-rule", n) /\ c # Call("tag", n)
        /\ c # Call("ready", "dns") /\ c # Call("address", "dns") /\ c # Call("register", n) /\ c # Call("dhcp", "dns")
    BY <1>2, CallIs
  <2>4. /\ CloudInv /\ n \in Nodes /\ Busy(n) /\ DidWith(n, 1, x) /\ Fields \subseteq DOMAIN x /\ c = work[n].todo[1]
        /\ x.todo = work[n].todo /\ x.end = work[n].end /\ x.got = work[n].got /\ x.dns = work[n].dns
        /\ (c.op # "rules?" => x.lack = work[n].lack)
    BY <1>1, <1>2, <2>1
  <2> QED
    BY ONLY <2>2, <2>3, <2>4, OneDone
<1>3. CASE c.op = "rule" /\ Did(n, 1) /\ (c.name \notin work[n].lack \/ c.name \in rules')
  <2>1. c = Call("rule", n) => n \notin work[n].lack \/ n \in rules'
    BY <1>3, CallIs
  <2>2. /\ c.op \notin {"rules?", "address"} /\ c # Call("put-rule", n) /\ c # Call("tag", n)
        /\ c # Call("ready", "dns") /\ c # Call("register", n) /\ c # Call("dhcp", "dns")
    BY <1>3, CallIs
  <2> QED
    BY <1>1, <1>3, <2>1, <2>2, DidOne
<1>4. \/ Dies(n)
      \/ c.op = "rules?" /\ DidWith(n, 1, [work[n] EXCEPT !.lack = {"ssh", Name(n)} \ rules])
      \/ c.op = "rule" /\ Did(n, 1) /\ (c.name \notin work[n].lack \/ c.name \in rules')
  BY <1>1 DEF AddRules, At
<1> QED
  BY <1>2, <1>3, <1>4

\* ... and those of the others put, for the machine of the node that is the only one,
LEMMA PutRulesDoes == ASSUME CloudInv, AllNeat, AllKnown, NEW n \in Nodes, PutRules(n) PROVE Does(n)
<1> PICK c : c = work[n].todo[1]
  OBVIOUS
<1>1. Busy(n) /\ c.op \in {"put-rule", "tag"} /\ Name(n) = c.name /\ Did(n, 1) /\ undeleted' = undeleted
  BY DEF PutRules, At, Name, ghosts
<1>2. CASE c.op = "put-rule" /\ rules' = rules \cup {c.name}
  <2>1. c = Call("put-rule", n) => n \in rules'
    BY <1>2, CallIs
  <2>2. /\ c.op \notin {"rules?", "address"} /\ c # Call("rule", n) /\ c # Call("tag", n)
        /\ c # Call("ready", "dns") /\ c # Call("register", n) /\ c # Call("dhcp", "dns")
    BY <1>2, CallIs
  <2> QED
    BY <1>1, <2>1, <2>2, DidOne
<1>3. CASE c.op = "tag" /\ \E m \in Lookup(n, n) : groups' = groups \cup {<<m.id, n>>}
  <2>1. PICK m \in Lookup(n, n) : groups' = groups \cup {<<m.id, n>>}
    BY <1>3
  <2>2. /\ work[n] \in WorkerType(made) /\ OwnedBy(machines, cloud, undeleted, n, work[n]) /\ made \in Nat
        /\ work[n].todo # <<>>
    BY <1>1, AtCall
  <2>3. work[n].got # 0
    <3>1. c.op \in LaterOps \ {"user-data", "power-on", "address"}
      BY <1>3 DEF LaterOps
    <3> QED
      BY <2>2, <3>1, Phase
  <2>4. n \notin undeleted => m.id = work[n].got
    <3>1. m \in machines /\ m.name = n
      BY LookedUp
    <3>2. PICK l \in machines : l.id = work[n].got /\ l.name = n
      BY <2>3 DEF AllKnown, Known, Is
    <3> QED
      BY <2>2, <3>1, <3>2 DEF OwnedBy, Kept
  <2>5. work[n].got # 0 /\ (n \in undeleted' \/ <<work[n].got, n>> \in groups')
    BY <1>1, <2>1, <2>3, <2>4
  <2>6. /\ c.op \notin {"rules?", "address"} /\ c # Call("rule", n) /\ c # Call("put-rule", n)
        /\ c # Call("ready", "dns") /\ c # Call("register", n) /\ c # Call("dhcp", "dns")
    BY <1>3, CallIs
  <2> QED
    BY <1>1, <2>5, <2>6, DidOne
<1>4. \/ c.op = "put-rule" /\ rules' = rules \cup {c.name}
      \/ c.op = "tag" /\ \E m \in Lookup(n, n) : groups' = groups \cup {<<m.id, n>>}
  BY <1>1 DEF PutRules, At
<1> QED
  BY <1>2, <1>3, <1>4

\* ... a machine that answers is up,
LEMMA ReadyDoes == ASSUME CloudInv, AllNeat, NEW n \in Nodes, Ready(n) PROVE Dies(n) \/ Does(n)
<1> PICK c : c = work[n].todo[1]
  OBVIOUS
<1>1. Busy(n) /\ c.op \in {"ready", "online"}
  BY DEF Ready, At
<1>2. CASE Did(n, 1) /\ (c.op = "ready" => \E m \in machines : m.id = work[n].seen /\ m.up)
  <2>1. c = Call("ready", "dns") => \E m \in machines : m.id = work[n].seen /\ m.up
    BY <1>2, CallIs
  <2>2. /\ c.op \notin {"rules?", "address"} /\ c # Call("rule", n) /\ c # Call("put-rule", n) /\ c # Call("tag", n)
        /\ c # Call("register", n) /\ c # Call("dhcp", "dns")
    BY <1>1, CallIs
  <2> QED
    BY <1>1, <1>2, <2>1, <2>2, DidOne
<1>3. Dies(n) \/ (Did(n, 1) /\ (c.op = "ready" => \E m \in machines : m.id = work[n].seen /\ m.up))
  BY <1>1 DEF Ready, At
<1> QED
  BY <1>2, <1>3

\* ... and the record is on a DNS machine that is up, or lost.
LEMMA RegisterDoes == ASSUME CloudInv, AllNeat, NEW n \in Nodes, Register(n) \/ RecordLost(n) PROVE Does(n)
<1> PICK c : c = work[n].todo[1]
  OBVIOUS
<1>1. Busy(n) /\ c.op = "register" /\ Did(n, 1)
  BY DEF Register, RecordLost, At
<1>2. work[n].got # 0
  <2>1. c.op \in LaterOps \ {"user-data", "power-on", "address"}
    BY <1>1 DEF LaterOps
  <2> QED
    BY <1>1, <2>1, AtCall, Phase
<1>3. unsure' \/ ((\E d \in machines : d.id = work[n].dns /\ d.up) => <<work[n].dns, n, work[n].got>> \in records')
  BY DEF Register, RecordLost
<1>4. /\ c.op \notin {"rules?", "address"} /\ c # Call("rule", n) /\ c # Call("put-rule", n) /\ c # Call("tag", n)
      /\ c # Call("ready", "dns") /\ c # Call("dhcp", "dns")
  BY <1>1, CallIs
<1> QED
  BY <1>1, <1>2, <1>3, <1>4, DidOne

\* A worker knows the machine whose address it got, and its own node's but once.
LEMMA KnowsIs ==
    ASSUME CloudInv, NEW n \in Nodes, NEW y, NEW m \in Lookup(n, y), NEW x, x = Knows(work[n], n, y, m)
    PROVE  /\ Fields \subseteq DOMAIN x /\ x.todo = work[n].todo /\ x.end = work[n].end /\ x.lack = work[n].lack
           /\ y # n => x.got = work[n].got
           /\ x.seen = m.id /\ m \in machines /\ m.name = y /\ x.dns = IF y = "dns" THEN m.id ELSE work[n].dns
<1> PICK w : w = work[n]
  OBVIOUS
<1> PICK i : i = m.id
  OBVIOUS
<1>1. x = [w EXCEPT !.seen = i, !.got = IF y = n THEN i ELSE @, !.dns = IF y = "dns" THEN i ELSE @]
  BY DEF Knows
<1>2. w \in WorkerType(made)
  BY DEF CloudInv, Types, WorkType
<1>3. m \in machines /\ m.name = y
  BY LookedUp
<1>4. /\ Fields \subseteq DOMAIN x /\ x.todo = w.todo /\ x.end = w.end /\ x.lack = w.lack
      /\ y # n => x.got = w.got
      /\ x.seen = i /\ x.dns = IF y = "dns" THEN i ELSE w.dns
  BY <1>1, <1>2 DEF WorkerType, Fields
<1> QED
  BY <1>3, <1>4

\* An address,
LEMMA AddressDoes == ASSUME CloudInv, AllNeat, NEW n \in Nodes, Address(n) PROVE Dies(n) \/ Does(n)
<1> PICK c : c = work[n].todo[1]
  OBVIOUS
<1>1. Busy(n) /\ c.op = "address" /\ c.name = Name(n)
  BY DEF Address, At, Name
<1>2. CASE \E m \in Lookup(n, c.name) : DidWith(n, 1, Knows(work[n], n, c.name, m))
  <2>1. PICK m \in Lookup(n, c.name) : DidWith(n, 1, Knows(work[n], n, c.name, m))
    BY <1>2
  <2> PICK x : x = Knows(work[n], n, c.name, m)
    OBVIOUS
  <2>2. /\ Fields \subseteq DOMAIN x /\ x.todo = work[n].todo /\ x.end = work[n].end /\ x.lack = work[n].lack
        /\ c.name # n => x.got = work[n].got
        /\ x.seen = m.id /\ m \in machines /\ m.name = c.name /\ x.dns = IF c.name = "dns" THEN m.id ELSE work[n].dns
    BY KnowsIs
  <2>3. c.name = n => work[n].got = 0
    <3> SUFFICES ASSUME c.name = n, work[n].got # 0 PROVE FALSE
      OBVIOUS
    <3>1. Placed(n, work[n].todo) /\ work[n].todo # <<>>
      <4>1. c.op \in {"user-data", "power-on", "address"}
        BY <1>1
      <4> QED
        BY <1>1, <4>1, AtCall, Phase DEF Between
    <3>2. c \in Posts(n)
      BY <3>1, PlacedHead
    <3> QED
      BY <1>1, <3>2, CloudVmsAssumption DEF Posts
  <2>4. c = Call("address", "dns") => \E l \in machines : l.name = "dns" /\ x.seen = l.id /\ x.dns = l.id
    BY <2>2, CallIs
  <2>5. x.dns = work[n].dns \/ \E l \in machines : l.name = "dns" /\ x.dns = l.id
    BY <2>2
  <2>6. /\ c # Call("rules?", n) /\ c # Call("rule", n) /\ c # Call("put-rule", n) /\ c # Call("tag", n)
        /\ c # Call("ready", "dns") /\ c # Call("register", n) /\ c # Call("dhcp", "dns")
    BY <1>1, CallIs
  <2>7. /\ CloudInv /\ n \in Nodes /\ Busy(n) /\ DidWith(n, 1, x) /\ Fields \subseteq DOMAIN x /\ c = work[n].todo[1]
        /\ x.todo = work[n].todo /\ x.end = work[n].end /\ (x.got = work[n].got \/ work[n].got = 0)
        /\ (c.op # "rules?" => x.lack = work[n].lack)
    BY <1>1, <2>1, <2>2, <2>3
  <2> QED
    BY ONLY <2>4, <2>5, <2>6, <2>7, OneDone
<1> QED
  BY <1>1, <1>2 DEF Address

\* ... and a shared machine that is found: what was to make one is passed over, and the wait for it.
LEMMA ReuseDoes == ASSUME CloudInv, AllNeat, NEW n \in Nodes, Reuse(n) PROVE Dies(n) \/ Does(n)
<1> PICK s : s = work[n].todo
  OBVIOUS
<1> PICK y : y = Name(n)
  OBVIOUS
<1>1. Busy(n) /\ s[1].op = "reuse" /\ y = s[1].name
  BY DEF Reuse, At, Name
<1>2. s \in Seq(Calls) /\ s # <<>> /\ Neat(n, s) /\ 1 \in 1..Len(s) /\ Len(s) \in Nat /\ DOMAIN s = 1..Len(s)
  <2>1. s \in Seq(Calls) /\ s # <<>> /\ Neat(n, s) /\ 1 \in 1..Len(s) /\ Len(s) \in Nat
    BY <1>1, AtIs
  <2> QED
    BY <2>1, LenProperties
<1>3. ReuseReady(s) /\ y \in Shared
  <2>1. OwnedBy(machines, cloud, undeleted, n, work[n])
    BY <1>1, AtCall
  <2>2. Placed(n, s)
    <3>1. s[1].op \in LaterOps \ {"user-data", "power-on", "address"}
      BY <1>1 DEF LaterOps
    <3> QED
      BY <1>1, <3>1, AtCall, Phase
  <2>3. s[1] \in Posts(n)
    BY <1>2, <2>2, PlacedHead
  <2> QED
    BY <1>1, <2>1, <2>3 DEF OwnedBy, Kept, Posts
<1>4. CASE Did(n, 1)
  <2>1. s[1].op \notin Telling
    BY <1>1 DEF Telling
  <2> QED
    BY <1>1, <1>4, <2>1, QuietDoes
<1>5. CASE \E m \in Lookup(n, y) : DidWith(n, CHOOSE i \in DOMAIN s : s[i] = Call("ready", y), Knows(work[n], n, y, m))
  <2> PICK k : k = CHOOSE i \in DOMAIN s : s[i] = Call("ready", y)
    OBVIOUS
  <2>1. PICK m \in Lookup(n, y) : DidWith(n, k, Knows(work[n], n, y, m))
    BY <1>5
  <2> PICK x : x = Knows(work[n], n, y, m)
    OBVIOUS
  <2>2. /\ Fields \subseteq DOMAIN x /\ x.todo = s /\ x.end = work[n].end /\ x.lack = work[n].lack
        /\ y # n => x.got = work[n].got
        /\ m \in machines /\ m.name = y /\ x.dns = IF y = "dns" THEN m.id ELSE work[n].dns
    BY KnowsIs
  <2>3. k \in 1..Len(s) /\ s[k] = Call("ready", y)
    <3>1. \E j \in 1..Len(s) : s[j] = Call("ready", y)
      BY <1>1, <1>2, <1>3 DEF ReuseReady
    <3> QED
      BY <1>2, <3>1
  <2>4. ASSUME NEW c \in Gone(s, k)
        PROVE  \/ c.op = "reuse" \/ c = Call("ready", y)
               \/ c.op \in FillOps /\ (c.op \in {"rules?", "rule"} => c.name \notin Nodes)
    <3>1. PICK i \in 1..Len(s) : c = s[i] /\ i <= k
      BY DEF Gone
    <3>2. CASE 1 < i /\ i < k
      BY <1>1, <1>2, <2>3, <3>1, <3>2 DEF Neat, Filled
    <3>3. i = 1 \/ i = k \/ (1 < i /\ i < k)
      BY <1>2, <2>3, <3>1
    <3> QED
      BY <1>1, <2>3, <3>1, <3>2, <3>3
  <2>5. \A op, z : Call(op, z) \in Gone(s, k) =>
            \/ op = "reuse" \/ (op = "ready" /\ z = y)
            \/ op \in FillOps /\ (op \in {"rules?", "rule"} => z \notin Nodes)
    BY <2>4, CallIs
  <2>6. {"put-rule", "tag", "register", "dhcp", "ready"} \cap FillOps = {}
    BY DEF FillOps, Makes, NetOps
  <2>7. /\ Call("rules?", n) \notin Gone(s, k) /\ Call("rule", n) \notin Gone(s, k) /\ Call("put-rule", n) \notin Gone(s, k)
        /\ Call("tag", n) \notin Gone(s, k) /\ Call("register", n) \notin Gone(s, k) /\ Call("dhcp", "dns") \notin Gone(s, k)
        /\ Call("ready", "dns") \in Gone(s, k) => y = "dns"
    BY <2>5, <2>6
  <2>8. y # n
    BY <1>3, CloudVmsAssumption
  <2>9. s[k] # Call("address", "dns")
    BY <2>3, CallIs
  <2>10. k \in Nat \ {0} /\ s[1].op \notin Makes
    <3>1. \A j \in 1..Len(s) : j \in Nat \ {0}
      OBVIOUS
    <3>2. s[1].op \notin Makes
      BY <1>1 DEF Makes
    <3> QED
      BY <2>3, <3>1, <3>2
  <2>11. Done(n, k, x)
    BY <2>1, <2>2, <2>8, <2>10 DEF Done
  <2>12. PortsDone(n, k, x)
    BY <2>2, <2>7 DEF PortsDone
  <2>13. DnsDone(n, k, x)
    BY <1>1, <2>2, <2>7, <2>9 DEF DnsDone
  <2> QED
    BY ONLY <2>11, <2>12, <2>13 DEF Does
<1>6. \/ Dies(n) \/ Did(n, 1)
      \/ \E m \in Lookup(n, y) : DidWith(n, CHOOSE i \in DOMAIN s : s[i] = Call("ready", y), Knows(work[n], n, y, m))
  BY DEF Reuse
<1> QED
  BY <1>4, <1>5, <1>6

\* Nothing is done before a machine is deleted but to take out the record and to look the machine up,
LEMMA DeletePassed ==
    ASSUME NEW M, NEW c, NEW U, NEW n \in Nodes, NEW k \in Nat, NEW w \in WorkerType(k), OwnedBy(M, c, U, n, w),
           w.todo # <<>>, NEW l \in 1..Len(w.todo), w.todo[l].op = "delete"
    PROVE  \A j \in 1..(l - 1) : w.todo[j].op \in {"unregister", "find"}
<1> PICK s : s = w.todo
  OBVIOUS
<1>1. s \in Seq(Calls) /\ HasDelete(s)
  BY DEF WorkerType, HasDelete
<1>2. Unmade(n, s)
  <2>1. ~Made(n, s)
    BY <1>1, MadeTail DEF Made
  <2>2. ~Placed(n, s)
    BY <1>1, PlacedHead DEF HasDelete, Posts
  <2> QED
    BY <2>1, <2>2 DEF OwnedBy, Phases
<1>3. PICK i \in 1..Len(s), a \in 1..Len(s) : MakesAt(n, s, i, a)
  BY <1>2 DEF Unmade
<1>4. l \in 1..(i - 1)
  <2>1. l # i /\ l # a
    BY <1>3 DEF MakesAt, Makes, Call
  <2>2. l \notin (i + 1)..(a - 1)
    BY <1>3 DEF MakesAt, Mids
  <2>3. l \notin (a + 1)..Len(s)
    BY <1>3 DEF MakesAt, Posts
  <2>4. l \in Nat /\ i \in Nat /\ a \in Nat /\ Len(s) \in Nat /\ 1 <= l /\ l <= Len(s)
    BY <1>1, LenProperties
  <2> QED
    BY <2>1, <2>2, <2>3, <2>4
<1> QED
  BY <1>3, <1>4 DEF MakesAt, Pre

\* ... so that no more is passed over when the destruction fails.
LEMMA DestroyFailsDoes == ASSUME CloudInv, AllNeat, NEW n \in Nodes, DestroyFails(n) PROVE Does(n)
<1> PICK s : s = work[n].todo
  OBVIOUS
<1>1. Busy(n)
  BY DEF DestroyFails, Destroying
<1>2. s \in Seq(Calls) /\ s # <<>> /\ Len(s) \in Nat /\ 1 \in 1..Len(s) /\ DOMAIN s = 1..Len(s)
  <2>1. s \in Seq(Calls) /\ s # <<>> /\ Len(s) \in Nat /\ 1 \in 1..Len(s)
    BY <1>1, AtIs
  <2> QED
    BY <2>1, LenProperties
<1>3. work[n] \in WorkerType(made) /\ OwnedBy(machines, cloud, undeleted, n, work[n]) /\ made \in Nat
  BY <1>1, AtCall
<1>4. HasDelete(s)
  BY <1>2 DEF DestroyFails, Destroying, HasDelete
<1>5. Len(s) >= 3 /\ \E i \in 1..3 : s[i].op = "delete"
  <2> PICK M, U, c, V : M = machines /\ U = undeleted /\ c = cloud /\ V = undeleted \cup {n}
    OBVIOUS
  <2> PICK m, w : m = made /\ w = work[n]
    OBVIOUS
  <2>1. m \in Nat /\ w \in WorkerType(m) /\ OwnedBy(M, c, U, n, w) /\ w.todo # <<>> /\ HasDelete(w.todo) /\ V = U \cup {n}
    BY <1>2, <1>3, <1>4
  <2>2. Len(w.todo) >= 3 /\ \E i \in 1..3 : w.todo[i].op = "delete"
    BY ONLY n \in Nodes, <2>1, UndeletedOwned
  <2> QED
    BY <2>2
<1>6. PICK k \in 1..3 : s[k].op = "delete" /\ Did(n, k)
  BY <1>5 DEF DestroyFails
<1>7. k \in 1..Len(s) /\ k \in Nat \ {0}
  BY <1>2, <1>5
<1>8. \A j \in 1..(k - 1) : s[j].op \in {"unregister", "find"}
  BY <1>2, <1>3, <1>6, <1>7, DeletePassed
<1>9. ASSUME NEW c \in Gone(s, k) PROVE c.op \in {"unregister", "find", "delete"}
  <2>1. PICK j \in 1..Len(s) : c = s[j] /\ j <= k
    BY DEF Gone
  <2>2. j = k \/ j \in 1..(k - 1)
    BY <1>2, <1>7, <2>1
  <2> QED
    BY <1>6, <1>8, <2>1, <2>2
<1>10. s[1].op \notin Makes
  <2>1. s[1] \in Gone(s, k)
    BY <1>2, <1>7, GoneFirst
  <2> QED
    BY <1>9, <2>1 DEF Makes
<1>11. \A c \in Gone(s, k) : c.op \notin Telling
  BY <1>9 DEF Telling
<1> QED
  BY <1>1, <1>6, <1>7, <1>10, <1>11, DidSkip

\* Each step of a worker is one of these.
LEMMA StepDoes ==
    ASSUME CloudInv, AllNeat, AllKnown, NEW n \in Nodes, Step(n) \/ DestroyFails(n) \/ RecordLost(n)
    PROVE  Dies(n) \/ Does(n)
  BY PlainDoes, FindDoes, CreateDoes, AddressDoes, ReadyDoes, ReuseDoes, RegisterDoes, NetLookDoes, NetCallDoes, AddRulesDoes,
     PutRulesDoes, DestroyFailsDoes DEF Step

\* Rules and groups are only added to, but for a machine's that goes;
LEMMA PortsGrow ==
    ASSUME cloud' = cloud, rules \subseteq rules', groups \subseteq groups', undeleted \subseteq undeleted' PROVE PortsLast
  BY DEF PortsLast

\* ... and the machine that goes is its own node's, which knows it no more.
LEMMA DeleteLasts ==
    ASSUME CloudInv, AllKnown, NEW n \in Nodes, DeleteCall(n)
    PROVE  Is(machines, work[n].seen, n) /\ PortsLast
<1>1. Busy(n) /\ work[n].todo[1].op = "delete"
  BY DEF DeleteCall, At
<1>2. work[n] \in WorkerType(made) /\ OwnedBy(machines, cloud, undeleted, n, work[n]) /\ made \in Nat /\ work[n].todo # <<>>
  BY <1>1, AtCall
<1>3. Before(machines, undeleted, n, work[n])
  BY <1>1, <1>2, Phase
<1>4. work[n].got = 0 /\ Is(machines, work[n].seen, n)
  BY <1>1, <1>3 DEF Before
<1>5. ASSUME NEW j \in Nodes, work[j].got # 0, <<work[j].got, j>> \in groups PROVE <<work[j].got, j>> \in groups'
  <2>1. Is(machines, work[j].got, j) /\ j # n
    BY <1>4, <1>5 DEF AllKnown, Known
  <2>2. work[j].got # work[n].seen
    BY <1>4, <2>1 DEF Is, CloudInv, Types, StockType, OneEach
  <2> QED
    BY <1>5, <2>2 DEF DeleteCall
<1>6. cloud' = cloud /\ rules' = rules /\ undeleted \subseteq undeleted'
  BY DEF DeleteCall, lab
<1> QED
  BY <1>4, <1>5, <1>6 DEF PortsLast

\* So the ports that are open stay open whatever a worker does.
LEMMA PortsLasts ==
    ASSUME CloudInv, AllKnown, NEW n \in Nodes, Start(n) \/ Step(n) \/ DestroyFails(n) \/ CallFails(n) \/ RecordLost(n)
    PROVE  PortsLast
<1>1. ASSUME cloud' = cloud, rules' = rules, groups' = groups, undeleted' = undeleted PROVE PortsLast
  BY <1>1 DEF PortsLast
<1>2. CASE Start(n) \/ CallFails(n) \/ RecordLost(n)
  BY <1>1, <1>2 DEF Start, CallFails, RecordLost, lab, account, ghosts
<1>3. CASE DestroyFails(n)
  BY <1>3, PortsGrow DEF DestroyFails, lab, account
<1>4. CASE Unregister(n) \/ FindCall(n) \/ CreateCall(n) \/ SetUp(n) \/ Address(n) \/ Ready(n) \/ Reuse(n)
  BY <1>1, <1>4 DEF Unregister, FindCall, CreateCall, SetUp, Address, Ready, Reuse, lab, account, ghosts
<1>5. CASE Register(n) \/ NoEffect(n) \/ NetLook(n) \/ NetCall(n)
  BY <1>1, <1>5 DEF Register, NoEffect, NetLook, NetCall, lab, account, ghosts
<1>6. CASE AddRules(n)
  <2>1. cloud' = cloud /\ groups' = groups /\ undeleted' = undeleted /\ rules \subseteq rules'
    BY <1>6 DEF AddRules, lab
  <2> QED
    BY <2>1, PortsGrow
<1>7. CASE PutRules(n)
  <2>1. cloud' = cloud /\ undeleted' = undeleted /\ rules \subseteq rules' /\ groups \subseteq groups'
    BY <1>7 DEF PutRules, lab, ghosts
  <2> QED
    BY <2>1, PortsGrow
<1> QED
  BY <1>2, <1>3, <1>4, <1>5, <1>6, <1>7, DeleteLasts DEF Step

\* The DNS machine is left as it is by all calls but its own creation,
LEMMA DnsMachines ==
    ASSUME CloudInv, AllKnown, NEW n \in Nodes, Start(n) \/ Step(n) \/ DestroyFails(n) \/ CallFails(n) \/ RecordLost(n)
    PROVE  /\ \A d \in machines : d.name = "dns" => \E e \in machines' : e.id = d.id /\ e.name = "dns" /\ (d.up => e.up)
           /\ DnsStays \/ (Busy(n) /\ work[n].todo[1].op \in Makes /\ work[n].todo[1].name = "dns")
<1>1. ASSUME machines' = machines PROVE DnsStays
  BY <1>1 DEF DnsStays
<1>2. CASE Start(n) \/ DestroyFails(n) \/ RecordLost(n)
  BY <1>1, <1>2 DEF Start, DestroyFails, RecordLost, DnsStays
<1>3. CASE Unregister(n) \/ FindCall(n) \/ Address(n) \/ Ready(n) \/ Reuse(n) \/ Register(n) \/ NoEffect(n)
  BY <1>1, <1>3 DEF Unregister, FindCall, Address, Ready, Reuse, Register, NoEffect, DnsStays
<1>4. CASE NetLook(n) \/ NetCall(n) \/ AddRules(n) \/ PutRules(n)
  BY <1>1, <1>4 DEF NetLook, NetCall, AddRules, PutRules, DnsStays
<1>5. CASE DeleteCall(n)
  <2>1. Is(machines, work[n].seen, n) /\ machines' = {m \in machines : m.id # work[n].seen}
    BY <1>5, DeleteLasts DEF DeleteCall
  <2>2. ASSUME NEW d \in machines, d.name = "dns" PROVE d \in machines'
    <3>1. n # "dns"
      BY CloudVmsAssumption DEF Shared
    <3> QED
      BY <2>1, <2>2, <3>1 DEF Is, CloudInv, Types, StockType, OneEach
  <2> QED
    BY <2>1, <2>2 DEF DnsStays
<1>6. CASE SetUp(n)
  <2> DEFINE Changed(m) == IF m.id # work[n].seen THEN m ELSE [m EXCEPT !.data = TRUE, !.on = At(n, "power-on")]
  <2>1. ASSUME NEW m \in machines PROVE Changed(m).id = m.id /\ Changed(m).name = m.name /\ Changed(m).up = m.up
    <3>1. m \in MachineType(made)
      BY DEF CloudInv, Types, StockType
    <3> PICK b : b = At(n, "power-on")
      OBVIOUS
    <3>2. Changed(m) = m \/ Changed(m) = [m EXCEPT !.data = TRUE, !.on = b]
      OBVIOUS
    <3> HIDE DEF Changed
    <3> QED
      BY <3>1, <3>2 DEF MachineType
  <2>2. machines' = {Changed(m) : m \in machines}
    BY <1>6 DEF SetUp
  <2> HIDE DEF Changed
  <2>3. ASSUME NEW d \in machines, d.name = "dns" PROVE \E e \in machines' : e.id = d.id /\ e.name = "dns" /\ (d.up => e.up)
    <3>1. Changed(d) \in machines' /\ Changed(d).id = d.id /\ Changed(d).name = "dns" /\ Changed(d).up = d.up
      BY <2>1, <2>2, <2>3
    <3> QED
      BY <3>1
  <2>4. ASSUME NEW e \in machines', e.name = "dns" PROVE \E d \in machines : d.id = e.id /\ d.name = "dns" /\ (d.up => e.up)
    <3>1. PICK d \in machines : e = Changed(d)
      BY <2>2
    <3> QED
      BY <2>1, <2>4, <3>1
  <2> QED
    BY <2>3, <2>4 DEF DnsStays
<1>7. ASSUME At(n, "create") \/ At(n, "create-off"), Making(n, At(n, "create"))
      PROVE  /\ \A d \in machines : d.name = "dns" => d \in machines'
             /\ DnsStays \/ (Busy(n) /\ work[n].todo[1].op \in Makes /\ work[n].todo[1].name = "dns")
  <2>1. PICK r \in MachineType(made') : r.name = work[n].todo[1].name /\ machines' = machines \cup {r}
    BY <1>7, MakingStock
  <2>2. Busy(n) /\ work[n].todo[1].op \in Makes
    BY <1>7 DEF At, Makes
  <2>3. r.name # "dns" => DnsStays
    BY <2>1 DEF DnsStays
  <2> QED
    BY <2>1, <2>2, <2>3
<1>8. CASE CreateCall(n)
  <2>1. machines' = machines \/ ((At(n, "create") \/ At(n, "create-off")) /\ Making(n, At(n, "create")))
    BY <1>8 DEF CreateCall
  <2> QED
    BY <1>1, <1>7, <2>1 DEF DnsStays
<1>9. CASE CallFails(n)
  <2>1. machines' = machines \/ ((At(n, "create") \/ At(n, "create-off")) /\ Making(n, At(n, "create")))
    BY <1>9 DEF CallFails
  <2> QED
    BY <1>1, <1>7, <2>1 DEF DnsStays
<1> QED
  BY <1>2, <1>3, <1>4, <1>5, <1>6, <1>8, <1>9 DEF Step

\* ... and so is what is set to it.
LEMMA DnsLasts ==
    ASSUME CloudInv, AllKnown, NEW n \in Nodes, Start(n) \/ Step(n) \/ DestroyFails(n) \/ CallFails(n) \/ RecordLost(n)
    PROVE  DnsLast(n)
<1>1. mode' = mode /\ (unsure => unsure')
  <2>1. Dies(n) \/ UNCHANGED unsure \/ unsure' = TRUE => (unsure => unsure')
    BY DEF Dies
  <2>2. CASE Start(n) \/ DestroyFails(n) \/ CallFails(n) \/ RecordLost(n)
    BY <2>1, <2>2 DEF Start, DestroyFails, CallFails, RecordLost, lab, ghosts
  <2>3. CASE Unregister(n) \/ FindCall(n) \/ CreateCall(n) \/ SetUp(n) \/ Address(n) \/ Ready(n) \/ Reuse(n)
    BY <2>1, <2>3 DEF Unregister, FindCall, CreateCall, SetUp, Address, Ready, Reuse, lab, ghosts
  <2>4. CASE Register(n) \/ NoEffect(n) \/ NetLook(n) \/ NetCall(n) \/ AddRules(n) \/ PutRules(n) \/ DeleteCall(n)
    BY <2>1, <2>4 DEF Register, NoEffect, NetLook, NetCall, AddRules, PutRules, DeleteCall, lab, ghosts
  <2> QED
    BY <2>2, <2>3, <2>4 DEF Step
<1>2. ASSUME NEW j \in Nodes, NEW d, work[j].got # 0, <<d, j, work[j].got>> \in records PROVE <<d, j, work[j].got>> \in records'
  <2>1. CASE records' = records
    BY <1>2, <2>1
  <2>2. CASE Unregister(n)
    <3>1. Busy(n) /\ work[n].todo[1].op = "unregister"
      BY <2>2 DEF Unregister, At
    <3>2. Before(machines, undeleted, n, work[n])
      BY <3>1, AtCall, Phase
    <3>3. j # n
      BY <1>2, <3>2 DEF Before
    <3> QED
      BY <1>2, <2>2, <3>3 DEF Unregister
  <2>3. CASE Register(n)
    <3> PICK r : r = <<d, j, work[j].got>>
      OBVIOUS
    <3>1. r \in records /\ r[1] = d /\ r[2] = j
      BY <1>2
    <3>2. CASE j = n /\ d = work[n].dns
      <4>1. r = <<work[n].dns, n, work[n].got>>
        BY <3>2
      <4> QED
        BY <2>3, <3>1, <4>1 DEF Register
    <3>3. CASE ~(j = n /\ d = work[n].dns)
      BY <2>3, <3>1, <3>3 DEF Register
    <3> QED
      BY <3>2, <3>3
  <2>4. CASE Start(n) \/ DestroyFails(n) \/ CallFails(n) \/ RecordLost(n)
    BY <2>1, <2>4 DEF Start, DestroyFails, CallFails, RecordLost, account
  <2>5. CASE FindCall(n) \/ CreateCall(n) \/ SetUp(n) \/ Address(n) \/ Ready(n) \/ Reuse(n)
    BY <2>1, <2>5 DEF FindCall, CreateCall, SetUp, Address, Ready, Reuse, account
  <2>6. CASE NoEffect(n) \/ NetLook(n) \/ NetCall(n) \/ AddRules(n) \/ PutRules(n) \/ DeleteCall(n)
    BY <2>1, <2>6 DEF NoEffect, NetLook, NetCall, AddRules, PutRules, DeleteCall, account
  <2> QED
    BY <2>2, <2>3, <2>4, <2>5, <2>6 DEF Step
<1>3. net'.dhcp = net.dhcp \/ (At(n, "dhcp") /\ net'.dhcp = work[n].dns)
  <2>1. CASE net' = net
    BY <2>1
  <2>2. CASE NetCall(n)
    BY <2>2 DEF NetCall, CloudInv, Types, AccountType
  <2>3. CASE Start(n) \/ DestroyFails(n) \/ CallFails(n) \/ RecordLost(n)
    BY <2>1, <2>3 DEF Start, DestroyFails, CallFails, RecordLost, account
  <2>4. CASE Unregister(n) \/ FindCall(n) \/ CreateCall(n) \/ SetUp(n) \/ Address(n) \/ Ready(n) \/ Reuse(n)
    BY <2>1, <2>4 DEF Unregister, FindCall, CreateCall, SetUp, Address, Ready, Reuse, account
  <2>5. CASE Register(n) \/ NoEffect(n) \/ NetLook(n) \/ AddRules(n) \/ PutRules(n) \/ DeleteCall(n)
    BY <2>1, <2>5 DEF Register, NoEffect, NetLook, AddRules, PutRules, DeleteCall, account
  <2> QED
    BY <2>2, <2>3, <2>4, <2>5 DEF Step
<1> QED
  BY <1>1, <1>2, <1>3, DnsMachines DEF DnsLast

\* A worker's calls left are neat still,
LEMMA WorkerNeat ==
    ASSUME CloudInv, AllNeat, NEW n \in Nodes, NEW v, work' = [work EXCEPT ![n] = v], Neat(n, v.todo), v.todo # <<>> => v.end = "none"
    PROVE  AllNeat'
<1>1. work'[n] = v /\ \A j \in Nodes \ {n} : work'[j] = work[j]
  BY DEF CloudInv, Types, WorkType
<1> SUFFICES ASSUME NEW j \in Nodes PROVE (Neat(j, work[j].todo) /\ (Busy(j) => work[j].end = "none"))'
  BY DEF AllNeat
<1>2. CASE j = n
  BY <1>1, <1>2 DEF Busy
<1>3. CASE j # n
  <2>1. Neat(j, work[j].todo) /\ (Busy(j) => work[j].end = "none") /\ work'[j] = work[j]
    BY <1>1, <1>3 DEF AllNeat
  <2> QED
    BY <2>1 DEF Busy
<1> QED
  BY <1>2, <1>3

\* ... and so it goes on, or has failed.
LEMMA DoesAll ==
    ASSUME CloudInv, Unique, AllKnown, AllNeat, PortsInv, DnsInv, NEW n \in Nodes, Busy(n), PortsLast, DnsLast(n), Does(n)
    PROVE  AllNeat' /\ PortsInv' /\ DnsInv'
<1>1. PICK k, x : Done(n, k, x) /\ PortsDone(n, k, x) /\ DnsDone(n, k, x)
  BY DEF Does
<1>2. PortsInv'
  BY <1>1, DoneOpened
<1>3. DnsInv'
  <2> SUFFICES ASSUME mode' = "turn", ~unsure'
               PROVE  Coming' /\ \A j \in Nodes : Seen(j)' /\ (Active(j)' => Recorded(j)' /\ Optioned(j)' /\ Waited(j)')
    BY DEF DnsInv
  <2>1. mode = "turn" /\ ~unsure /\ cloud' = cloud
    BY DEF DnsLast, PortsLast
  <2>2. InTurn
    BY <2>1 DEF Unique
  <2>3. Coming /\ \A j \in Nodes : Seen(j) /\ (Active(j) => Recorded(j) /\ Optioned(j) /\ Waited(j))
    BY <2>1 DEF DnsInv
  <2> QED
    BY <1>1, <2>1, <2>2, <2>3, DoneDns
<1>4. AllNeat'
  <2> PICK s : s = work[n].todo
    OBVIOUS
  <2> PICK v : v = After(x, k)
    OBVIOUS
  <2>1. /\ work' = [work EXCEPT ![n] = v] /\ s \in Seq(Calls) /\ v.todo = SubSeq(s, k + 1, Len(s)) /\ k \in Nat \ {0}
        /\ v.todo # <<>> => v.end = work[n].end
    <3>1. Done(n, k, x) /\ k \in Nat \ {0}
      BY <1>1 DEF Done
    <3> QED
      BY <3>1, DoneIs
  <2>2. Neat(n, s) /\ work[n].end = "none"
    BY DEF AllNeat
  <2>3. Neat(n, v.todo)
    <3> PICK t : t = v.todo
      OBVIOUS
    <3>1. t = SubSeq(s, k + 1, Len(s))
      BY <2>1
    <3>2. Neat(n, t)
      BY ONLY <2>1, <2>2, <3>1, NeatTail
    <3> QED
      BY <3>2
  <2> QED
    BY <2>1, <2>2, <2>3, WorkerNeat
<1> QED
  BY <1>2, <1>3, <1>4

\* A worker that dies undoes nothing that the others have done.
LEMMA DiesAll ==
    ASSUME CloudInv, Unique, AllKnown, AllNeat, PortsInv, DnsInv, NEW n \in Nodes, Busy(n), PortsLast, DnsLast(n), Dies(n)
    PROVE  AllNeat' /\ PortsInv' /\ DnsInv'
<1>1. work' = [work EXCEPT ![n] = Dead] /\ Dead.todo = <<>> /\ Dead.end = "failed"
  BY DEF Dies, Dead, Idle
<1>2. work'[n] = Dead /\ \A j \in Nodes \ {n} : work'[j] = work[j]
  BY <1>1 DEF CloudInv, Types, WorkType
<1>3. AllNeat'
  BY <1>1, NeatEmpty, WorkerNeat
<1>4. PortsInv'
  <2> SUFFICES ASSUME NEW j \in Nodes PROVE (Active(j) => Opened(j))'
    BY DEF PortsInv
  <2>1. CASE j = n
    BY <1>1, <1>2, <2>1 DEF Active, Busy
  <2>2. CASE j # n
    BY <1>2, <2>2, OthersOpened DEF PortsInv
  <2> QED
    BY <2>1, <2>2
<1>5. DnsInv'
  <2> SUFFICES ASSUME mode' = "turn", ~unsure'
               PROVE  Coming' /\ \A j \in Nodes : Seen(j)' /\ (Active(j)' => Recorded(j)' /\ Optioned(j)' /\ Waited(j)')
    BY DEF DnsInv
  <2>1. mode = "turn" /\ ~unsure /\ cloud' = cloud
    BY DEF DnsLast, PortsLast
  <2>2. InTurn
    BY <2>1 DEF Unique
  <2>3. Coming /\ \A j \in Nodes : Seen(j) /\ (Active(j) => Recorded(j) /\ Optioned(j) /\ Waited(j))
    BY <2>1 DEF DnsInv
  <2> QED
    BY <2>1, <2>2, <2>3, DeadDns
<1> QED
  BY <1>3, <1>4, <1>5

\* A worker starts with all of it to do, when no other is at work or may spoil it.
LEMMA StartAll ==
    ASSUME CloudInv, Unique, AllKnown, AllNeat, PortsInv, DnsInv, NEW n \in Nodes, Start(n), PortsLast, DnsLast(n)
    PROVE  AllNeat' /\ PortsInv' /\ DnsInv'
<1> PICK p : p = <<Call("unregister", n)>> \o Delete(n) \o Provision(cloud, n, overlay)
  OBVIOUS
<1> PICK v : v = [Idle EXCEPT !.todo = p]
  OBVIOUS
<1>1. /\ Neat(n, p) /\ p \in Seq(Calls) /\ p[1].op = "unregister" /\ Openings(cloud, n) \subseteq Left(p)
      /\ {Call("register", n), Call("ready", "dns")} \subseteq Left(p)
      /\ cloud = "aws" => Call("dhcp", "dns") \in Left(p)
  <2>1. cloud \in Providers /\ overlay \in BOOLEAN
    BY CloudVmsAssumption DEF CloudInv, Types, LabType
  <2> QED
    BY <2>1, ProgramTidy
<1>2. v.todo = p /\ v.end = "none" /\ work' = [work EXCEPT ![n] = v] /\ cloud' = cloud
  BY DEF Start, Idle, lab
<1>3. work'[n] = v /\ \A j \in Nodes \ {n} : work'[j] = work[j]
  BY <1>2 DEF CloudInv, Types, WorkType
<1>4. AllNeat'
  BY <1>1, <1>2, WorkerNeat
<1>5. PortsInv'
  <2> SUFFICES ASSUME NEW j \in Nodes PROVE (Active(j) => Opened(j))'
    BY DEF PortsInv
  <2>1. CASE j # n
    BY <1>3, <2>1, OthersOpened DEF PortsInv
  <2>2. Opened(n)'
    BY <1>1, <1>2, <1>3 DEF Opened, Openings
  <2> QED
    BY <2>1, <2>2
<1>6. DnsInv'
  <2> SUFFICES ASSUME mode' = "turn", ~unsure'
               PROVE  Coming' /\ \A j \in Nodes : Seen(j)' /\ (Active(j)' => Recorded(j)' /\ Optioned(j)' /\ Waited(j)')
    BY DEF DnsInv
  <2>1. mode = "turn" /\ ~unsure /\ machines' = machines /\ \A j \in Nodes : ~Busy(j)
    BY DEF Start, lab, ghosts
  <2>2. Coming /\ \A j \in Nodes : Seen(j) /\ (Active(j) => Recorded(j) /\ Optioned(j) /\ Waited(j))
    BY <2>1 DEF DnsInv
  <2>3. Coming'
    <3> SUFFICES ASSUME NEW d \in machines, d.name = "dns", ~d.up PROVE FALSE
      BY <2>1 DEF Coming
    <3>1. PICK j \in Nodes : Awaits(work[j].todo)
      BY <2>2 DEF Coming
    <3> QED
      BY <2>1, <3>1, NeatEmpty DEF Busy
  <2>4. ASSUME NEW j \in Nodes \ {n} PROVE Seen(j)' /\ (Active(j)' => Recorded(j)' /\ Optioned(j)' /\ Waited(j)')
    <3>1. work'[j] = work[j] /\ ~Busy(j) /\ ~At(n, "dhcp")
      BY <1>3, <2>1 DEF At
    <3>2. Seen(j)'
      BY <3>1 DEF Seen, Busy
    <3>3. ASSUME Active(j)' PROVE Recorded(j)' /\ Optioned(j)' /\ Waited(j)'
      <4>1. Active(j)
        BY <3>1, <3>3 DEF Active, Busy
      <4>2. Recorded(j) /\ Optioned(j) /\ Waited(j)
        BY <2>2, <4>1
      <4> QED
        BY <1>2, <3>1, <4>2, OthersDns
    <3> QED
      BY <3>2, <3>3
  <2>5. Seen(n)'
    <3>1. p[1] # Call("ready", "dns")
      BY <1>1, CallIs
    <3> QED
      BY <1>2, <1>3, <3>1 DEF Seen
  <2>6. Recorded(n)' /\ Optioned(n)' /\ Waited(n)'
    BY <1>1, <1>2, <1>3 DEF Recorded, Optioned, Waited
  <2> QED
    BY <2>3, <2>4, <2>5, <2>6
<1> QED
  BY <1>4, <1>5, <1>6

\* The machines come up and go down, with no worker at a step: a DNS machine that is stopped is noted.
LEMMA ElseDns ==
    ASSUME CloudInv,
           \/ \E x \in Nodes \cup Shared : PowerOff(x) \/ PowerOn(x)
           \/ \E m \in machines : Boots(m)
           \/ UNCHANGED vars
    PROVE  unsure' \/ DnsStays
<1>1. \A m \in machines : m \in MachineType(made)
  BY DEF CloudInv, Types, StockType
<1>2. ASSUME NEW m \in machines, NEW r, r.id = m.id, r.name = m.name, m.name = "dns" /\ m.up => r.up,
             machines' = (machines \ {m}) \cup {r}
      PROVE  DnsStays
  <2>1. ASSUME NEW d \in machines, d.name = "dns" PROVE \E e \in machines' : e.id = d.id /\ e.name = "dns" /\ (d.up => e.up)
    BY <1>2, <2>1
  <2>2. ASSUME NEW e \in machines', e.name = "dns" PROVE \E d \in machines : d.id = e.id /\ d.name = "dns" /\ (d.up => e.up)
    BY <1>2, <2>2
  <2> QED
    BY <2>1, <2>2 DEF DnsStays
<1>3. ASSUME NEW x \in Nodes \cup Shared, PowerOff(x) PROVE unsure' \/ DnsStays
  <2>1. x = "dns" => unsure'
    BY <1>3 DEF PowerOff, Shared
  <2>2. PICK m \in machines : m.name = x /\ machines' = (machines \ {m}) \cup {[m EXCEPT !.on = FALSE, !.up = FALSE]}
    BY <1>3 DEF PowerOff
  <2> PICK r : r = [m EXCEPT !.on = FALSE, !.up = FALSE]
    OBVIOUS
  <2>3. r.id = m.id /\ r.name = m.name
    BY <1>1 DEF MachineType
  <2> QED
    BY <1>2, <2>1, <2>2, <2>3
<1>4. ASSUME NEW x \in Nodes \cup Shared, PowerOn(x) PROVE DnsStays
  <2>1. PICK m \in machines : machines' = (machines \ {m}) \cup {[m EXCEPT !.on = TRUE]}
    BY <1>4 DEF PowerOn
  <2> PICK r : r = [m EXCEPT !.on = TRUE]
    OBVIOUS
  <2>2. r.id = m.id /\ r.name = m.name /\ r.up = m.up
    BY <1>1 DEF MachineType
  <2> QED
    BY <1>2, <2>1, <2>2
<1>5. ASSUME NEW m \in machines, Boots(m) PROVE DnsStays
  <2> PICK a : a = m.addr
    OBVIOUS
  <2> PICK r : r = [m EXCEPT !.addr = TRUE, !.up = a]
    OBVIOUS
  <2>1. machines' = (machines \ {m}) \cup {r} /\ ~m.up
    BY <1>5 DEF Boots
  <2>2. r.id = m.id /\ r.name = m.name
    BY <1>1 DEF MachineType
  <2> QED
    BY <1>2, <2>1, <2>2
<1>6. ASSUME UNCHANGED vars PROVE DnsStays
  BY <1>6 DEF vars, DnsStays
<1> QED
  BY <1>3, <1>4, <1>5, <1>6

\* So machines that come up and go down undo nothing that was done.
LEMMA ElseAll ==
    ASSUME CloudInv, Unique, AllNeat, PortsInv, DnsInv,
           \/ \E x \in Nodes \cup Shared : PowerOff(x) \/ PowerOn(x)
           \/ \E m \in machines : Boots(m)
           \/ UNCHANGED vars
    PROVE  AllNeat' /\ PortsInv' /\ DnsInv'
<1>1. UNCHANGED <<lab, account, work, undeleted>> /\ (unsure => unsure')
  <2>1. ASSUME NEW x \in Nodes \cup Shared, PowerOff(x) PROVE UNCHANGED <<lab, account, work, undeleted>> /\ (unsure => unsure')
    <3>1. UNCHANGED <<lab, account, work, undeleted>>
      BY <2>1 DEF PowerOff, lab, account
    <3>2. unsure' = (unsure \/ x \in Shared)
      BY <2>1 DEF PowerOff
    <3>3. unsure => unsure'
      BY ONLY <3>2, Zenon
    <3> QED
      BY ONLY <3>1, <3>3
  <2>2. ASSUME NEW x \in Nodes \cup Shared, PowerOn(x) PROVE UNCHANGED <<lab, account, work, undeleted, unsure>>
    BY <2>2 DEF PowerOn, lab, account, ghosts
  <2>3. ASSUME NEW m \in machines, Boots(m) PROVE UNCHANGED <<lab, account, work, undeleted, unsure>>
    BY <2>3 DEF Boots, lab, account, ghosts
  <2>4. ASSUME UNCHANGED vars PROVE UNCHANGED <<lab, account, work, undeleted, unsure>>
    BY <2>4 DEF vars, lab, account
  <2>5. UNCHANGED unsure => (unsure => unsure')
    OBVIOUS
  <2> QED
    BY <2>1, <2>2, <2>3, <2>4, <2>5, Zenon
<1>2. AllNeat'
  BY <1>1 DEF AllNeat, Busy
<1>3. PortsInv'
  BY <1>1 DEF PortsInv, Active, Busy, Opened, lab, account
<1>4. ASSUME mode' = "turn", ~unsure'
      PROVE  Coming' /\ \A j \in Nodes : Seen(j)' /\ (Active(j)' => Recorded(j)' /\ Optioned(j)' /\ Waited(j)')
  <2>1. mode = "turn" /\ ~unsure /\ DnsStays
    BY <1>1, <1>4, ElseDns DEF lab
  <2>2. Coming /\ \A j \in Nodes : Seen(j) /\ (Active(j) => Recorded(j) /\ Optioned(j) /\ Waited(j))
    BY <2>1 DEF DnsInv
  <2>3. /\ work' = work /\ cloud' = cloud /\ net' = net /\ records' = records
        /\ \A d \in machines : d.name = "dns" => \E e \in machines' : e.id = d.id /\ e.name = "dns" /\ (d.up => e.up)
        /\ \A e \in machines' : e.name = "dns" => \E d \in machines : d.id = e.id /\ d.name = "dns" /\ (d.up => e.up)
    BY <1>1, <2>1 DEF DnsStays, lab, account
  <2>4. Coming'
    BY <2>2, <2>3 DEF Coming
  <2>5. ASSUME NEW j \in Nodes PROVE Seen(j)' /\ (Active(j)' => Recorded(j)' /\ Optioned(j)' /\ Waited(j)')
    <3>1. Seen(j)'
      BY <2>2, <2>3 DEF Seen, Busy, Is
    <3>2. ASSUME Active(j)' PROVE Recorded(j)' /\ Optioned(j)' /\ Waited(j)'
      <4>1. Recorded(j) /\ Optioned(j) /\ Waited(j)
        BY <2>2, <2>3, <3>2 DEF Active, Busy
      <4>2. Recorded(j)'
        BY <2>3, <4>1 DEF Recorded
      <4>3. Optioned(j)'
        BY <2>3, <4>1 DEF Optioned
      <4>4. Waited(j)'
        BY <2>3, <4>1 DEF Waited, Busy
      <4> QED
        BY <4>2, <4>3, <4>4
    <3> QED
      BY <3>1, <3>2
  <2> QED
    BY <2>4, <2>5
<1>5. DnsInv'
  BY <1>4 DEF DnsInv
<1> QED
  BY <1>2, <1>3, <1>5

\* What is done is done for good, and what is left is done before a worker ends.
LEMMA ReachedNext ==
    ASSUME CloudInv, Unique, AllKnown, AllNeat, PortsInv, DnsInv, [Next]_vars
    PROVE  AllNeat' /\ PortsInv' /\ DnsInv'
<1>1. ASSUME NEW n \in Nodes, Step(n) \/ DestroyFails(n) \/ CallFails(n) \/ RecordLost(n) PROVE AllNeat' /\ PortsInv' /\ DnsInv'
  <2>1. PortsLast /\ DnsLast(n)
    BY <1>1, PortsLasts, DnsLasts
  <2>2. Dies(n) \/ Does(n)
    <3>1. CallFails(n) => Dies(n)
      BY DEF CallFails
    <3> QED
      BY <1>1, <3>1, StepDoes
  <2>3. Busy(n)
    <3>1. CASE Step(n)
      BY <3>1 DEF Step, Unregister, FindCall, DeleteCall, CreateCall, SetUp, Address, Ready, Reuse, Register, NoEffect, NetLook,
                  NetCall, AddRules, PutRules, At
    <3>2. CASE DestroyFails(n) \/ CallFails(n) \/ RecordLost(n)
      BY <3>2 DEF DestroyFails, Destroying, CallFails, RecordLost, At
    <3> QED
      BY <1>1, <3>1, <3>2
  <2> QED
    BY <2>1, <2>2, <2>3, DoesAll, DiesAll
<1>2. ASSUME NEW n \in Nodes, Start(n) PROVE AllNeat' /\ PortsInv' /\ DnsInv'
  BY <1>2, PortsLasts, DnsLasts, StartAll
<1> QED
  BY <1>1, <1>2, ElseAll DEF Next

\* At the start nobody is at work and no node was provisioned.
LEMMA ReachedInit == Init => AllNeat /\ PortsInv /\ DnsInv
<1> SUFFICES ASSUME Init PROVE AllNeat /\ PortsInv /\ DnsInv
  OBVIOUS
<1>1. machines = {} /\ \A n \in Nodes : work[n].todo = <<>> /\ work[n].end = "none"
  BY DEF Init, Idle
<1>2. AllNeat
  BY <1>1, NeatEmpty DEF AllNeat, Busy
<1>3. \A n \in Nodes : ~Active(n) /\ Seen(n)
  BY <1>1 DEF Active, Busy, Seen
<1>4. Coming
  BY <1>1 DEF Coming
<1> QED
  BY <1>2, <1>3, <1>4 DEF PortsInv, DnsInv

\* A node that was provisioned (setup_vm.py:230-258) is reached: its ports are open in the rules of its own machine,
\* its record is on a DNS machine that is up, and on AWS the network's DHCP options name that machine, when workers take
\* turns and no shared machine was left half made or stopped and no record lost.
THEOREM NodesReachable == Spec => []Reachable
<1>1. CloudInv /\ Unique /\ AllNeat /\ PortsInv /\ DnsInv => Reachable
  <2> SUFFICES ASSUME CloudInv, Unique, AllNeat, PortsInv, DnsInv PROVE PortsOpen /\ Resolves
    BY DEF Reachable
  <2>1. ASSUME NEW n \in Nodes, work[n].end = "ok" PROVE work[n].todo = <<>> /\ Active(n) /\ Left(work[n].todo) = {}
    BY <2>1, NeatEmpty DEF AllNeat, Busy, Active
  <2>2. ASSUME NEW n \in Nodes, work[n].end = "ok", n \notin undeleted
        PROVE  /\ cloud \in {"aws", "gcp", "alibaba", "exoscale"} => n \in rules
               /\ cloud \in {"gcp", "exoscale"} => <<work[n].got, n>> \in groups
    <3>1. Opened(n) /\ work[n].todo = <<>> /\ Left(work[n].todo) = {}
      BY <2>1, <2>2 DEF PortsInv
    <3>2. ~Adds(n, work[n].todo)
      BY <3>1, EmptySeq DEF Adds
    <3> QED
      BY <2>2, <3>1, <3>2 DEF Opened
  <2>3. ASSUME mode = "turn", ~unsure, NEW n \in Nodes, work[n].end = "ok"
        PROVE  \E d \in machines : d.name = "dns" /\ d.up /\ <<d.id, n, work[n].got>> \in records /\ (cloud = "aws" => net.dhcp = d.id)
    <3>1. Recorded(n) /\ Optioned(n) /\ Waited(n) /\ Left(work[n].todo) = {}
      BY <2>1, <2>3 DEF DnsInv
    <3>2. \A d, e \in machines : d.name = "dns" /\ e.name = "dns" => d = e
      BY <2>3 DEF Unique, InTurn, Once, Shared
    <3>3. PICK d \in machines : d.name = "dns" /\ d.up
      BY <3>1 DEF Waited
    <3>4. <<d.id, n, work[n].got>> \in records
      BY <3>1, <3>2, <3>3 DEF Recorded
    <3>5. cloud = "aws" => net.dhcp = d.id
      BY <3>1, <3>2, <3>3 DEF Optioned
    <3> QED
      BY <3>3, <3>4, <3>5
  <2>4. PortsOpen
    BY <2>2 DEF PortsOpen
  <2>5. Resolves
    BY <2>3 DEF Resolves
  <2> QED
    BY <2>4, <2>5
<1>2. CloudInv /\ Unique /\ AllKnown /\ AllNeat /\ PortsInv /\ DnsInv /\ [Next]_vars => AllNeat' /\ PortsInv' /\ DnsInv'
  BY ReachedNext
<1>3. Spec => [](AllNeat /\ PortsInv /\ DnsInv)
  BY <1>2, ReachedInit, UniqueAlways, KnownAlways, PTL DEF Spec
<1> QED
  BY <1>1, <1>3, UniqueAlways, PTL
====
