------------------------- MODULE SceneStreamProofs --------------------------
(***************************************************************************)
(* Proofs about SceneStream, for any scenes, limits, history length and    *)
(* socket: the mirror takes every packet it is sent (StreamIsAccepted),    *)
(* the session knows what the mirror shows (SessionKnowsMirror), and the   *)
(* two together implement SceneReplica.                                    *)
(*                                                                         *)
(* The argument follows the packets that are on their way.  They lead the  *)
(* display, the mirror and the position it shows, through states that each *)
(* take the next packet, to the revision the session says it has sent      *)
(* (PipeInv).  What the broker adds leads from there to the next such      *)
(* revision: a snapshot from any state, the changes of a batch one by one. *)
(***************************************************************************)
EXTENDS SceneStream, SceneProofs

-----------------------------------------------------------------------------
(* What a display, the mirror with the position it shows, makes of packets. *)
(* "pub" is the published history, "start" where the packets' run begins.   *)

(* The display d takes the packet p, and is e then.                        *)
Takes(pub, start, d, p, e) ==
    /\ ~RevisionGap(d.mirror, p) /\ Accepts(d.mirror, p)
    /\ e = [mirror |-> Applied(d.mirror, p),
            position |-> IF Publishes(p) THEN start + p.revision ELSE d.position]
    /\ e.position \in Nat /\ d.position <= e.position /\ e.position <= Len(pub)
    /\ e.mirror.providers = pub[e.position]

(* It takes one packet after the other.                                    *)
Leads(pub, start, d, packets, e) ==
    \E ds : /\ ds[1] = d /\ ds[Len(packets) + 1] = e
            /\ \A i \in 1..Len(packets) : Takes(pub, start, ds[i], packets[i], ds[i + 1])

(* Nothing to take.                                                        *)
LEMMA LeadsNowhere ==
    ASSUME NEW pub, NEW start, NEW d
    PROVE  Leads(pub, start, d, <<>>, d)
<1> DEFINE ds == [i \in {1} |-> d]
<1>1. ds[1] = d /\ ds[Len(<<>>) + 1] = d /\ \A i \in 1..Len(<<>>) : FALSE
  OBVIOUS
<1> HIDE DEF ds
<1> QED BY <1>1 DEF Leads

(* One packet.                                                             *)
LEMMA LeadsOnce ==
    ASSUME NEW P, NEW p \in P, NEW pub, NEW start, NEW d, NEW e,
           Takes(pub, start, d, p, e)
    PROVE  Leads(pub, start, d, <<p>>, e)
<1> DEFINE ds == [i \in {1, 2} |-> IF i = 1 THEN d ELSE e]
<1>1. ds[1] = d /\ ds[2] = e
  OBVIOUS
<1> HIDE DEF ds
<1>2. Len(<<p>>) = 1 /\ <<p>>[1] = p
  OBVIOUS
<1>3. \A i \in 1..Len(<<p>>) : Takes(pub, start, ds[i], <<p>>[i], ds[i + 1])
  BY <1>1, <1>2
<1>4. ds[Len(<<p>>) + 1] = e
  BY <1>1, <1>2
<1> QED BY <1>1, <1>3, <1>4 DEF Leads

(* Packets that follow others.                                             *)
LEMMA LeadsJoin ==
    ASSUME NEW P, NEW ps \in Seq(P), NEW qs \in Seq(P), NEW pub, NEW start,
           NEW d, NEW e, NEW f, Leads(pub, start, d, ps, e), Leads(pub, start, e, qs, f)
    PROVE  Leads(pub, start, d, ps \o qs, f)
<1>1. PICK ds : /\ ds[1] = d /\ ds[Len(ps) + 1] = e
                /\ \A i \in 1..Len(ps) : Takes(pub, start, ds[i], ps[i], ds[i + 1])
  BY Zenon DEF Leads
<1>2. PICK es : /\ es[1] = e /\ es[Len(qs) + 1] = f
                /\ \A i \in 1..Len(qs) : Takes(pub, start, es[i], qs[i], es[i + 1])
  BY Zenon DEF Leads
<1> DEFINE m == Len(ps)
           n == Len(qs)
           all == ps \o qs
           fs == [i \in 1..m + n + 1 |-> IF i <= m THEN ds[i] ELSE es[i - m]]
<1>3. /\ m \in Nat /\ n \in Nat /\ Len(all) = m + n
      /\ \A i \in 1..m + n : all[i] = IF i <= m THEN ps[i] ELSE qs[i - m]
  OBVIOUS
<1>4. \A i \in 1..m + n + 1 : fs[i] = IF i <= m THEN ds[i] ELSE es[i - m]
  OBVIOUS
<1> HIDE DEF m, n, all, fs
<1>5. fs[m + 1] = es[1]
  BY <1>3, <1>4
<1>6. fs[1] = d
  <2>1. CASE m = 0
    BY <1>1, <1>2, <1>5, <2>1 DEF m
  <2>2. CASE m # 0
    BY <1>1, <1>3, <1>4, <2>2
  <2> QED BY <2>1, <2>2
<1>7. fs[Len(all) + 1] = f
  <2> DEFINE last == m + n + 1
  <2>1. last \in 1..m + n + 1 /\ ~(last <= m) /\ last - m = n + 1 /\ last = Len(all) + 1
    BY <1>3
  <2> HIDE DEF last
  <2>2. fs[last] = es[last - m]
    BY <1>4, <2>1
  <2> QED BY <1>2, <2>1, <2>2 DEF n
<1>8. ASSUME NEW i \in 1..Len(all)
      PROVE  Takes(pub, start, fs[i], all[i], fs[i + 1])
  <2>1. i \in Nat /\ i >= 1 /\ i <= m + n
    BY <1>3
  <2>2. CASE i < m
    <3>1. fs[i] = ds[i] /\ fs[i + 1] = ds[i + 1] /\ all[i] = ps[i] /\ i \in 1..m
      <4>1. /\ i \in 1..m + n + 1 /\ i <= m /\ i \in 1..m + n /\ i \in 1..m
            /\ i + 1 \in 1..m + n + 1 /\ i + 1 <= m
        BY <1>3, <2>1, <2>2
      <4>2. fs[i] = ds[i] /\ all[i] = ps[i]
        BY <1>3, <1>4, <4>1
      <4>3. fs[i + 1] = ds[i + 1]
        BY <1>4, <4>1
      <4> QED BY <4>1, <4>2, <4>3
    <3> QED BY <1>1, <3>1, Zenon DEF m
  <2>3. CASE i = m
    <3>1. fs[i] = ds[i] /\ fs[i + 1] = ds[i + 1] /\ all[i] = ps[i] /\ i \in 1..m
      BY <1>1, <1>2, <1>3, <1>4, <1>5, <2>1, <2>3 DEF m
    <3> QED BY <1>1, <3>1, Zenon DEF m
  <2>4. CASE i > m
    <3>1. /\ fs[i] = es[i - m] /\ fs[i + 1] = es[(i - m) + 1]
          /\ all[i] = qs[i - m] /\ i - m \in 1..n
      BY <1>3, <1>4, <2>1, <2>4
    <3>2. Takes(pub, start, es[i - m], qs[i - m], es[(i - m) + 1])
      BY <1>2, <3>1, Zenon DEF n
    <3> QED BY <3>1, <3>2, Zenon
  <2> QED BY <1>3, <2>1, <2>2, <2>3, <2>4
<1> QED BY <1>6, <1>7, <1>8, Zenon DEF Leads, all

(* The first of some packets, and the rest.                                *)
LEMMA LeadsFirst ==
    ASSUME NEW P, NEW ps \in Seq(P), ps # <<>>, NEW pub, NEW start, NEW d, NEW f,
           Leads(pub, start, d, ps, f)
    PROVE  \E e : Takes(pub, start, d, Head(ps), e) /\ Leads(pub, start, e, Tail(ps), f)
<1>1. PICK ds : /\ ds[1] = d /\ ds[Len(ps) + 1] = f
                /\ \A i \in 1..Len(ps) : Takes(pub, start, ds[i], ps[i], ds[i + 1])
  BY Zenon DEF Leads
<1> DEFINE rest == Tail(ps)
           es == [i \in 1..Len(ps) |-> ds[i + 1]]
<1>2. /\ Len(ps) \in Nat /\ Len(ps) >= 1 /\ Head(ps) = ps[1]
      /\ Len(rest) = Len(ps) - 1 /\ \A i \in 1..Len(rest) : rest[i] = ps[i + 1]
  OBVIOUS
<1>3. \A i \in 1..Len(ps) : es[i] = ds[i + 1]
  OBVIOUS
<1> HIDE DEF rest, es
<1>4. Takes(pub, start, d, Head(ps), ds[2])
  <2>1. 1 \in 1..Len(ps) /\ 1 + 1 = 2
    BY <1>2
  <2> QED BY <1>1, <1>2, <2>1
<1>5. es[1] = ds[2] /\ es[Len(rest) + 1] = f
  BY <1>1, <1>2, <1>3
<1>6. ASSUME NEW i \in 1..Len(rest)
      PROVE  Takes(pub, start, es[i], rest[i], es[i + 1])
  <2>1. i + 1 \in 1..Len(ps) /\ i \in 1..Len(ps)
    BY <1>2
  <2>2. Takes(pub, start, ds[i + 1], ps[i + 1], ds[(i + 1) + 1])
    BY <1>1, <2>1
  <2>3. es[i] = ds[i + 1] /\ es[i + 1] = ds[(i + 1) + 1] /\ rest[i] = ps[i + 1]
    BY <1>2, <1>3, <2>1
  <2> QED BY <2>2, <2>3, Zenon
<1>7. Leads(pub, start, ds[2], rest, f)
  BY <1>5, <1>6, Zenon DEF Leads
<1> QED BY <1>4, <1>7 DEF rest

(* A beginning of the packets.                                             *)
LEMMA LeadsPart ==
    ASSUME NEW P, NEW ps \in Seq(P), NEW qs \in Seq(P), NEW pub, NEW start,
           NEW d, NEW f, Leads(pub, start, d, ps \o qs, f)
    PROVE  \E e : Leads(pub, start, d, ps, e)
<1> DEFINE all == ps \o qs
<1>1. PICK ds : /\ ds[1] = d /\ ds[Len(all) + 1] = f
                /\ \A i \in 1..Len(all) : Takes(pub, start, ds[i], all[i], ds[i + 1])
  BY Zenon DEF Leads
<1>2. /\ \A i \in 1..Len(ps) : i \in 1..Len(all) /\ all[i] = ps[i]
  OBVIOUS
<1> HIDE DEF all
<1>3. \A i \in 1..Len(ps) : Takes(pub, start, ds[i], ps[i], ds[i + 1])
  BY <1>1, <1>2, Zenon
<1> QED BY <1>1, <1>3, Zenon DEF Leads

(* What is published later does not matter.                                *)
LEMMA LeadsGrown ==
    ASSUME NEW P, NEW ps \in Seq(P), NEW T, NEW pub \in Seq(T), NEW more \in T,
           NEW start, NEW d, NEW e,
           Leads(pub, start, d, ps, e), d.position \in Nat \ {0}
    PROVE  Leads(Append(pub, more), start, d, ps, e)
<1>1. PICK ds : /\ ds[1] = d /\ ds[Len(ps) + 1] = e
                /\ \A i \in 1..Len(ps) : Takes(pub, start, ds[i], ps[i], ds[i + 1])
  BY Zenon DEF Leads
<1> DEFINE N == {k \in Nat : k + 1 \in 1..Len(ps) + 1 => ds[k + 1].position \in Nat \ {0}}
<1>2. 0 \in N
  BY <1>1
<1>3. ASSUME NEW k \in Nat, k \in N
      PROVE  k + 1 \in N
  <2> SUFFICES ASSUME k + 2 \in 1..Len(ps) + 1
               PROVE  ds[k + 2].position \in Nat \ {0}
    OBVIOUS
  <2>1. k + 1 \in 1..Len(ps) /\ (k + 1) + 1 = k + 2
    OBVIOUS
  <2>2. ds[k + 1].position \in Nat \ {0}
    BY <1>3, <2>1
  <2>3. ds[k + 1].position <= ds[k + 2].position /\ ds[k + 2].position \in Nat
    <3>1. Takes(pub, start, ds[k + 1], ps[k + 1], ds[(k + 1) + 1])
      BY <1>1, <2>1
    <3>2. ds[k + 1].position <= ds[(k + 1) + 1].position
          /\ ds[(k + 1) + 1].position \in Nat
      BY <3>1, Zenon DEF Takes
    <3> QED BY <2>1, <3>2
  <2> QED BY <2>2, <2>3
<1>4. \A k \in Nat : k \in N
  <2> HIDE DEF N
  <2> QED BY <1>2, <1>3, NaturalInduction
<1>5. ASSUME NEW i \in 1..Len(ps)
      PROVE  Takes(Append(pub, more), start, ds[i], ps[i], ds[i + 1])
  <2>1. ds[i + 1].position \in Nat \ {0}
    <3>1. i \in Nat /\ i + 1 \in 1..Len(ps) + 1
      OBVIOUS
    <3> QED BY <1>4, <3>1
  <2>2. Takes(pub, start, ds[i], ps[i], ds[i + 1])
    BY <1>1
  <2> DEFINE k == ds[i + 1].position
  <2>3. k \in Nat \ {0} /\ k <= Len(pub)
    BY <2>1, <2>2, Zenon DEF Takes
  <2> HIDE DEF k
  <2>4. Append(pub, more)[k] = pub[k] /\ k <= Len(Append(pub, more))
    BY <2>3
  <2> QED BY <2>2, <2>4, Zenon DEF Takes, k
<1> QED BY <1>1, <1>5, Zenon DEF Leads

(* Sequences of packets, one after the other.                              *)
LEMMA LeadsThrough ==
    ASSUME NEW P, NEW seqs \in Seq(Seq(P)), NEW pub, NEW start, NEW ds,
           \A i \in 1..Len(seqs) : Leads(pub, start, ds[i], seqs[i], ds[i + 1])
    PROVE  /\ FlattenSeq(seqs) \in Seq(P)
           /\ Leads(pub, start, ds[1], FlattenSeq(seqs), ds[Len(seqs) + 1])
<1>1. CASE Len(seqs) = 0
  <2>1. FlattenSeq(seqs) = seqs
    BY <1>1, Zenon DEF FlattenSeq
  <2>2. seqs = <<>> /\ <<>> \in Seq(P) /\ Len(seqs) + 1 = 1
    BY <1>1
  <2> QED BY <2>1, <2>2, LeadsNowhere
<1>2. CASE Len(seqs) # 0
  <2> DEFINE n == Len(seqs)
  <2>1. n \in Nat /\ n >= 1 /\ \A i \in 1..n : seqs[i] \in Seq(P)
    BY <1>2
  <2>2. PICK flat : Joins(flat, seqs) /\ FlattenSeq(seqs) = flat[n]
    BY <1>2, FlattenJoins
  <2>3. \A i \in 1..n : flat[i] \in Seq(P)
    BY <2>2, JoinsType
  <2>4. \A i \in 1..n : flat[i] = IF i = 1 THEN seqs[i] ELSE flat[i - 1] \o seqs[i]
    BY <2>2, Zenon DEF Joins
  <2>5. \A i \in 1..n : Leads(pub, start, ds[i], seqs[i], ds[i + 1])
    OBVIOUS
  <2> HIDE DEF n
  <2> DEFINE N == {k \in Nat : k + 1 \in 1..n =>
                       Leads(pub, start, ds[1], flat[k + 1], ds[k + 2])}
  <2>6. 0 \in N
    <3>1. 1 \in 1..n /\ flat[1] = seqs[1]
      BY <2>1, <2>4
    <3>2. Leads(pub, start, ds[1], seqs[1], ds[1 + 1])
      BY <2>5, <3>1
    <3>3. 0 + 1 = 1 /\ 0 + 2 = 2 /\ 1 + 1 = 2 /\ 0 \in Nat
      OBVIOUS
    <3>4. Leads(pub, start, ds[1], flat[0 + 1], ds[0 + 2])
      BY <3>1, <3>2, <3>3, Zenon
    <3> QED BY <3>4
  <2>7. ASSUME NEW k \in Nat, k \in N
        PROVE  k + 1 \in N
    <3> SUFFICES ASSUME (k + 1) + 1 \in 1..n
                 PROVE  Leads(pub, start, ds[1], flat[(k + 1) + 1], ds[(k + 1) + 2])
      OBVIOUS
    <3> DEFINE j == (k + 1) + 1
    <3>1. /\ k + 1 \in 1..n /\ j \in 1..n /\ j # 1 /\ j - 1 = k + 1
          /\ j = k + 2 /\ j + 1 = (k + 1) + 2
      BY <2>1
    <3>2. Leads(pub, start, ds[1], flat[k + 1], ds[k + 2])
      BY <2>7, <3>1
    <3> HIDE DEF j
    <3>3. flat[j] = flat[j - 1] \o seqs[j]
      BY <2>4, <3>1
    <3>4. /\ Leads(pub, start, ds[1], flat[j - 1], ds[j])
          /\ Leads(pub, start, ds[j], seqs[j], ds[j + 1])
      BY <2>5, <3>1, <3>2, Zenon
    <3>5. flat[j - 1] \in Seq(P) /\ seqs[j] \in Seq(P)
      BY <2>1, <2>3, <3>1
    <3>6. Leads(pub, start, ds[1], flat[j - 1] \o seqs[j], ds[j + 1])
      BY ONLY <3>4, <3>5, LeadsJoin
    <3> QED BY <3>1, <3>3, <3>6, Zenon DEF j
  <2>8. \A k \in Nat : k \in N
    <3> HIDE DEF N
    <3> QED BY <2>6, <2>7, NaturalInduction
  <2>9. n - 1 \in Nat /\ (n - 1) + 1 = n /\ (n - 1) + 2 = n + 1 /\ n \in 1..n
    BY <2>1
  <2>10. n - 1 \in N
    <3> HIDE DEF N
    <3> QED BY <2>8, <2>9
  <2>11. Leads(pub, start, ds[1], flat[(n - 1) + 1], ds[(n - 1) + 2])
    BY <2>9, <2>10
  <2>12. Leads(pub, start, ds[1], flat[n], ds[n + 1])
    BY <2>9, <2>11, Zenon
  <2> QED BY <2>2, <2>3, <2>9, <2>12, Zenon DEF n
<1> QED BY <1>1, <1>2

-----------------------------------------------------------------------------
(* The packets of a scene.                                                 *)

(* What the first i of the packets carry.                                  *)
Got(packets, i) == {Held(packets[j]) : j \in 1..i}

(* One more packet carries one more resource.                              *)
LEMMA GotMore ==
    ASSUME NEW packets, NEW i \in Nat
    PROVE  Got(packets, 0) = {} /\ Got(packets, i + 1) = Got(packets, i) \cup {Held(packets[i + 1])}
<1>1. 1..0 = {} /\ 1..i + 1 = (1..i) \cup {i + 1}
  OBVIOUS
<1>2. Got(packets, 0) = {}
  BY <1>1 DEF Got
<1>3. Got(packets, i + 1) = {Held(packets[j]) : j \in (1..i) \cup {i + 1}}
  BY <1>1, Zenon DEF Got
<1> QED BY <1>2, <1>3, Zenon DEF Got

(* The resources of a scene go out one by one, in the order of their ids.  *)
LEMMA ResourcesGoOut ==
    ASSUME NEW s \in Scenes, NEW rev \in Nat
    PROVE  LET ps == ResourcePackets(s, rev)
           IN  /\ ps \in Seq(Packets)
               /\ \A i \in 1..Len(ps) :
                      /\ ps[i].type = "resource_available" /\ ps[i].revision = rev
                      /\ ps[i].identity = s.identity
               /\ \A i \in 1..Len(ps), j \in 1..Len(ps) : ps[i].body.id = ps[j].body.id => i = j
               /\ Got(ps, Len(ps)) = Shared(s)
<1> DEFINE R == Present(s.resources)
           ids == Ascending(R)
           ps == ResourcePackets(s, rev)
           one(i) == Packet("resource_available", rev, s.identity,
                            [id |-> ids[i], resource |-> s.resources[ids[i]]])
<1> HIDE DEF ids
<1>1. /\ R \subseteq ResourceIds /\ IsFiniteSet(R) /\ R \in SUBSET Nat
      /\ \A r \in R : s.resources[r] \in Resources
      /\ s.identity \in Identities
  <2>1. s.resources \in ResourceMaps /\ s.identity \in Identities
    BY DEF Scenes
  <2>2. R \subseteq ResourceIds /\ \A r \in R : s.resources[r] \in Resources
    BY <2>1 DEF ResourceMaps, Present
  <2>3. IsFiniteSet(R)
    BY <2>2, SceneAssumption, FS_Subset
  <2> QED BY <2>1, <2>2, <2>3, SceneAssumption
<1>2. ps = [i \in DOMAIN ids |-> one(i)]
  BY Zenon DEF ids, ResourcePackets
<1>3. Enumerates(ids, R)
  BY <1>1, NumbersInOrder DEF ids
<1>4. PICK n \in Nat : n = Cardinality(R)
  BY <1>1, FS_CardinalityType
<1>5. /\ ids \in [1..n -> R] /\ DOMAIN ids = 1..n
      /\ \A r \in R : \E i \in 1..n : ids[i] = r
      /\ \A i, j \in 1..n : ids[i] = ids[j] => i = j
  BY <1>3, <1>4 DEF Enumerates
<1> HIDE DEF R, ps
<1>6. \A i \in 1..n : /\ ids[i] \in R
                      /\ one(i) \in Packets
                      /\ Held(one(i)) = [identity |-> s.identity, id |-> ids[i],
                                         resource |-> s.resources[ids[i]]]
  <2> SUFFICES ASSUME NEW i \in 1..n
               PROVE  /\ ids[i] \in R
                      /\ one(i) \in Packets
                      /\ Held(one(i)) = [identity |-> s.identity, id |-> ids[i],
                                         resource |-> s.resources[ids[i]]]
    OBVIOUS
  <2>1. ids[i] \in R
    BY <1>5
  <2>2. ids[i] \in ResourceIds /\ s.resources[ids[i]] \in Resources
    BY <1>1, <2>1
  <2> QED BY <1>1, <2>1, <2>2 DEF Packets, PacketTypes, Packet, Held
<1>7. ps = [i \in 1..n |-> one(i)]
  BY <1>2, <1>5
<1>8. ps \in Seq(Packets) /\ Len(ps) = n /\ \A i \in 1..n : ps[i] = one(i)
  <2> HIDE DEF one
  <2> QED BY <1>6, <1>7
<1>9. \A i \in 1..n : /\ ps[i].type = "resource_available" /\ ps[i].revision = rev
                      /\ ps[i].identity = s.identity /\ ps[i].body.id = ids[i]
  BY <1>8 DEF Packet
<1>10. Got(ps, n) = Shared(s)
  <2> DEFINE item(r) == [identity |-> s.identity, id |-> r, resource |-> s.resources[r]]
  <2>1. \A i \in 1..n : Held(ps[i]) = item(ids[i])
    BY <1>6, <1>8
  <2>2. Got(ps, n) = {item(ids[i]) : i \in 1..n}
    <3> HIDE DEF item
    <3> QED BY <2>1 DEF Got
  <2>3. {item(ids[i]) : i \in 1..n} = {item(r) : r \in R}
    <3> HIDE DEF item
    <3> QED BY <1>5
  <2>4. Shared(s) = {item(r) : r \in R}
    BY Zenon DEF Shared, R
  <2> HIDE DEF item
  <2> QED BY <2>2, <2>3, <2>4
<1>11. \A i \in 1..Len(ps), j \in 1..Len(ps) : ps[i].body.id = ps[j].body.id => i = j
  BY <1>5, <1>8, <1>9
<1> HIDE DEF one
<1>12. /\ ps \in Seq(Packets)
       /\ \A i \in 1..Len(ps) :
              /\ ps[i].type = "resource_available" /\ ps[i].revision = rev
              /\ ps[i].identity = s.identity
       /\ \A i \in 1..Len(ps), j \in 1..Len(ps) : ps[i].body.id = ps[j].body.id => i = j
       /\ Got(ps, Len(ps)) = Shared(s)
  BY <1>8, <1>9, <1>10, <1>11
<1> QED BY <1>12 DEF ps

-----------------------------------------------------------------------------
(* What the mirror makes of the packets of a scene.                        *)

(* A part of the resources of a scene fits when all visible scenes do.     *)
LEMMA SharedFits ==
    ASSUME NEW W \in SUBSET Scenes, IsFiniteSet(W), ScenesFit(W),
           NEW s \in W, NEW part \in SUBSET Shared(s)
    PROVE  HeldFits(part)
<1> DEFINE share == {Shared(t) : t \in W}
           all == UNION share
<1>1. \A t \in W : IsFiniteSet(Shared(t)) /\ Countable(Shared(t))
  <2> SUFFICES ASSUME NEW t \in W PROVE IsFiniteSet(Shared(t)) /\ Countable(Shared(t))
    OBVIOUS
  <2>1. t \in Scenes /\ "encoded" \in Planes
    BY DEF Planes
  <2> QED BY <2>1, SharedByScene
<1>2. IsFiniteSet(share)
  <2> DEFINE f == [t \in W |-> Shared(t)]
  <2>1. f \in Surjection(W, share)
    BY DEF Surjection
  <2> HIDE DEF f, share
  <2> QED BY <2>1, FS_Surjection
<1>3. IsFiniteSet(all)
  <2> HIDE DEF share
  <2>1. \A x \in share : IsFiniteSet(x)
    BY <1>1 DEF share
  <2> QED BY <1>2, <2>1, FS_UNION
<1>4. Countable(all)
  BY <1>1 DEF Countable
<1>5. HeldFits(all)
  BY Zenon DEF ScenesFit, Shared
<1>6. part \in SUBSET all
  OBVIOUS
<1> HIDE DEF all
<1> QED BY <1>3, <1>4, <1>5, <1>6, PartFits

(* The scene that comes after its resources finds them all.                *)
LEMMA SceneAttaches ==
    ASSUME NEW s \in PublishableScenes, NEW p, p.identity = s.identity, p.body = s.elements
    PROVE  /\ CanAttach(p, Shared(s))
           /\ Attached(p, Shared(s)) = s
           /\ Of(Shared(s), s.identity) = Shared(s)
<1> DEFINE item(r) == [identity |-> s.identity, id |-> r, resource |-> s.resources[r]]
           R == Present(s.resources)
           resources == ResourcesOf(Shared(s))
<1>1. /\ s \in Scenes /\ ResourcesUsable(s.elements, s.resources)
      /\ R = {r \in ResourceIds : ReferencedBy(s.elements, r)}
  BY DEF PublishableScenes
<1>2. Shared(s) = {item(r) : r \in R}
  BY Zenon DEF Shared
<1>3. Of(Shared(s), s.identity) = Shared(s)
  BY <1>2 DEF Of
<1>4. s.resources \in [ResourceIds -> Resources \cup {None}]
      /\ s = [identity |-> s.identity, elements |-> s.elements, resources |-> s.resources]
  BY <1>1 DEF Scenes, ResourceMaps
<1>5. \A r \in ResourceIds : r \in R <=> s.resources[r] # None
  BY <1>4 DEF Present
<1> HIDE DEF R
<1>6. ASSUME NEW r \in ResourceIds
      PROVE  (IF \E h \in Shared(s) : h.id = r
              THEN (CHOOSE h \in Shared(s) : h.id = r).resource ELSE None)
                 = s.resources[r]
  <2>1. CASE r \in R
    <3>1. item(r) \in Shared(s) /\ item(r).id = r
      BY <1>2, <2>1
    <3>2. \A h \in Shared(s) : h.id = r => h.resource = s.resources[r]
      BY <1>2
    <3> DEFINE h == CHOOSE h \in Shared(s) : h.id = r
    <3>3. h \in Shared(s) /\ h.id = r
      <4> HIDE DEF item
      <4> QED BY <3>1
    <3>4. h.resource = s.resources[r]
      <4> HIDE DEF h
      <4> QED BY <3>2, <3>3
    <3> HIDE DEF item
    <3> QED BY <3>1, <3>4
  <2>2. CASE r \notin R
    <3>1. ~(\E h \in Shared(s) : h.id = r)
      BY <1>2, <2>2
    <3> QED BY <1>5, <2>2, <3>1
  <2> QED BY <2>1, <2>2
<1>7. resources = s.resources
  <2> DEFINE value(r) == IF \E h \in Shared(s) : h.id = r
                         THEN (CHOOSE h \in Shared(s) : h.id = r).resource ELSE None
  <2>1. resources = [r \in ResourceIds |-> value(r)]
    BY Zenon DEF ResourcesOf
  <2>2. \A r \in ResourceIds : value(r) = s.resources[r]
    BY <1>6
  <2> HIDE DEF value, resources
  <2> QED BY <1>4, <2>1, <2>2
<1>8. CanAttach(p, Shared(s))
  <2>1. ResourcesOf(Of(Shared(s), p.identity)) = s.resources
    BY <1>3, <1>7
  <2> QED BY <1>1, <2>1, Zenon DEF CanAttach, R
<1>9. PublishedScene(s.identity, s.elements, s.resources) = s
  <2>1. [r \in ResourceIds |-> IF ReferencedBy(s.elements, r) THEN s.resources[r] ELSE None]
            = s.resources
    <3>1. \A r \in ResourceIds : ~ReferencedBy(s.elements, r) => s.resources[r] = None
      BY <1>1, <1>5
    <3> QED BY <1>4, <3>1
  <2> QED BY <1>4, <2>1, Zenon DEF PublishedScene
<1>10. Attached(p, Shared(s)) = s
  <2>1. Of(Shared(s), p.identity) = Shared(s)
    BY <1>3
  <2> QED BY <1>7, <1>9, <2>1, Zenon DEF Attached
<1> QED BY <1>3, <1>8, <1>10

(* A mirror between two snapshots and between two updates.                 *)
Showing(rev, scenes) ==
    [revision |-> rev, providers |-> scenes, pending |-> None,
     staged_revision |-> 0, staged |-> {}]

(* ... and one that has resources of the next update.                      *)
Staging(rev, scenes, held) ==
    [revision |-> rev, providers |-> scenes, pending |-> None,
     staged_revision |-> IF held = {} THEN 0 ELSE rev + 1, staged |-> held]

(* The resources of a scene are staged one by one.                         *)
LEMMA ResourcesAreStaged ==
    ASSUME NEW rev \in Nat, NEW V, NEW s \in Scenes,
           \A part \in SUBSET Shared(s) : HeldFits(part),
           NEW pub, NEW start, NEW at \in Nat, at <= Len(pub), Len(pub) \in Nat, pub[at] = V
    PROVE  Leads(pub, start, [mirror |-> Showing(rev, V), position |-> at],
                 ResourcePackets(s, rev + 1),
                 [mirror |-> Staging(rev, V, Shared(s)), position |-> at])
<1> DEFINE ps == ResourcePackets(s, rev + 1)
           n == Len(ps)
           got(i) == Got(ps, i)
           ds == [i \in 1..n + 1 |->
                     [mirror |-> Staging(rev, V, got(i - 1)), position |-> at]]
<1>1. rev + 1 \in Nat
  OBVIOUS
<1>2. /\ ps \in Seq(Packets)
      /\ \A i \in 1..n :
             /\ ps[i].type = "resource_available" /\ ps[i].revision = rev + 1
             /\ ps[i].identity = s.identity
      /\ \A i \in 1..n, j \in 1..n : ps[i].body.id = ps[j].body.id => i = j
      /\ got(n) = Shared(s)
  BY <1>1, ResourcesGoOut
<1> HIDE DEF ps
<1>3. n \in Nat
  BY <1>2
<1>4. \A i \in Nat : got(0) = {} /\ got(i + 1) = got(i) \cup {Held(ps[i + 1])}
  BY GotMore
<1>5. \A i \in 1..n : got(i) \in SUBSET Shared(s)
  <2> SUFFICES ASSUME NEW i \in 1..n PROVE got(i) \in SUBSET Shared(s)
    OBVIOUS
  <2>1. \A j \in 1..i : j \in 1..n
    BY <1>3
  <2>2. got(i) \subseteq got(n)
    BY <2>1 DEF Got
  <2> QED BY <1>2, <2>2
<1> HIDE DEF n
<1>6. ds[1] = [mirror |-> Showing(rev, V), position |-> at]
  <2>1. 1 \in 1..n + 1 /\ 1 - 1 = 0
    BY <1>3
  <2>2. ds[1] = [mirror |-> Staging(rev, V, got(0)), position |-> at]
    BY <2>1
  <2>3. got(0) = {}
    BY <1>4, <1>3
  <2> HIDE DEF got, ds
  <2>4. Staging(rev, V, {}) = Showing(rev, V)
    BY DEF Staging, Showing
  <2> QED BY <2>2, <2>3, <2>4
<1>7. ds[n + 1] = [mirror |-> Staging(rev, V, Shared(s)), position |-> at]
  <2>1. n + 1 \in 1..n + 1 /\ (n + 1) - 1 = n
    BY <1>3
  <2>2. ds[n + 1] = [mirror |-> Staging(rev, V, got((n + 1) - 1)), position |-> at]
    BY <2>1
  <2> HIDE DEF got, ds
  <2> QED BY <1>2, <2>1, <2>2, Zenon
<1>8. ASSUME NEW i \in 1..n
      PROVE  Takes(pub, start, ds[i], ps[i], ds[i + 1])
  <2> DEFINE p == ps[i]
             held == got(i - 1)
             m == Staging(rev, V, held)
  <2>1. i - 1 \in Nat /\ (i - 1) + 1 = i /\ i \in 1..n + 1 /\ i + 1 \in 1..n + 1
        /\ (i + 1) - 1 = i
    BY <1>3
  <2>2. got(i) = held \cup {Held(p)}
    <3>1. got((i - 1) + 1) = got(i - 1) \cup {Held(ps[(i - 1) + 1])}
      BY <1>4, <2>1
    <3> HIDE DEF got
    <3> QED BY <2>1, <3>1, Zenon
  <2>3. /\ ds[i] = [mirror |-> m, position |-> at]
        /\ ds[i + 1] = [mirror |-> Staging(rev, V, got(i)), position |-> at]
    <3>1. ds[i] = [mirror |-> m, position |-> at]
      BY <2>1
    <3>2. ds[i + 1] = [mirror |-> Staging(rev, V, got((i + 1) - 1)), position |-> at]
      BY <2>1
    <3> HIDE DEF got, ds
    <3> QED BY <2>1, <3>1, <3>2, Zenon
  <2>4. p.type = "resource_available" /\ p.revision = rev + 1 /\ p.identity = s.identity
    BY <1>2
  <2>5. ~Holds(held, p)
    <3> SUFFICES ASSUME NEW h \in held, h.id = p.body.id PROVE FALSE
      BY DEF Holds
    <3>1. PICK j \in 1..i - 1 : h = Held(ps[j])
      BY DEF Got
    <3>2. j \in 1..n /\ j # i
      BY <1>3
    <3>3. ps[j].body.id = p.body.id
      BY <3>1 DEF Held
    <3> QED BY <1>2, <3>2, <3>3
  <2>6. HeldFits(held \cup {Held(p)})
    <3>1. got(i) \in SUBSET Shared(s)
      BY <1>5
    <3> HIDE DEF got
    <3> QED BY <2>2, <3>1
  <2> HIDE DEF p, held, ds, got
  <2>7. /\ m.revision = rev /\ m.pending = None /\ m.staged = held
        /\ m.staged_revision \in {0, rev + 1} /\ m.providers = V
    BY DEF Staging
  <2>8. ~RevisionGap(m, p)
    BY <2>4, <2>7 DEF RevisionGap
  <2>9. Accepts(m, p)
    <3>1. AcceptsResource(m, p)
      BY <2>5, <2>6, <2>7, Zenon DEF AcceptsResource
    <3> QED BY <2>4, <3>1, Zenon DEF Accepts
  <2>10. Applied(m, p) = Staging(rev, V, got(i))
    <3>1. Applied(m, p) = WithResource(m, p)
      BY <2>4, Zenon DEF Applied
    <3>2. got(i) # {}
      BY <2>2
    <3>3. WithResource(m, p) = [m EXCEPT !.staged_revision = p.revision,
                                         !.staged = @ \cup {Held(p)}]
      BY <2>7, Zenon DEF WithResource
    <3> QED BY <2>2, <2>4, <3>1, <3>2, <3>3 DEF Staging
  <2>11. ~Publishes(p)
    BY <2>4 DEF Publishes
  <2>12. Staging(rev, V, got(i)).providers = V
    BY DEF Staging
  <2> DEFINE d == [mirror |-> m, position |-> at]
             e == [mirror |-> Staging(rev, V, got(i)), position |-> at]
  <2>13. /\ d.mirror = m /\ d.position = at
         /\ e.mirror = Staging(rev, V, got(i)) /\ e.position = at
    OBVIOUS
  <2>14. e = [mirror |-> Applied(d.mirror, p),
              position |-> IF Publishes(p) THEN start + p.revision ELSE d.position]
    BY <2>10, <2>11, <2>13, Zenon
  <2> HIDE DEF d, e, m
  <2>15. Takes(pub, start, d, p, e)
    BY <2>8, <2>9, <2>12, <2>13, <2>14 DEF Takes
  <2> QED BY <2>3, <2>15, Zenon DEF d, e, p
<1>9. \A i \in 1..Len(ps) : Takes(pub, start, ds[i], ps[i], ds[i + 1])
  BY <1>8 DEF n
<1>10. Leads(pub, start, ds[1], ps, ds[n + 1])
  <2> HIDE DEF ds
  <2> QED BY <1>9, Zenon DEF Leads, n
<1> HIDE DEF ds
<1> QED BY <1>6, <1>7, <1>10, Zenon DEF ps

(* Appending one is joining a sequence of one.                             *)
LEMMA AppendJoins ==
    ASSUME NEW P, NEW ps \in Seq(P), NEW p \in P
    PROVE  Append(ps, p) = ps \o <<p>>
<1>1. Append(ps, p) \in Seq(P) /\ ps \o <<p>> \in Seq(P)
  OBVIOUS
<1>2. Len(Append(ps, p)) = Len(ps) + 1 /\ Len(ps \o <<p>>) = Len(ps) + 1
  OBVIOUS
<1>3. \A i \in 1..Len(ps) + 1 : Append(ps, p)[i] = (ps \o <<p>>)[i]
  OBVIOUS
<1> QED BY <1>1, <1>2, <1>3

(* An update of one scene takes the mirror from one revision to the next.  *)
LEMMA UpdateIsTaken ==
    ASSUME NEW rev \in Nat, NEW V, NEW s \in PublishableScenes,
           NEW W \in SUBSET Scenes, IsFiniteSet(W), ScenesFit(W),
           W = {t \in V : t.identity # s.identity} \cup {s},
           NEW pub, NEW start \in Nat, NEW at \in Nat, at <= start + rev + 1,
           Len(pub) \in Nat, start + rev + 1 <= Len(pub),
           pub[at] = V, pub[start + rev + 1] = W
    PROVE  /\ ScenePackets("scene_updated", s, rev + 1) \in Seq(Packets)
           /\ Leads(pub, start, [mirror |-> Showing(rev, V), position |-> at],
                    ScenePackets("scene_updated", s, rev + 1),
                    [mirror |-> Showing(rev + 1, W), position |-> start + rev + 1])
<1> DEFINE ps == ResourcePackets(s, rev + 1)
           p == Packet("scene_updated", rev + 1, s.identity, s.elements)
           m == Staging(rev, V, Shared(s))
           c == [mirror |-> Showing(rev, V), position |-> at]
           d == [mirror |-> m, position |-> at]
           e == [mirror |-> Showing(rev + 1, W), position |-> start + rev + 1]
<1>1. s \in Scenes /\ s \in W /\ rev + 1 \in Nat
  BY DEF PublishableScenes
<1>2. \A part \in SUBSET Shared(s) : HeldFits(part)
  BY <1>1, SharedFits
<1>3. ps \in Seq(Packets)
  BY <1>1, ResourcesGoOut
<1>4. Leads(pub, start, c, ps, d)
  <2>1. at <= Len(pub)
    OBVIOUS
  <2> QED BY <1>1, <1>2, <2>1, ResourcesAreStaged
<1>5. p \in Packets
  <2>1. s.identity \in Identities /\ s.elements \in ElementMaps
    BY <1>1 DEF Scenes
  <2> QED BY <1>1, <2>1 DEF Packets, PacketTypes, Packet
<1>6. p.type = "scene_updated" /\ p.revision = rev + 1
      /\ p.identity = s.identity /\ p.body = s.elements
  BY DEF Packet
<1>7. /\ CanAttach(p, Shared(s)) /\ Attached(p, Shared(s)) = s
      /\ Of(Shared(s), s.identity) = Shared(s)
  BY <1>6, SceneAttaches
<1>8. /\ m.revision = rev /\ m.pending = None /\ m.staged = Shared(s)
      /\ m.staged_revision \in {0, rev + 1} /\ m.providers = V
  BY DEF Staging
<1> HIDE DEF m, p
<1>9. Others(m, p.identity) \cup {Attached(p, m.staged)} = W
  <2>1. Others(m, p.identity) = {t \in V : t.identity # s.identity}
    BY <1>6, <1>8 DEF Others, Of
  <2>2. Attached(p, m.staged) = s
    BY <1>7, <1>8
  <2> QED BY <2>1, <2>2
<1>10. ~RevisionGap(m, p)
  BY <1>6, <1>8 DEF RevisionGap
<1>11. Accepts(m, p)
  <2>1. m.staged \subseteq Of(m.staged, p.identity)
    BY <1>6, <1>7, <1>8
  <2>2. CanAttach(p, m.staged)
    BY <1>7, <1>8
  <2>3. AcceptsUpdate(m, p)
    BY <1>9, <2>1, <2>2, Zenon DEF AcceptsUpdate
  <2> QED BY <1>6, <2>3, Zenon DEF Accepts
<1>12. Applied(m, p) = Showing(rev + 1, W)
  <2>1. Applied(m, p) = Updated(m, p)
    BY <1>6, Zenon DEF Applied
  <2> QED BY <1>6, <1>9, <2>1, Zenon DEF Updated, Showing
<1>13. Publishes(p) /\ start + p.revision = start + rev + 1
  BY <1>6 DEF Publishes
<1>14. Showing(rev + 1, W).providers = W
  BY DEF Showing
<1>15. /\ d.mirror = m /\ d.position = at
       /\ e.mirror = Showing(rev + 1, W) /\ e.position = start + rev + 1
  OBVIOUS
<1>16. e = [mirror |-> Applied(d.mirror, p),
            position |-> IF Publishes(p) THEN start + p.revision ELSE d.position]
  BY <1>12, <1>13, <1>15, Zenon
<1> HIDE DEF d, e
<1>17. Takes(pub, start, d, p, e)
  <2>1. e.position \in Nat /\ d.position <= e.position /\ e.position <= Len(pub)
    BY <1>15
  <2>2. e.mirror.providers = pub[e.position]
    BY <1>14, <1>15
  <2> QED BY <1>10, <1>11, <1>15, <1>16, <2>1, <2>2, Zenon DEF Takes
<1>18. Leads(pub, start, d, <<p>>, e)
  BY ONLY <1>17, <1>5, LeadsOnce
<1>19. <<p>> \in Seq(Packets)
  BY <1>5
<1> HIDE DEF c, ps
<1>20. Leads(pub, start, c, ps \o <<p>>, e)
  BY ONLY <1>3, <1>4, <1>18, <1>19, LeadsJoin
<1>21. ScenePackets("scene_updated", s, rev + 1) = ps \o <<p>>
  <2>1. ScenePackets("scene_updated", s, rev + 1) = Append(ps, p)
    BY Zenon DEF ScenePackets, ps, p
  <2>2. Append(ps, p) = ps \o <<p>>
    BY ONLY <1>3, <1>5, AppendJoins
  <2> QED BY <2>1, <2>2, Zenon
<1>22. ps \o <<p>> \in Seq(Packets)
  BY <1>3, <1>19
<1> QED BY <1>20, <1>21, <1>22, Zenon DEF c, e

(* So does a removal.                                                      *)
LEMMA RemovalIsTaken ==
    ASSUME NEW rev \in Nat, NEW V, NEW identity \in Identities, NEW W,
           W = {t \in V : t.identity # identity},
           NEW pub, NEW start \in Nat, NEW at \in Nat, at <= start + rev + 1,
           start + rev + 1 <= Len(pub), pub[start + rev + 1] = W
    PROVE  LET p == Packet("scene_removed", rev + 1, identity, None)
           IN  /\ <<p>> \in Seq(Packets)
               /\ Leads(pub, start, [mirror |-> Showing(rev, V), position |-> at], <<p>>,
                        [mirror |-> Showing(rev + 1, W), position |-> start + rev + 1])
<1> DEFINE p == Packet("scene_removed", rev + 1, identity, None)
           m == Showing(rev, V)
           d == [mirror |-> m, position |-> at]
           e == [mirror |-> Showing(rev + 1, W), position |-> start + rev + 1]
<1>1. p \in Packets
  BY DEF Packets, PacketTypes, Packet
<1>2. p.type = "scene_removed" /\ p.revision = rev + 1 /\ p.identity = identity
  BY DEF Packet
<1>3. /\ m = [revision |-> rev, providers |-> V, pending |-> None,
              staged_revision |-> 0, staged |-> {}]
      /\ m.revision = rev /\ m.providers = V /\ m.staged = {} /\ m.staged_revision = 0
  BY DEF Showing
<1> HIDE DEF m, p
<1>4. ~RevisionGap(m, p)
  BY <1>2, <1>3 DEF RevisionGap
<1>5. Accepts(m, p)
  BY <1>2, <1>3, Zenon DEF Accepts, AcceptsRemoval
<1>6. Applied(m, p) = Showing(rev + 1, W)
  <2>1. Applied(m, p) = WithoutProvider(m, p)
    BY <1>2, Zenon DEF Applied
  <2>2. Others(m, p.identity) = W
    BY <1>2, <1>3 DEF Others, Of
  <2>3. WithoutProvider(m, p) = [m EXCEPT !.revision = p.revision,
                                          !.providers = W, !.pending = None]
    BY <2>2, Zenon DEF WithoutProvider
  <2> QED BY <1>2, <1>3, <2>1, <2>3 DEF Showing
<1>7. Publishes(p) /\ start + p.revision = start + rev + 1
  BY <1>2 DEF Publishes
<1>8. Showing(rev + 1, W).providers = W
  BY DEF Showing
<1>9. /\ d.mirror = m /\ d.position = at
      /\ e.mirror = Showing(rev + 1, W) /\ e.position = start + rev + 1
  OBVIOUS
<1>10. e = [mirror |-> Applied(d.mirror, p),
            position |-> IF Publishes(p) THEN start + p.revision ELSE d.position]
  BY <1>6, <1>7, <1>9, Zenon
<1> HIDE DEF d, e
<1>11. Takes(pub, start, d, p, e)
  BY <1>4, <1>5, <1>8, <1>9, <1>10 DEF Takes
<1>12. Leads(pub, start, d, <<p>>, e)
  BY ONLY <1>1, <1>11, LeadsOnce
<1>13. <<p>> \in Seq(Packets)
  BY <1>1
<1> QED BY <1>12, <1>13, Zenon DEF d, e, m, p

(* A mirror m that is receiving the snapshot of a revision, n scenes, and   *)
(* has some of them and some resources.                                     *)
Receiving(rev, n, scenes, held) ==
    [revision |-> rev, expected |-> n, providers |-> scenes, resources |-> held]
Collecting(m, rev, n, scenes, held) ==
    [revision |-> m.revision, providers |-> m.providers,
     pending |-> Receiving(rev, n, scenes, held), staged_revision |-> 0, staged |-> {}]

(* Such a mirror with other resources.                                     *)
LEMMA CollectingMore ==
    ASSUME NEW m, NEW rev, NEW n, NEW scenes, NEW held, NEW more,
           NEW c, c = Collecting(m, rev, n, scenes, held)
    PROVE  [c EXCEPT !.pending.resources = more] = Collecting(m, rev, n, scenes, more)
BY DEF Collecting, Receiving

(* It has a snapshot pending, with what it collected.                      *)
LEMMA CollectingIsPending ==
    ASSUME NEW m, NEW rev \in Nat, NEW n \in Nat, NEW scenes \in SUBSET Scenes,
           NEW held \in SUBSET Holdings
    PROVE  LET c == Collecting(m, rev, n, scenes, held)
           IN  /\ c.pending = Receiving(rev, n, scenes, held) /\ c.pending # None
               /\ c.pending.revision = rev /\ c.pending.expected = n
               /\ c.pending.providers = scenes /\ c.pending.resources = held
               /\ c.providers = m.providers
<1>1. Receiving(rev, n, scenes, held) \in Pending
  BY DEF Receiving, Pending
<1>2. Receiving(rev, n, scenes, held) # None
  BY <1>1, StreamAssumption
<1> QED BY <1>2 DEF Collecting, Receiving

(* What a scene shares is what a mirror can hold.                          *)
LEMMA SharedHolds == \A s \in Scenes : Shared(s) \in SUBSET Holdings
<1> SUFFICES ASSUME NEW s \in Scenes, NEW r \in Present(s.resources)
             PROVE  [identity |-> s.identity, id |-> r, resource |-> s.resources[r]]
                        \in Holdings
  BY DEF Shared
<1>1. s.resources \in ResourceMaps /\ s.identity \in Identities
  BY DEF Scenes
<1>2. r \in ResourceIds /\ s.resources[r] \in Resources
  BY <1>1 DEF ResourceMaps, Present
<1> QED BY <1>1, <1>2 DEF Holdings

(* The resources of the snapshot's next scene are collected one by one.    *)
LEMMA ResourcesAreCollected ==
    ASSUME NEW rev \in Nat, NEW num \in Nat, NEW S \in SUBSET Scenes,
           NEW s \in Scenes, \A part \in SUBSET Shared(s) : HeldFits(part),
           NEW m, NEW pub, NEW start, NEW at \in Nat, at <= Len(pub), Len(pub) \in Nat,
           pub[at] = m.providers
    PROVE  Leads(pub, start, [mirror |-> Collecting(m, rev, num, S, {}), position |-> at],
                 ResourcePackets(s, rev),
                 [mirror |-> Collecting(m, rev, num, S, Shared(s)), position |-> at])
<1> DEFINE ps == ResourcePackets(s, rev)
           n == Len(ps)
           got(i) == Got(ps, i)
           with(held) == Collecting(m, rev, num, S, held)
           ds == [i \in 1..n + 1 |-> [mirror |-> with(got(i - 1)), position |-> at]]
<1>2. /\ ps \in Seq(Packets)
      /\ \A i \in 1..n :
             /\ ps[i].type = "resource_available" /\ ps[i].revision = rev
             /\ ps[i].identity = s.identity
      /\ \A i \in 1..n, j \in 1..n : ps[i].body.id = ps[j].body.id => i = j
      /\ got(n) = Shared(s)
  BY ResourcesGoOut
<1> HIDE DEF ps
<1>3. n \in Nat
  BY <1>2
<1>4. \A i \in Nat : got(0) = {} /\ got(i + 1) = got(i) \cup {Held(ps[i + 1])}
  BY GotMore
<1>5. \A i \in 0..n : got(i) \in SUBSET Shared(s)
  <2> SUFFICES ASSUME NEW i \in 0..n PROVE got(i) \in SUBSET Shared(s)
    OBVIOUS
  <2>1. \A j \in 1..i : j \in 1..n
    BY <1>3
  <2>2. got(i) \subseteq got(n)
    BY <2>1 DEF Got
  <2> QED BY <1>2, <2>2
<1> HIDE DEF n, got
<1>6. ds[1] = [mirror |-> with({}), position |-> at]
  <2>1. 1 \in 1..n + 1 /\ 1 - 1 = 0 /\ got(0) = {}
    BY <1>3, <1>4
  <2>2. ds[1] = [mirror |-> with(got(1 - 1)), position |-> at]
    BY <2>1
  <2> HIDE DEF ds, with
  <2> QED BY <2>1, <2>2
<1>7. ds[n + 1] = [mirror |-> with(Shared(s)), position |-> at]
  <2>1. n + 1 \in 1..n + 1 /\ (n + 1) - 1 = n
    BY <1>3
  <2>2. ds[n + 1] = [mirror |-> with(got((n + 1) - 1)), position |-> at]
    BY <2>1
  <2> HIDE DEF ds, with
  <2> QED BY <1>2, <2>1, <2>2, Zenon
<1>8. ASSUME NEW i \in 1..n
      PROVE  Takes(pub, start, ds[i], ps[i], ds[i + 1])
  <2> DEFINE p == ps[i]
             held == got(i - 1)
             c == with(held)
             more == held \cup {Held(p)}
  <2>1. i - 1 \in Nat /\ (i - 1) + 1 = i /\ i \in 1..n + 1 /\ i + 1 \in 1..n + 1
        /\ (i + 1) - 1 = i /\ i - 1 \in 0..n /\ i \in 0..n
    BY <1>3
  <2>2. got(i) = more
    <3>1. got((i - 1) + 1) = got(i - 1) \cup {Held(ps[(i - 1) + 1])}
      BY <1>4, <2>1
    <3> QED BY <2>1, <3>1, Zenon
  <2>3. /\ ds[i] = [mirror |-> c, position |-> at]
        /\ ds[i + 1] = [mirror |-> with(more), position |-> at]
    <3>1. ds[i] = [mirror |-> c, position |-> at]
      BY <2>1
    <3>2. ds[i + 1] = [mirror |-> with(got((i + 1) - 1)), position |-> at]
      BY <2>1
    <3> HIDE DEF ds, with, more
    <3> QED BY <2>1, <2>2, <3>1, <3>2, Zenon
  <2>4. p.type = "resource_available" /\ p.revision = rev /\ p.identity = s.identity
    BY <1>2
  <2>5. ~Holds(held, p)
    <3> SUFFICES ASSUME NEW h \in held, h.id = p.body.id PROVE FALSE
      BY DEF Holds
    <3>1. PICK j \in 1..i - 1 : h = Held(ps[j])
      BY DEF Got, got
    <3>2. j \in 1..n /\ j # i
      BY <1>3
    <3>3. ps[j].body.id = p.body.id
      BY <3>1 DEF Held
    <3> QED BY <1>2, <3>2, <3>3
  <2>6. held \in SUBSET Shared(s) /\ more \in SUBSET Shared(s) /\ HeldFits(more)
    <3> HIDE DEF more
    <3> QED BY <1>5, <2>1, <2>2
  <2>7. held \in SUBSET Holdings /\ more \in SUBSET Holdings
    <3> HIDE DEF more, held
    <3> QED BY <2>6, SharedHolds
  <2> HIDE DEF p, held, ds
  <2>8. /\ c.pending = Receiving(rev, num, S, held) /\ c.pending # None
        /\ c.pending.revision = rev /\ c.pending.resources = held
    BY <2>7, CollectingIsPending
  <2>9. with(more).providers = m.providers
    BY DEF Collecting
  <2>10. ~RevisionGap(c, p)
    <3> HIDE DEF c
    <3> QED BY <2>4, <2>8 DEF RevisionGap
  <2>11. Accepts(c, p)
    <3> HIDE DEF c
    <3>1. AcceptsResource(c, p)
      BY <2>4, <2>5, <2>6, <2>8, Zenon DEF AcceptsResource, more
    <3> QED BY <2>4, <3>1, Zenon DEF Accepts
  <2>12. Applied(c, p) = with(more)
    <3>1. Applied(c, p) = WithResource(c, p)
      BY <2>4, Zenon DEF Applied
    <3>2. WithResource(c, p) = [c EXCEPT !.pending.resources = @ \cup {Held(p)}]
      BY <2>8, Zenon DEF WithResource
    <3>3. [c EXCEPT !.pending.resources = @ \cup {Held(p)}] = with(more)
      <4> HIDE DEF c, more
      <4>1. c.pending.resources \cup {Held(p)} = more
        BY <2>8 DEF more
      <4>2. [c EXCEPT !.pending.resources = more] = with(more)
        <5>1. c = Collecting(m, rev, num, S, held)
          BY DEF c
        <5>2. [c EXCEPT !.pending.resources = more] = Collecting(m, rev, num, S, more)
          BY ONLY <5>1, CollectingMore
        <5> QED BY <5>2
      <4> QED BY <4>1, <4>2, Zenon
    <3> QED BY <3>1, <3>2, <3>3
  <2>13. ~Publishes(p)
    BY <2>4 DEF Publishes
  <2> DEFINE d == [mirror |-> c, position |-> at]
             e == [mirror |-> with(more), position |-> at]
  <2> HIDE DEF c, with, more
  <2>14. /\ d.mirror = c /\ d.position = at
         /\ e.mirror = with(more) /\ e.position = at
    OBVIOUS
  <2>15. e = [mirror |-> Applied(d.mirror, p),
              position |-> IF Publishes(p) THEN start + p.revision ELSE d.position]
    BY <2>12, <2>13, <2>14, Zenon
  <2> HIDE DEF d, e
  <2>16. Takes(pub, start, d, p, e)
    BY <2>9, <2>10, <2>11, <2>14, <2>15 DEF Takes
  <2> QED BY <2>3, <2>16, Zenon DEF d, e, p
<1>9. \A i \in 1..Len(ps) : Takes(pub, start, ds[i], ps[i], ds[i + 1])
  BY <1>8 DEF n
<1>10. Leads(pub, start, ds[1], ps, ds[n + 1])
  <2> HIDE DEF ds
  <2> QED BY <1>9, Zenon DEF Leads, n
<1> HIDE DEF ds
<1> QED BY <1>6, <1>7, <1>10, Zenon DEF ps

(* What a mirror is made of.                                               *)
IsMirror(m) ==
    m = [revision |-> m.revision, providers |-> m.providers, pending |-> m.pending,
         staged_revision |-> m.staged_revision, staged |-> m.staged]

(* A scene that is complete leaves its resources in the snapshot.          *)
LEMMA CollectingScene ==
    ASSUME NEW m, NEW rev, NEW n, NEW scenes, NEW held, NEW now, NEW rest, NEW p,
           NEW c, c = Collecting(m, rev, n, scenes, held),
           scenes \cup {Attached(p, held)} = now, held \ Of(held, p.identity) = rest
    PROVE  WithProvider(c, p) = Collecting(m, rev, n, now, rest)
<1>1. c.pending = Receiving(rev, n, scenes, held)
      /\ c.pending.providers = scenes /\ c.pending.resources = held
  BY DEF Collecting, Receiving
<1>2. WithProvider(c, p) =
        [c EXCEPT !.pending = [c.pending EXCEPT
                                   !.providers = @ \cup {Attached(p, c.pending.resources)},
                                   !.resources = @ \ Of(@, p.identity)]]
  BY DEF WithProvider
<1>3. [c.pending EXCEPT !.providers = @ \cup {Attached(p, c.pending.resources)},
                        !.resources = @ \ Of(@, p.identity)]
      = [c.pending EXCEPT !.providers = now, !.resources = rest]
  BY <1>1, Zenon
<1>4. [c.pending EXCEPT !.providers = now, !.resources = rest] = Receiving(rev, n, now, rest)
  <2>1. PICK r : r = c.pending
    OBVIOUS
  <2>2. PICK r1 : r1 = [r EXCEPT !.providers = now]
    OBVIOUS
  <2>3. r1 = Receiving(rev, n, now, held)
    BY <1>1, <2>1, <2>2 DEF Receiving
  <2>4. [r1 EXCEPT !.resources = rest] = Receiving(rev, n, now, rest)
    BY <2>3 DEF Receiving
  <2>5. [r EXCEPT !.providers = now, !.resources = rest] = [r1 EXCEPT !.resources = rest]
    BY <2>2
  <2> QED BY <2>1, <2>4, <2>5, Zenon
<1>5. [c EXCEPT !.pending = Receiving(rev, n, now, rest)]
      = Collecting(m, rev, n, now, rest)
  BY DEF Collecting
<1>6. WithProvider(c, p) = [c EXCEPT !.pending = Receiving(rev, n, now, rest)]
  <2> DEFINE q == [c.pending EXCEPT !.providers = @ \cup {Attached(p, c.pending.resources)},
                                    !.resources = @ \ Of(@, p.identity)]
  <2>1. q = Receiving(rev, n, now, rest)
    BY <1>3, <1>4, Zenon
  <2>2. WithProvider(c, p) = [c EXCEPT !.pending = q]
    BY <1>2, Zenon
  <2> HIDE DEF q
  <2> QED BY <2>1, <2>2, Zenon
<1> QED BY <1>5, <1>6, Zenon

(* A scene of the snapshot, after its resources.                           *)
LEMMA ProviderIsTaken ==
    ASSUME NEW rev \in Nat, NEW num \in Nat, NEW S \in SUBSET Scenes,
           IsFiniteSet(S), Cardinality(S) < num,
           NEW s \in PublishableScenes, \A t \in S : t.identity # s.identity,
           \A part \in SUBSET Shared(s) : HeldFits(part),
           NEW m, NEW pub, NEW start, NEW at \in Nat, at <= Len(pub), Len(pub) \in Nat,
           pub[at] = m.providers
    PROVE  /\ ScenePackets("snapshot_provider", s, rev) \in Seq(Packets)
           /\ Leads(pub, start, [mirror |-> Collecting(m, rev, num, S, {}), position |-> at],
                    ScenePackets("snapshot_provider", s, rev),
                    [mirror |-> Collecting(m, rev, num, S \cup {s}, {}), position |-> at])
<1> DEFINE ps == ResourcePackets(s, rev)
           p == Packet("snapshot_provider", rev, s.identity, s.elements)
           held == Shared(s)
           c == Collecting(m, rev, num, S, held)
           more == Collecting(m, rev, num, S \cup {s}, {})
           b == [mirror |-> Collecting(m, rev, num, S, {}), position |-> at]
           d == [mirror |-> c, position |-> at]
           e == [mirror |-> more, position |-> at]
<1>1. s \in Scenes
  BY DEF PublishableScenes
<1>2. ps \in Seq(Packets)
  BY <1>1, ResourcesGoOut
<1>3. Leads(pub, start, b, ps, d)
  BY <1>1, ResourcesAreCollected
<1>4. p \in Packets
  <2>1. s.identity \in Identities /\ s.elements \in ElementMaps
    BY <1>1 DEF Scenes
  <2> QED BY <2>1 DEF Packets, PacketTypes, Packet
<1>5. p.type = "snapshot_provider" /\ p.revision = rev
      /\ p.identity = s.identity /\ p.body = s.elements
  BY DEF Packet
<1>6. /\ CanAttach(p, held) /\ Attached(p, held) = s
      /\ Of(held, s.identity) = held
  BY <1>5, SceneAttaches
<1>7. held \in SUBSET Holdings
  BY <1>1, SharedHolds
<1> HIDE DEF held
<1>8. /\ c.pending = Receiving(rev, num, S, held) /\ c.pending # None
      /\ c.pending.revision = rev /\ c.pending.expected = num
      /\ c.pending.providers = S /\ c.pending.resources = held
      /\ c.providers = m.providers
  BY <1>7, CollectingIsPending
<1>9. more.providers = m.providers
  BY DEF Collecting
<1> HIDE DEF p, ps, c, more, b
<1>10. ~RevisionGap(c, p)
  BY <1>5, <1>8 DEF RevisionGap
<1>11. Accepts(c, p)
  <2>1. Of(S, p.identity) = {}
    BY <1>5 DEF Of
  <2>2. AcceptsProvider(c, p)
    <3>1. Cardinality(c.pending.providers) < c.pending.expected
      BY <1>8
    <3> QED BY <1>5, <1>6, <1>8, <2>1, <3>1, Zenon DEF AcceptsProvider
  <2> QED BY <1>5, <2>2, Zenon DEF Accepts
<1>12. Applied(c, p) = more
  <2>1. Applied(c, p) = WithProvider(c, p)
    BY <1>5, Zenon DEF Applied
  <2>2. S \cup {Attached(p, held)} = S \cup {s} /\ held \ Of(held, p.identity) = {}
    BY <1>5, <1>6
  <2>3. c = Collecting(m, rev, num, S, held)
    BY DEF c
  <2>4. WithProvider(c, p) = Collecting(m, rev, num, S \cup {s}, {})
    BY ONLY <2>2, <2>3, CollectingScene
  <2> QED BY <2>1, <2>4, Zenon DEF more
<1>13. ~Publishes(p)
  BY <1>5 DEF Publishes
<1>14. /\ d.mirror = c /\ d.position = at
       /\ e.mirror = more /\ e.position = at
  OBVIOUS
<1>15. e = [mirror |-> Applied(d.mirror, p),
            position |-> IF Publishes(p) THEN start + p.revision ELSE d.position]
  BY <1>12, <1>13, <1>14, Zenon
<1> HIDE DEF d, e
<1>16. Takes(pub, start, d, p, e)
  BY <1>8, <1>9, <1>10, <1>11, <1>14, <1>15 DEF Takes
<1>17. Leads(pub, start, d, <<p>>, e)
  BY <1>16, LeadsOnce
<1>18. ps \o <<p>> \in Seq(Packets) /\ Append(ps, p) = ps \o <<p>> /\ <<p>> \in Seq(Packets)
  BY <1>2, <1>4, AppendJoins
<1>19. Leads(pub, start, b, ps \o <<p>>, e)
  BY <1>2, <1>3, <1>17, <1>18, LeadsJoin DEF b, d, c, held
<1>20. ScenePackets("snapshot_provider", s, rev) = ps \o <<p>>
  BY <1>18 DEF ScenePackets, p, ps
<1> QED BY <1>18, <1>19, <1>20 DEF b, e, more

(* The packet that announces a snapshot.                                   *)
LEMMA BeginIsTaken ==
    ASSUME NEW rev \in Nat, NEW num \in Nat, num <= MaximumProviders,
           NEW m, IsMirror(m),
           NEW pub, NEW start, NEW at \in Nat, at <= Len(pub), Len(pub) \in Nat,
           pub[at] = m.providers
    PROVE  LET p == Packet("snapshot_begin", rev, None, num)
           IN  /\ <<p>> \in Seq(Packets)
               /\ Leads(pub, start, [mirror |-> m, position |-> at], <<p>>,
                        [mirror |-> Collecting(m, rev, num, {}, {}), position |-> at])
<1> DEFINE p == Packet("snapshot_begin", rev, None, num)
           more == Collecting(m, rev, num, {}, {})
           d == [mirror |-> m, position |-> at]
           e == [mirror |-> more, position |-> at]
<1>1. p \in Packets
  BY DEF Packets, PacketTypes, Packet
<1>2. p.type = "snapshot_begin" /\ p.revision = rev /\ p.body = num
  BY DEF Packet
<1> HIDE DEF p
<1>3. ~RevisionGap(m, p)
  BY <1>2 DEF RevisionGap
<1>4. Accepts(m, p)
  <2>1. AcceptsBegin(p)
    BY <1>2 DEF AcceptsBegin
  <2> QED BY <1>2, <2>1, Zenon DEF Accepts
<1>5. Applied(m, p) = more
  <2>1. Applied(m, p) = Begun(m, p)
    BY <1>2, Zenon DEF Applied
  <2>2. PICK r : r = Receiving(rev, num, {}, {})
    OBVIOUS
  <2>3. Begun(m, p) = [m EXCEPT !.pending = r, !.staged_revision = 0, !.staged = {}]
    BY <1>2, <2>2, Zenon DEF Begun, Receiving
  <2>4. [m EXCEPT !.pending = r, !.staged_revision = 0, !.staged = {}]
        = [revision |-> m.revision, providers |-> m.providers, pending |-> r,
           staged_revision |-> 0, staged |-> {}]
    <3>1. PICK v, w, x, y, z : m = [revision |-> v, providers |-> w, pending |-> x,
                                    staged_revision |-> y, staged |-> z]
      BY DEF IsMirror
    <3>2. m.revision = v /\ m.providers = w
      BY <3>1
    <3>3. PICK m1 : m1 = [m EXCEPT !.pending = r]
      OBVIOUS
    <3>4. PICK m2 : m2 = [m1 EXCEPT !.staged_revision = 0]
      OBVIOUS
    <3>5. m1 = [revision |-> v, providers |-> w, pending |-> r,
                staged_revision |-> y, staged |-> z]
      BY ONLY <3>1, <3>3
    <3>6. m2 = [revision |-> v, providers |-> w, pending |-> r,
                staged_revision |-> 0, staged |-> z]
      BY ONLY <3>4, <3>5
    <3>7. [m2 EXCEPT !.staged = {}]
          = [revision |-> v, providers |-> w, pending |-> r,
             staged_revision |-> 0, staged |-> {}]
      BY ONLY <3>6
    <3>8. [m EXCEPT !.pending = r, !.staged_revision = 0, !.staged = {}]
          = [m2 EXCEPT !.staged = {}]
      BY ONLY <3>1, <3>3, <3>4
    <3> QED BY ONLY <3>2, <3>7, <3>8
  <2> QED BY <2>1, <2>2, <2>3, <2>4, Zenon DEF Collecting
<1>6. ~Publishes(p)
  BY <1>2 DEF Publishes
<1>7. more.providers = m.providers
  BY DEF Collecting
<1> HIDE DEF more
<1>8. /\ d.mirror = m /\ d.position = at
      /\ e.mirror = more /\ e.position = at
  OBVIOUS
<1>9. e = [mirror |-> Applied(d.mirror, p),
           position |-> IF Publishes(p) THEN start + p.revision ELSE d.position]
  BY <1>5, <1>6, <1>8, Zenon
<1> HIDE DEF d, e
<1>10. Takes(pub, start, d, p, e)
  BY <1>3, <1>4, <1>7, <1>8, <1>9 DEF Takes
<1>11. Leads(pub, start, d, <<p>>, e)
  BY ONLY <1>1, <1>10, LeadsOnce
<1>12. <<p>> \in Seq(Packets)
  BY <1>1
<1> QED BY <1>11, <1>12, Zenon DEF d, e, p, more

(* The packet that ends it, after all its scenes.                          *)
LEMMA EndIsTaken ==
    ASSUME NEW rev \in Nat, NEW num \in Nat, NEW V \in SUBSET Scenes, Cardinality(V) = num,
           ScenesFit(V), NEW m,
           NEW pub, NEW start \in Nat, NEW at \in Nat, at <= start + rev,
           Len(pub) \in Nat, start + rev <= Len(pub), pub[start + rev] = V
    PROVE  LET p == Packet("snapshot_end", rev, None, None)
           IN  /\ <<p>> \in Seq(Packets)
               /\ Leads(pub, start, [mirror |-> Collecting(m, rev, num, V, {}), position |-> at],
                        <<p>>, [mirror |-> Showing(rev, V), position |-> start + rev])
<1> DEFINE p == Packet("snapshot_end", rev, None, None)
           c == Collecting(m, rev, num, V, {})
           d == [mirror |-> c, position |-> at]
           e == [mirror |-> Showing(rev, V), position |-> start + rev]
<1>1. p \in Packets
  BY DEF Packets, PacketTypes, Packet
<1>2. p.type = "snapshot_end" /\ p.revision = rev
  BY DEF Packet
<1>3. /\ c.pending # None /\ c.pending.revision = rev /\ c.pending.expected = num
      /\ c.pending.providers = V /\ c.pending.resources = {}
  <2>1. {} \in SUBSET Holdings
    OBVIOUS
  <2>2. Receiving(rev, num, V, {}) \in Pending
    BY <2>1 DEF Receiving, Pending
  <2>3. Receiving(rev, num, V, {}) # None
    BY <2>2, StreamAssumption
  <2> QED BY <2>3 DEF Collecting, Receiving
<1> HIDE DEF p, c
<1>4. ~RevisionGap(c, p)
  BY <1>2 DEF RevisionGap
<1>5. Accepts(c, p)
  <2>1. AcceptsEnd(c, p)
    BY <1>2, <1>3, Zenon DEF AcceptsEnd
  <2> QED BY <1>2, <2>1, Zenon DEF Accepts
<1>6. Applied(c, p) = Showing(rev, V)
  <2>1. Applied(c, p) = Ended(c, p)
    BY <1>2, Zenon DEF Applied
  <2>2. Ended(c, p) = [c EXCEPT !.revision = rev, !.providers = V, !.pending = None]
    BY <1>2, <1>3, Zenon DEF Ended
  <2>3. PICK v, w, x, y, z : /\ c = [revision |-> v, providers |-> w, pending |-> x,
                                     staged_revision |-> y, staged |-> z]
                             /\ y = 0 /\ z = {}
    BY DEF c, Collecting
  <2>4. [c EXCEPT !.revision = rev, !.providers = V, !.pending = None] = Showing(rev, V)
    <3>1. PICK m1 : m1 = [c EXCEPT !.revision = rev]
      OBVIOUS
    <3>2. PICK m2 : m2 = [m1 EXCEPT !.providers = V]
      OBVIOUS
    <3>3. m1 = [revision |-> rev, providers |-> w, pending |-> x,
                staged_revision |-> y, staged |-> z]
      BY ONLY <2>3, <3>1
    <3>4. m2 = [revision |-> rev, providers |-> V, pending |-> x,
                staged_revision |-> y, staged |-> z]
      BY ONLY <3>2, <3>3
    <3>5. [m2 EXCEPT !.pending = None]
          = [revision |-> rev, providers |-> V, pending |-> None,
             staged_revision |-> y, staged |-> z]
      BY ONLY <3>4
    <3>6. [c EXCEPT !.revision = rev, !.providers = V, !.pending = None]
          = [m2 EXCEPT !.pending = None]
      BY ONLY <2>3, <3>1, <3>2
    <3> QED BY <2>3, <3>5, <3>6, Zenon DEF Showing
  <2> QED BY <2>1, <2>2, <2>4, Zenon
<1>7. Publishes(p) /\ start + p.revision = start + rev
  BY <1>2 DEF Publishes
<1>8. Showing(rev, V).providers = V
  BY DEF Showing
<1>9. /\ d.mirror = c /\ d.position = at
      /\ e.mirror = Showing(rev, V) /\ e.position = start + rev
  OBVIOUS
<1>10. e = [mirror |-> Applied(d.mirror, p),
            position |-> IF Publishes(p) THEN start + p.revision ELSE d.position]
  BY <1>6, <1>7, <1>9, Zenon
<1> HIDE DEF d, e
<1>11. Takes(pub, start, d, p, e)
  <2>1. e.position \in Nat /\ d.position <= e.position /\ e.position <= Len(pub)
    BY <1>9
  <2>2. e.mirror.providers = pub[e.position]
    BY <1>8, <1>9
  <2> QED BY <1>4, <1>5, <1>9, <1>10, <2>1, <2>2, Zenon DEF Takes
<1>12. Leads(pub, start, d, <<p>>, e)
  BY ONLY <1>1, <1>11, LeadsOnce
<1>13. <<p>> \in Seq(Packets)
  BY <1>1
<1> QED BY <1>12, <1>13, Zenon DEF d, e, p, c

(* The scenes of the snapshot in between.                                  *)
LEMMA ProvidersAreTaken ==
    ASSUME NEW rev \in Nat, NEW V \in SUBSET PublishableScenes, IsFiniteSet(V), ScenesFit(V),
           \A s, t \in V : s.identity = t.identity => s = t,
           NEW L, Enumerates(L, V), NEW m,
           NEW pub, NEW start, NEW at \in Nat, at <= Len(pub), Len(pub) \in Nat,
           pub[at] = m.providers
    PROVE  LET num == Cardinality(V)
               all == FlattenSeq([i \in DOMAIN L |->
                                     ScenePackets("snapshot_provider", L[i], rev)])
           IN  /\ all \in Seq(Packets)
               /\ Leads(pub, start, [mirror |-> Collecting(m, rev, num, {}, {}), position |-> at],
                        all, [mirror |-> Collecting(m, rev, num, V, {}), position |-> at])
<1> DEFINE num == Cardinality(V)
           seqs == [i \in DOMAIN L |-> ScenePackets("snapshot_provider", L[i], rev)]
           done(k) == {L[j] : j \in 1..k}
           with(S) == [mirror |-> Collecting(m, rev, num, S, {}), position |-> at]
           ds == [k \in 1..num + 1 |-> with(done(k - 1))]
<1>1. num \in Nat
  BY FS_CardinalityType
<1>2. /\ DOMAIN L = 1..num /\ \A i \in 1..num : L[i] \in V
      /\ \A i, j \in 1..num : L[i] = L[j] => i = j
      /\ \A s \in V : \E i \in 1..num : L[i] = s
  BY DEF Enumerates
<1>3. ASSUME NEW i \in 1..num
      PROVE  /\ ScenePackets("snapshot_provider", L[i], rev) \in Seq(Packets)
             /\ Leads(pub, start, with(done(i - 1)),
                      ScenePackets("snapshot_provider", L[i], rev), with(done(i)))
  <2> DEFINE S == done(i - 1)
             s == L[i]
  <2>1. S \in SUBSET (V \ {s})
    <3> SUFFICES ASSUME NEW j \in 1..i - 1 PROVE L[j] \in V \ {s}
      OBVIOUS
    <3>1. j \in 1..num /\ j # i
      BY <1>1
    <3> QED BY <1>2, <3>1
  <2>2. s \in V /\ s \in PublishableScenes
    BY <1>2
  <2>3. done(i) = S \cup {s}
    <3>1. 1..i = (1..i - 1) \cup {i}
      BY <1>1
    <3> QED BY <3>1
  <2> HIDE DEF S, s
  <2>4. IsFiniteSet(V \ {s}) /\ Cardinality(V \ {s}) = num - 1
    BY <2>2, FS_RemoveElement
  <2> HIDE DEF num, with
  <2>5. IsFiniteSet(S) /\ Cardinality(S) <= num - 1 /\ Cardinality(S) \in Nat
    BY <2>1, <2>4, FS_Subset, FS_CardinalityType
  <2>6. Cardinality(S) < num
    BY <1>1, <2>5
  <2>7. \A t \in S : t.identity # s.identity
    BY <2>1, <2>2
  <2>8. V \in SUBSET Scenes
    BY DEF PublishableScenes
  <2>9. \A part \in SUBSET Shared(s) : HeldFits(part)
    BY <2>2, <2>8, SharedFits
  <2>10. S \in SUBSET Scenes
    BY <2>1, <2>8
  <2>11. /\ ScenePackets("snapshot_provider", s, rev) \in Seq(Packets)
         /\ Leads(pub, start, [mirror |-> Collecting(m, rev, num, S, {}), position |-> at],
                  ScenePackets("snapshot_provider", s, rev),
                  [mirror |-> Collecting(m, rev, num, S \cup {s}, {}), position |-> at])
    BY <1>1, <2>2, <2>5, <2>6, <2>7, <2>9, <2>10, ProviderIsTaken
  <2> QED BY <2>3, <2>11, Zenon DEF S, s, with
<1>4. done(0) = {} /\ done(num) = V
  BY <1>1, <1>2
<1> HIDE DEF with, done, num
<1>5. seqs \in Seq(Seq(Packets)) /\ Len(seqs) = num
  BY <1>1, <1>2, <1>3
<1>6. \A i \in 1..num + 1 : ds[i] = with(done(i - 1))
  OBVIOUS
<1>7. \A i \in 1..num : seqs[i] = ScenePackets("snapshot_provider", L[i], rev)
  BY <1>2
<1> HIDE DEF seqs, ds
<1>8. ASSUME NEW i \in 1..Len(seqs)
      PROVE  Leads(pub, start, ds[i], seqs[i], ds[i + 1])
  <2>1. i \in 1..num /\ i \in 1..num + 1 /\ i + 1 \in 1..num + 1 /\ (i + 1) - 1 = i
    BY <1>1, <1>5
  <2>2. ds[i] = with(done(i - 1)) /\ ds[i + 1] = with(done((i + 1) - 1))
    BY <1>6, <2>1
  <2> QED BY <1>3, <1>7, <2>1, <2>2, Zenon
<1>9. /\ FlattenSeq(seqs) \in Seq(Packets)
      /\ Leads(pub, start, ds[1], FlattenSeq(seqs), ds[Len(seqs) + 1])
  BY <1>5, <1>8, LeadsThrough
<1>10. ds[1] = with({}) /\ ds[Len(seqs) + 1] = with(V)
  <2>1. 1 \in 1..num + 1 /\ num + 1 \in 1..num + 1 /\ 1 - 1 = 0 /\ (num + 1) - 1 = num
    BY <1>1
  <2>2. ds[1] = with(done(1 - 1)) /\ ds[num + 1] = with(done((num + 1) - 1))
    BY <1>6, <2>1
  <2> QED BY <1>4, <1>5, <2>1, <2>2, Zenon
<1> QED BY <1>9, <1>10, Zenon DEF seqs, with, num

(* The whole snapshot, from whatever the mirror has.                       *)
LEMMA SnapshotIsTaken ==
    ASSUME NEW rev \in Nat, NEW V \in SUBSET PublishableScenes, IsFiniteSet(V), ScenesFit(V),
           Cardinality(V) <= MaximumProviders,
           \A s, t \in V : s.identity = t.identity => s = t,
           NEW L, Enumerates(L, V), NEW m, IsMirror(m),
           NEW pub, NEW start \in Nat, NEW at \in Nat, Len(pub) \in Nat,
           at <= start + rev, start + rev <= Len(pub),
           pub[at] = m.providers, pub[start + rev] = V
    PROVE  LET packets == SnapshotPackets([revision |-> rev, providers |-> L])
           IN  /\ packets \in Seq(Packets)
               /\ Leads(pub, start, [mirror |-> m, position |-> at], packets,
                        [mirror |-> Showing(rev, V), position |-> start + rev])
<1> DEFINE num == Cardinality(V)
           b == <<Packet("snapshot_begin", rev, None, num)>>
           all == FlattenSeq([i \in DOMAIN L |->
                                 ScenePackets("snapshot_provider", L[i], rev)])
           e == <<Packet("snapshot_end", rev, None, None)>>
           d1 == [mirror |-> m, position |-> at]
           d2 == [mirror |-> Collecting(m, rev, num, {}, {}), position |-> at]
           d3 == [mirror |-> Collecting(m, rev, num, V, {}), position |-> at]
           d4 == [mirror |-> Showing(rev, V), position |-> start + rev]
<1>1. num \in Nat /\ at <= Len(pub) /\ V \in SUBSET Scenes
  BY FS_CardinalityType DEF PublishableScenes
<1>2. b \in Seq(Packets) /\ Leads(pub, start, d1, b, d2)
  BY <1>1, BeginIsTaken
<1>3. all \in Seq(Packets) /\ Leads(pub, start, d2, all, d3)
  <2> QED
    BY ONLY <1>1, rev \in Nat, V \in SUBSET PublishableScenes, IsFiniteSet(V), ScenesFit(V),
       \A s, t \in V : s.identity = t.identity => s = t, Enumerates(L, V),
       at \in Nat, Len(pub) \in Nat, pub[at] = m.providers, ProvidersAreTaken
<1>4. e \in Seq(Packets) /\ Leads(pub, start, d3, e, d4)
  BY <1>1, EndIsTaken
<1>5. Len(L) = num
  BY <1>1 DEF Enumerates
<1>6. SnapshotPackets([revision |-> rev, providers |-> L]) = b \o all \o e
  BY <1>5, Zenon DEF SnapshotPackets
<1> HIDE DEF b, all, e, d1, d2, d3, d4
<1>7. b \o all \in Seq(Packets) /\ b \o all \o e \in Seq(Packets)
  BY <1>2, <1>3, <1>4
<1>8. Leads(pub, start, d1, b \o all, d3)
  BY ONLY <1>2, <1>3, LeadsJoin
<1>9. Leads(pub, start, d1, b \o all \o e, d4)
  BY ONLY <1>4, <1>7, <1>8, LeadsJoin
<1> QED BY <1>6, <1>7, <1>9, Zenon DEF d1, d4

-----------------------------------------------------------------------------
(* The scenes the broker publishes, and the changes it retains.            *)

(* What every set of scenes in the published history is.                   *)
Sound(scenes) ==
    /\ scenes \in SUBSET PublishableScenes
    /\ IsFiniteSet(scenes) /\ Cardinality(scenes) <= MaximumProviders
    /\ ScenesFit(scenes)
    /\ \A s, t \in scenes : s.identity = t.identity => s = t

AllSound(pub) == \A i \in 1..Len(pub) : Sound(pub[i])

(* What a change says of the scenes before it and after it.                *)
Tells(change, before, after) ==
    \/ change.kind = "reset"
    \/ /\ change.kind = "upsert"
       /\ change.provider \in PublishableScenes
       /\ after = {t \in before : t.identity # change.provider.identity} \cup {change.provider}
    \/ /\ change.kind = "remove_provider"
       /\ change.identity \in Identities
       /\ after = {t \in before : t.identity # change.identity}

(* The retained changes tell the end of the history, one revision each.    *)
(* "start" is where the broker's run begins in the history "pub".          *)
Retells(pub, start, kept, rev) ==
    LET first == rev - Len(kept)
    IN  /\ kept \in Seq(ChangeRecords) /\ Len(kept) <= rev
        /\ \A i \in 1..Len(kept) :
               /\ kept[i].revision = first + i
               /\ Tells(kept[i], pub[start + first + i - 1], pub[start + first + i])

FeedInv ==
    /\ published \in Seq(SUBSET PublishableScenes)
    /\ AllSound(published)
    /\ run_start \in Nat \ {0} /\ revision \in Nat
    /\ Len(published) = run_start + revision
    /\ published[Len(published)] = visible
    /\ \A a \in ApplicationsOf(visible) : order[a] \in Int
    /\ Retells(published, run_start, changes, revision)

(* The mirror and the connection.                                          *)
MirrorInv ==
    /\ IsMirror(mirror)
    /\ position \in Nat \ {0} /\ position <= Len(published)
    /\ mirror.providers = published[position]
    /\ stream_start \in Nat \ {0}

SessionInv ==
    /\ channel \in Seq(Packets)
    /\ session # None =>
           /\ session \in Sessions
           /\ client = "connected"
           /\ stream_start = run_start
           /\ session.behind => session.outgoing = <<>>
           /\ session.subscribed => session.revision <= revision
           /\ ~session.subscribed =>
                  channel = <<>> /\ session.outgoing = <<>> /\ ~session.behind

(* What the mirror shows now, and what it shows when it has received all.  *)
Display == [mirror |-> mirror, position |-> position]
Target ==
    [mirror |-> Showing(session.revision, published[run_start + session.revision]),
     position |-> run_start + session.revision]

PipeInv ==
    /\ \E e : Leads(published, stream_start, Display, channel, e)
    /\ session # None /\ session.subscribed =>
           Leads(published, stream_start, Display, channel \o session.outgoing, Target)

StreamInv == FeedInv /\ MirrorInv /\ SessionInv /\ PipeInv

-----------------------------------------------------------------------------
(* The changes a session is told of.                                       *)

(* "new" is what is retained above the revision "known", and misses none.  *)
Continues(new, kept, known, rev) ==
    LET first == rev - Len(kept)
    IN  /\ first <= known
        /\ DOMAIN new = 1..rev - known
        /\ \A k \in 1..rev - known : /\ new[k] = kept[(known - first) + k]
                                     /\ new[k].revision = known + k

(* The changes above a revision that some retained change follows at once. *)
LEMMA NewerChanges ==
    ASSUME NEW pub, NEW start, NEW rev \in Nat, NEW known \in Nat, known < rev,
           NEW kept, Retells(pub, start, kept, rev),
           kept # <<>>, ~(known + 1 < Head(kept).revision)
    PROVE  Continues(Newer(kept, known), kept, known, rev)
<1>1. PICK n : n = Len(kept)
  OBVIOUS
<1>2. /\ kept \in Seq(ChangeRecords) /\ n \in Nat /\ n <= rev /\ n # 0 /\ DOMAIN kept = 1..n
      /\ \A i \in 1..n : kept[i].revision = (rev - n) + i
  <2>1. kept \in Seq(ChangeRecords) /\ n <= rev
        /\ \A i \in 1..n : kept[i].revision = (rev - n) + i
    BY <1>1, Zenon DEF Retells
  <2> QED BY <1>1, <2>1
<1>3. rev - n <= known
  <2>1. 1 \in 1..n /\ Head(kept) = kept[1]
    BY <1>2
  <2>2. kept[1].revision = (rev - n) + 1
    BY <1>2, <2>1, Zenon
  <2>3. ~(known + 1 < (rev - n) + 1)
    BY <2>1, <2>2, Zenon
  <2> QED BY <1>2, <2>3
<1> DEFINE a == known - (rev - n)
           S == {i \in DOMAIN kept : kept[i].revision > known}
           at == Ascending(S)
           new == Newer(kept, known)
<1>4. a \in Nat /\ a <= n /\ n - a = rev - known
  BY <1>2, <1>3
<1>5. S = a + 1..n
  <2>1. \A i \in 1..n : i \in S <=> i \in a + 1..n
    BY <1>4, <1>2
  <2>2. \A i \in a + 1..n : i \in 1..n
    BY <1>4, <1>2
  <2>3. \A i \in S : i \in 1..n
    BY <1>2
  <2> QED BY <2>1, <2>2, <2>3
<1>6. DOMAIN at = 1..rev - known /\ \A k \in 1..rev - known : at[k] = a + k
  <2>1. DOMAIN Ascending(a + 1..n) = 1..n - a
        /\ \A k \in 1..n - a : Ascending(a + 1..n)[k] = a + k
    BY <1>4, <1>2, IntervalInOrder
  <2> HIDE DEF a, S
  <2> QED BY <1>4, <1>5, <2>1
<1>7. new = [k \in DOMAIN at |-> kept[at[k]]]
  BY Zenon DEF Newer
<1> HIDE DEF at, new
<1>8. DOMAIN new = 1..rev - known /\ \A k \in 1..rev - known : new[k] = kept[a + k]
  BY <1>6, <1>7
<1>9. ASSUME NEW k \in 1..rev - known
      PROVE  new[k].revision = known + k
  <2>1. a + k \in 1..n /\ (rev - n) + (a + k) = known + k
    BY <1>4, <1>2
  <2>2. kept[a + k].revision = (rev - n) + (a + k)
    <3> HIDE DEF a
    <3> QED BY <1>2, <2>1, Zenon
  <2> QED BY <1>8, <2>1, <2>2
<1> QED BY <1>1, <1>3, <1>8, <1>9, Zenon DEF new, a, Continues

(* The packets of one change.                                              *)
LEMMA ChangeIsTaken ==
    ASSUME NEW pub, NEW start \in Nat \ {0}, NEW known \in Nat,
           Len(pub) \in Nat, start + known + 1 <= Len(pub),
           Sound(pub[start + known]), Sound(pub[start + known + 1]),
           NEW change, change.revision = known + 1, change.kind # "reset",
           Tells(change, pub[start + known], pub[start + known + 1])
    PROVE  /\ ChangePackets(change) \in Seq(Packets)
           /\ Leads(pub, start,
                    [mirror |-> Showing(known, pub[start + known]),
                     position |-> start + known],
                    ChangePackets(change),
                    [mirror |-> Showing(known + 1, pub[start + known + 1]),
                     position |-> start + known + 1])
<1> DEFINE V == pub[start + known]
           W == pub[start + known + 1]
           at == start + known
<1>1. W \in SUBSET Scenes /\ IsFiniteSet(W) /\ ScenesFit(W)
  BY DEF Sound, PublishableScenes
<1>2. at \in Nat /\ at <= start + known + 1
  OBVIOUS
<1>3. CASE change.kind = "upsert"
  <2> DEFINE s == change.provider
  <2>1. s \in PublishableScenes /\ W = {t \in V : t.identity # s.identity} \cup {s}
    BY <1>3 DEF Tells
  <2>2. ChangePackets(change) = ScenePackets("scene_updated", s, known + 1)
    BY <1>3, Zenon DEF ChangePackets
  <2> HIDE DEF s, W
  <2>3. /\ ScenePackets("scene_updated", s, known + 1) \in Seq(Packets)
        /\ Leads(pub, start, [mirror |-> Showing(known, V), position |-> at],
                 ScenePackets("scene_updated", s, known + 1),
                 [mirror |-> Showing(known + 1, W), position |-> start + known + 1])
    BY <1>1, <1>2, <2>1, UpdateIsTaken DEF W
  <2> QED BY <2>2, <2>3, Zenon DEF W
<1>4. CASE change.kind = "remove_provider"
  <2> DEFINE identity == change.identity
  <2>1. identity \in Identities /\ W = {t \in V : t.identity # identity}
    BY <1>4 DEF Tells
  <2>2. ChangePackets(change) = <<Packet("scene_removed", known + 1, identity, None)>>
    <3>1. change.kind # "upsert"
      BY <1>4
    <3> QED BY <3>1, Zenon DEF ChangePackets
  <2> HIDE DEF identity, W
  <2> DEFINE p == Packet("scene_removed", known + 1, identity, None)
  <2>3. /\ <<p>> \in Seq(Packets)
        /\ Leads(pub, start, [mirror |-> Showing(known, V), position |-> at], <<p>>,
                 [mirror |-> Showing(known + 1, W), position |-> start + known + 1])
    BY <1>1, <1>2, <2>1, RemovalIsTaken DEF W
  <2> QED BY <2>2, <2>3, Zenon DEF W
<1> QED BY <1>3, <1>4 DEF Tells

(* The packets of a batch of changes, which must be no resets.             *)
BatchPackets(batch) == FlattenSeq([i \in DOMAIN batch |-> ChangePackets(batch[i])])
HasReset(batch) == \E i \in DOMAIN batch : batch[i].kind = "reset"

(* All the changes after the one a mirror shows take it to the last one.   *)
LEMMA ChangesAreTaken ==
    ASSUME NEW pub, NEW start \in Nat \ {0}, NEW rev \in Nat, NEW known \in Nat, known < rev,
           Len(pub) \in Nat, start + rev <= Len(pub), AllSound(pub),
           NEW kept, Retells(pub, start, kept, rev),
           ~FeedAfter(kept, rev, known).history_gap,
           NEW batch, batch = FeedAfter(kept, rev, known).changes,
           ~HasReset(batch)
    PROVE  /\ Last(batch).revision = rev
           /\ BatchPackets(batch) \in Seq(Packets)
           /\ Leads(pub, start,
                    [mirror |-> Showing(known, pub[start + known]),
                     position |-> start + known],
                    BatchPackets(batch),
                    [mirror |-> Showing(rev, pub[start + rev]), position |-> start + rev])
<1>1. PICK n : n = Len(kept)
  OBVIOUS
<1> DEFINE first == rev - n
           num == rev - known
           to(k) == [mirror |-> Showing(k, pub[start + k]), position |-> start + k]
           seqs == [i \in DOMAIN batch |-> ChangePackets(batch[i])]
           ds == [k \in 1..num + 1 |-> to(known + k - 1)]
<1>2. /\ DOMAIN kept = 1..n /\ n \in Nat /\ n <= rev
      /\ \A i \in 1..n : /\ kept[i].revision = first + i
                         /\ Tells(kept[i], pub[start + first + i - 1], pub[start + first + i])
  <2>1. /\ kept \in Seq(ChangeRecords) /\ n <= rev
        /\ \A i \in 1..n : /\ kept[i].revision = first + i
                           /\ Tells(kept[i], pub[start + first + i - 1], pub[start + first + i])
    BY <1>1, Zenon DEF Retells
  <2> QED BY <1>1, <2>1
<1>3. /\ kept # <<>> /\ ~(known + 1 < Head(kept).revision)
      /\ batch = Newer(kept, known)
  <2>1. ~(known >= rev)
    OBVIOUS
  <2>2. CASE kept = <<>> \/ known + 1 < Head(kept).revision
    <3>1. FeedAfter(kept, rev, known) = [history_gap |-> TRUE, changes |-> <<>>]
      BY <2>1, <2>2, Zenon DEF FeedAfter
    <3> QED BY <3>1
  <2>3. CASE ~(kept = <<>> \/ known + 1 < Head(kept).revision)
    <3>1. FeedAfter(kept, rev, known)
              = [history_gap |-> FALSE, changes |-> Newer(kept, known)]
      BY <2>1, <2>3, Zenon DEF FeedAfter
    <3> QED BY <2>3, <3>1
  <2> QED BY <2>2, <2>3
<1>4. Continues(batch, kept, known, rev)
  <2>1. Continues(Newer(kept, known), kept, known, rev)
    BY <1>3, NewerChanges
  <2> QED BY <1>3, <2>1, Zenon
<1>5. /\ first <= known
      /\ DOMAIN batch = 1..num
      /\ \A k \in 1..num : /\ batch[k] = kept[(known - first) + k]
                           /\ batch[k].revision = known + k
  BY <1>1, <1>4, Zenon DEF Continues
<1>6. num \in Nat /\ num >= 1
  OBVIOUS
<1>7. ASSUME NEW k \in 1..num
      PROVE  /\ ChangePackets(batch[k]) \in Seq(Packets)
             /\ Leads(pub, start, to(known + k - 1), ChangePackets(batch[k]), to(known + k))
  <2> DEFINE i == (known - first) + k
             now == known + k - 1
             change == batch[k]
  <2>1. i \in 1..n /\ first + i - 1 = now /\ first + i = now + 1
        /\ now \in Nat /\ now + 1 = known + k
        /\ start + first + i - 1 = start + now /\ start + first + i = start + now + 1
        /\ start + now + 1 <= Len(pub) /\ start + now \in 1..Len(pub)
        /\ start + now + 1 \in 1..Len(pub)
    <3>1. n \in Nat /\ n <= rev /\ rev - n <= known /\ k \in 1..rev - known
      BY <1>2, <1>5
    <3>2. PICK last : last = Len(pub)
      OBVIOUS
    <3>3. last \in Nat /\ start + rev <= last
      BY <3>2
    <3> QED BY ONLY <3>1, <3>2, <3>3, start \in Nat \ {0}, rev \in Nat, known \in Nat, known < rev
  <2>2. change = kept[i] /\ change.revision = now + 1 /\ change.kind # "reset"
    BY <1>5, <2>1 DEF HasReset
  <2>3. Tells(change, pub[start + now], pub[start + now + 1])
    <3>1. Tells(kept[i], pub[start + first + i - 1], pub[start + first + i])
      BY <1>2, <2>1
    <3> HIDE DEF i, now, change
    <3> QED BY <2>1, <2>2, <3>1, Zenon
  <2>4. Sound(pub[start + now]) /\ Sound(pub[start + now + 1])
    BY <2>1 DEF AllSound
  <2>5. to(now + 1) = to(known + k)
    BY <2>1
  <2> HIDE DEF now, change, i
  <2>6. /\ ChangePackets(change) \in Seq(Packets)
        /\ Leads(pub, start, [mirror |-> Showing(now, pub[start + now]),
                              position |-> start + now],
                 ChangePackets(change),
                 [mirror |-> Showing(now + 1, pub[start + now + 1]),
                  position |-> start + now + 1])
    BY <2>1, <2>2, <2>3, <2>4, ChangeIsTaken
  <2>7. to(now + 1) = [mirror |-> Showing(now + 1, pub[start + now + 1]),
                       position |-> start + now + 1]
    BY <2>1
  <2> QED BY <2>5, <2>6, <2>7, Zenon DEF change, now
<1>8. seqs \in Seq(Seq(Packets)) /\ Len(seqs) = num
      /\ \A k \in 1..num : seqs[k] = ChangePackets(batch[k])
  <2>1. \A k \in 1..num : ChangePackets(batch[k]) \in Seq(Packets)
    BY <1>7
  <2>2. DOMAIN batch = 1..num
    BY <1>5
  <2> HIDE DEF num
  <2>3. seqs = [k \in 1..num |-> ChangePackets(batch[k])]
    BY <2>2, Zenon
  <2> HIDE DEF seqs
  <2> QED BY ONLY <1>6, <2>1, <2>3
<1>9. \A k \in 1..num + 1 : ds[k] = to(known + k - 1)
  OBVIOUS
<1>10. Last(batch).revision = rev
  <2>1. Len(batch) = num
    <3> HIDE DEF num
    <3> QED BY ONLY <1>5, <1>6
  <2>2. batch[num].revision = known + num /\ known + num = rev
    BY <1>5, <1>6
  <2> QED BY <2>1, <2>2 DEF Last
<1> HIDE DEF seqs, ds, num, to
<1>11. ASSUME NEW k \in 1..Len(seqs)
       PROVE  Leads(pub, start, ds[k], seqs[k], ds[k + 1])
  <2>1. k \in 1..num /\ k \in 1..num + 1 /\ k + 1 \in 1..num + 1
        /\ known + (k + 1) - 1 = known + k
    BY <1>6, <1>8
  <2>2. ds[k] = to(known + k - 1) /\ ds[k + 1] = to(known + (k + 1) - 1)
    BY <1>9, <2>1
  <2> QED BY <1>7, <1>8, <2>1, <2>2, Zenon
<1>12. /\ FlattenSeq(seqs) \in Seq(Packets)
       /\ Leads(pub, start, ds[1], FlattenSeq(seqs), ds[Len(seqs) + 1])
  BY <1>8, <1>11, LeadsThrough
<1>13. ds[1] = to(known) /\ ds[Len(seqs) + 1] = to(rev)
  <2>1. 1 \in 1..num + 1 /\ num + 1 \in 1..num + 1
        /\ known + 1 - 1 = known /\ known + (num + 1) - 1 = rev
    BY <1>6 DEF num
  <2>2. ds[1] = to(known + 1 - 1) /\ ds[num + 1] = to(known + (num + 1) - 1)
    BY <1>9, <2>1
  <2> QED BY <1>8, <2>1, <2>2, Zenon
<1> QED BY <1>10, <1>12, <1>13, Zenon DEF seqs, to, BatchPackets

-----------------------------------------------------------------------------
(* The store's steps.                                                      *)

(* No scenes are within every limit.                                       *)
LEMMA NothingIsSound == Sound({})
<1>1. \A p : HeldBytes({}, p) = 0
  <2> TAKE p
  <2>1. HeldBytes({}, p) = Total([h \in {} |-> h.resource.bytes[p]], {})
    <3> DEFINE f == [h \in {} |-> h.resource.bytes[p]]
    <3>1. f = [x \in {} |-> f[x]]
      OBVIOUS
    <3> HIDE DEF f
    <3>2. Total(f, {}) = SumFunction(f)
      BY <3>1, Zenon DEF Total
    <3> QED BY <3>2, Zenon DEF HeldBytes, f
  <2> QED BY <2>1, SumOfNone, Zenon
<1>2. \A p \in Planes : 0 <= MaximumGlobalBytes[p]
  BY SceneAssumption
<1>3. HeldFits({})
  BY <1>1, <1>2 DEF HeldFits
<1>4. ScenesFit({})
  BY <1>3, Zenon DEF ScenesFit
<1>5. IsFiniteSet({}) /\ Cardinality({}) <= MaximumProviders
  BY FS_EmptySet, SceneAssumption
<1> QED BY <1>4, <1>5 DEF Sound

(* What a set becomes when a change is recorded behind the others.         *)
LEMMA RetellsMore ==
    ASSUME NEW T, NEW pub \in Seq(T), NEW W \in T, NEW start \in Nat \ {0}, NEW rev \in Nat,
           Len(pub) = start + rev, NEW kept, Retells(pub, start, kept, rev),
           NEW c \in ChangeRecords, c.revision = rev + 1, Tells(c, pub[start + rev], W)
    PROVE  Retells(Append(pub, W), start, Retained(Append(kept, c)), rev + 1)
<1>1. PICK new : new = Append(pub, W)
  OBVIOUS
<1>2. PICK all : all = Append(kept, c)
  OBVIOUS
<1>3. PICK n : n = Len(kept)
  OBVIOUS
<1>4. kept \in Seq(ChangeRecords) /\ n \in Nat /\ n <= rev
  <2>1. kept \in Seq(ChangeRecords) /\ n <= rev
    BY <1>3, Zenon DEF Retells
  <2> QED BY ONLY <1>3, <2>1
<1>5. \A i \in 1..n : /\ kept[i].revision = (rev - n) + i
                     /\ Tells(kept[i], pub[start + (rev - n) + i - 1],
                              pub[start + (rev - n) + i])
  BY <1>3, Zenon DEF Retells
<1>6. /\ all \in Seq(ChangeRecords) /\ Len(all) = n + 1
      /\ all[n + 1] = c /\ \A i \in 1..n : all[i] = kept[i]
  BY ONLY <1>4, <1>2, <1>3, c \in ChangeRecords
<1>7. /\ new[start + rev + 1] = W
      /\ \A i \in 1..start + rev : new[i] = pub[i]
  BY <1>1
<1>8. ASSUME NEW i \in 1..n + 1
      PROVE  /\ all[i].revision = (rev - n) + i
             /\ Tells(all[i], new[start + (rev - n) + i - 1], new[start + (rev - n) + i])
  <2>1. CASE i = n + 1
    <3>1. /\ (rev - n) + i = rev + 1 /\ start + (rev - n) + i - 1 = start + rev
          /\ start + (rev - n) + i = start + rev + 1
          /\ start + rev \in 1..start + rev
      BY ONLY <1>4, <2>1, start \in Nat \ {0}, rev \in Nat
    <3>2. all[i] = c /\ new[start + rev] = pub[start + rev]
      BY <1>6, <1>7, <2>1, <3>1
    <3> QED BY <1>7, <3>1, <3>2, Zenon
  <2>2. CASE i # n + 1
    <3>1. i \in 1..n /\ start + (rev - n) + i - 1 \in 1..start + rev
          /\ start + (rev - n) + i \in 1..start + rev
      BY ONLY <1>4, <2>2, i \in 1..n + 1, start \in Nat \ {0}, rev \in Nat
    <3>2. all[i] = kept[i]
      BY <1>6, <3>1
    <3>3. /\ new[start + (rev - n) + i - 1] = pub[start + (rev - n) + i - 1]
          /\ new[start + (rev - n) + i] = pub[start + (rev - n) + i]
      BY <1>7, <3>1, Zenon
    <3> QED BY <1>5, <3>1, <3>2, <3>3, Zenon
  <2> QED BY <2>1, <2>2
<1>9. RetainedLimit \in Nat \ {0}
  BY SceneAssumption DEF RetainedLimit
<1>10. PICK limit : limit = RetainedLimit
  OBVIOUS
<1>11. PICK less : less = Retained(all)
  OBVIOUS
<1>12. PICK k \in 0..n : /\ less \in Seq(ChangeRecords) /\ Len(less) = n + 1 - k
                         /\ \A i \in 1..n + 1 - k : less[i] = all[i + k]
  <2>1. CASE Len(all) > limit
    <3> DEFINE k == n + 1 - limit
    <3>1. less = SubSeq(all, k + 1, n + 1)
      <4>1. Len(all) - limit + 1 = k + 1
        BY <1>4, <1>6, <1>9, <1>10
      <4>2. less = SubSeq(all, Len(all) - limit + 1, Len(all))
        BY <1>10, <1>11, <2>1, Zenon DEF Retained
      <4> QED BY <1>6, <4>1, <4>2, Zenon
    <3>2. k \in 0..n
      BY <1>4, <1>6, <1>9, <1>10, <2>1
    <3> HIDE DEF k
    <3>3. /\ less \in Seq(ChangeRecords) /\ Len(less) = n + 1 - k
          /\ \A i \in 1..n + 1 - k : less[i] = all[i + k]
      <4>1. k + 1 \in 1..Len(all) /\ n + 1 \in 1..Len(all)
        BY <1>4, <1>6, <3>2
      <4>2. \A i \in k + 1..n + 1 : all[i] \in ChangeRecords
        BY <1>4, <1>6, <3>2
      <4>3. SubSeq(all, k + 1, n + 1) \in Seq(ChangeRecords)
        BY <4>1, <1>6
      <4>4. Len(SubSeq(all, k + 1, n + 1)) = n + 1 - k
        BY ONLY <1>4, <1>6, <3>2
      <4>5. \A i \in 1..n + 1 - k : SubSeq(all, k + 1, n + 1)[i] = all[i + k]
        BY ONLY <1>4, <1>6, <3>2
      <4> QED BY <3>1, <4>3, <4>4, <4>5, Zenon
    <3> QED BY <3>2, <3>3
  <2>2. CASE ~(Len(all) > limit)
    <3>1. less = all
      BY <1>10, <1>11, <2>2, Zenon DEF Retained
    <3>2. 0 \in 0..n /\ n + 1 - 0 = n + 1 /\ \A i \in 1..n + 1 : i + 0 = i
      BY <1>4
    <3> QED BY <1>6, <3>1, <3>2
  <2> QED BY <2>1, <2>2
<1>13. PICK m : m = n + 1 - k
  OBVIOUS
<1>14. m \in Nat /\ m <= rev + 1 /\ (rev + 1) - m = (rev - n) + k
  BY ONLY <1>4, <1>13, rev \in Nat
<1>15. ASSUME NEW i \in 1..m
       PROVE  /\ less[i].revision = ((rev + 1) - m) + i
              /\ Tells(less[i], new[start + ((rev + 1) - m) + i - 1],
                       new[start + ((rev + 1) - m) + i])
  <2>1. i + k \in 1..n + 1 /\ ((rev + 1) - m) + i = (rev - n) + (i + k)
        /\ start + ((rev + 1) - m) + i - 1 = start + (rev - n) + (i + k) - 1
        /\ start + ((rev + 1) - m) + i = start + (rev - n) + (i + k)
    BY ONLY <1>4, <1>13, start \in Nat \ {0}, rev \in Nat, i \in 1..m
  <2>2. less[i] = all[i + k]
    BY <1>12, <1>13
  <2> QED BY <1>8, <2>1, <2>2, Zenon
<1>16. Retells(new, start, less, rev + 1)
  <2>1. Len(less) = m
    BY <1>12, <1>13
  <2> QED BY <1>12, <1>14, <1>15, <2>1, Zenon DEF Retells
<1> QED BY <1>1, <1>2, <1>11, <1>16, Zenon

(* What an operation of the store leaves visible, and what it records.     *)
LEMMA StoreMoves ==
    ASSUME Sound(visible), revision \in Nat,
           \A a \in ApplicationsOf(visible) : order[a] \in Int, Next
    PROVE  /\ Sound(visible')
           /\ \A a \in ApplicationsOf(visible') : order'[a] \in Int
           /\ revision' = revision + 1
           /\ \E c \in ChangeRecords :
                  /\ c.revision = revision + 1
                  /\ Tells(c, visible, visible')
                  /\ changes' = Retained(Append(changes, c))
<1>1. IsFiniteSet(visible') /\ Cardinality(visible') <= MaximumProviders /\ ScenesFit(visible')
  BY DEF Next, WithinLimits
<1>2. visible \in SUBSET PublishableScenes /\ \A s, t \in visible : s.identity = t.identity => s = t
  BY DEF Sound
<1>3. FeedOrders \subseteq Int
  BY FeedAssumption
<1>4. ASSUME NEW kind, NEW identity, NEW provider, Record(kind, identity, provider),
             Change(revision + 1, kind, identity, provider) \in ChangeRecords,
             Tells(Change(revision + 1, kind, identity, provider), visible, visible')
      PROVE  /\ revision' = revision + 1
             /\ \E c \in ChangeRecords :
                    /\ c.revision = revision + 1
                    /\ Tells(c, visible, visible')
                    /\ changes' = Retained(Append(changes, c))
  <2> DEFINE c == Change(revision + 1, kind, identity, provider)
  <2>1. revision' = revision + 1 /\ changes' = Retained(Append(changes, c))
    BY <1>4, Zenon DEF Record
  <2>2. c.revision = revision + 1
    BY DEF Change
  <2> HIDE DEF c
  <2> QED BY <1>4, <2>1, <2>2, Zenon DEF c
<1>5. ASSUME NEW scene \in PublishableScenes, Upsert(scene)
      PROVE  /\ Sound(visible')
             /\ \A a \in ApplicationsOf(visible') : order'[a] \in Int
             /\ revision' = revision + 1
             /\ \E c \in ChangeRecords :
                    /\ c.revision = revision + 1
                    /\ Tells(c, visible, visible')
                    /\ changes' = Retained(Append(changes, c))
  <2> DEFINE c == Change(revision + 1, "upsert", scene.identity, scene)
  <2>1. /\ visible' = {t \in visible : t.identity # scene.identity} \cup {scene}
        /\ order' \in [ApplicationsOf(visible') -> FeedOrders]
        /\ Record("upsert", scene.identity, scene)
    BY <1>5, Zenon DEF Upsert, Except
  <2>2. Sound(visible')
    <3>1. visible' \in SUBSET PublishableScenes
      BY <1>2, <2>1
    <3>2. \A s, t \in visible' : s.identity = t.identity => s = t
      BY <1>2, <2>1
    <3> QED BY <1>1, <3>1, <3>2 DEF Sound
  <2>3. \A a \in ApplicationsOf(visible') : order'[a] \in Int
    BY <1>3, <2>1
  <2>4. c.kind = "upsert" /\ c.provider = scene /\ c.revision = revision + 1
        /\ c.identity = scene.identity
    BY DEF Change
  <2>5. Tells(c, visible, visible')
    BY <2>1, <2>4, Zenon DEF Tells
  <2>6. c \in ChangeRecords
    <3>1. scene \in Scenes /\ scene.identity \in Identities
      BY DEF PublishableScenes, Scenes
    <3> QED BY <3>1 DEF Change, ChangeRecords
  <2> QED BY <1>4, <2>1, <2>2, <2>3, <2>5, <2>6
<1>6. ASSUME NEW identity \in Identities, RemoveProvider(identity)
      PROVE  /\ Sound(visible')
             /\ \A a \in ApplicationsOf(visible') : order'[a] \in Int
             /\ revision' = revision + 1
             /\ \E c \in ChangeRecords :
                    /\ c.revision = revision + 1
                    /\ Tells(c, visible, visible')
                    /\ changes' = Retained(Append(changes, c))
  <2> DEFINE c == Change(revision + 1, "remove_provider", identity, None)
  <2>1. /\ visible' = {t \in visible : t.identity # identity}
        /\ order' = [a \in ApplicationsOf(visible') |-> order[a]]
        /\ Record("remove_provider", identity, None)
    BY <1>6, Zenon DEF RemoveProvider, Except
  <2>2. Sound(visible')
    <3>1. visible' \in SUBSET PublishableScenes
      BY <1>2, <2>1
    <3>2. \A s, t \in visible' : s.identity = t.identity => s = t
      BY <1>2, <2>1
    <3> QED BY <1>1, <3>1, <3>2 DEF Sound
  <2>3. \A a \in ApplicationsOf(visible') : order'[a] \in Int
    <3>1. \A a \in ApplicationsOf(visible') : a \in ApplicationsOf(visible)
      BY <2>1 DEF ApplicationsOf
    <3> QED BY <2>1, <3>1
  <2>4. c.kind = "remove_provider" /\ c.identity = identity /\ c.revision = revision + 1
    BY DEF Change
  <2>5. Tells(c, visible, visible')
    BY <2>1, <2>4, Zenon DEF Tells
  <2>6. c \in ChangeRecords
    BY DEF Change, ChangeRecords
  <2> QED BY <1>4, <2>1, <2>2, <2>3, <2>5, <2>6
<1>7. ASSUME Reset
      PROVE  /\ Sound(visible')
             /\ \A a \in ApplicationsOf(visible') : order'[a] \in Int
             /\ revision' = revision + 1
             /\ \E c \in ChangeRecords :
                    /\ c.revision = revision + 1
                    /\ Tells(c, visible, visible')
                    /\ changes' = Retained(Append(changes, c))
  <2> DEFINE c == Change(revision + 1, "reset", None, None)
  <2>1. Record("reset", None, None) /\ order' \in [ApplicationsOf(visible') -> FeedOrders]
    BY <1>7, Zenon DEF Reset
  <2>2. Sound(visible')
    BY <1>1, <1>7 DEF Reset, Sound
  <2>3. \A a \in ApplicationsOf(visible') : order'[a] \in Int
    BY <1>3, <2>1
  <2>4. Tells(c, visible, visible')
    BY DEF Change, Tells
  <2>5. c \in ChangeRecords
    BY DEF Change, ChangeRecords
  <2> QED BY <1>4, <2>1, <2>2, <2>3, <2>4, <2>5
<1> QED BY <1>5, <1>6, <1>7 DEF Next

(* A set of scenes that is published behind the others.                    *)
LEMMA PublishedMore ==
    ASSUME FeedInv, Sound(visible'), published' = Append(published, visible')
    PROVE  /\ published' \in Seq(SUBSET PublishableScenes)
           /\ Len(published') = Len(published) + 1
           /\ \A i \in 1..Len(published) : published'[i] = published[i]
           /\ published'[Len(published')] = visible'
           /\ AllSound(published')
<1>1. published \in Seq(SUBSET PublishableScenes) /\ visible' \in SUBSET PublishableScenes
  BY DEF FeedInv, Sound
<1>2. PICK old : old = published
  OBVIOUS
<1>3. PICK new : new = published'
  OBVIOUS
<1>4. PICK W : W = visible'
  OBVIOUS
<1>5. /\ new \in Seq(SUBSET PublishableScenes) /\ Len(old) \in Nat
      /\ Len(new) = Len(old) + 1
      /\ \A i \in 1..Len(old) : new[i] = old[i]
      /\ new[Len(new)] = W
  BY <1>1, <1>2, <1>3, <1>4
<1>6. \A i \in 1..Len(old) : Sound(old[i])
  BY <1>2 DEF FeedInv, AllSound
<1>7. \A i \in 1..Len(new) : Sound(new[i])
  <2> SUFFICES ASSUME NEW i \in 1..Len(new) PROVE Sound(new[i])
    OBVIOUS
  <2>1. CASE i = Len(new)
    BY <1>4, <1>5, <2>1
  <2>2. CASE i # Len(new)
    BY <1>5, <1>6, <2>2
  <2> QED BY <2>1, <2>2
<1> QED BY <1>2, <1>3, <1>4, <1>5, <1>7 DEF AllSound

(* The operations of the store keep the history sound and told.            *)
LEMMA StoreKeepsFeed ==
    ASSUME FeedInv, StoreStep
    PROVE  FeedInv'
<1>1. /\ run_start \in Nat \ {0} /\ revision \in Nat /\ Len(published) = run_start + revision
      /\ published[Len(published)] = visible /\ published \in Seq(SUBSET PublishableScenes)
      /\ \A a \in ApplicationsOf(visible) : order[a] \in Int
      /\ Retells(published, run_start, changes, revision)
      /\ AllSound(published)
  BY DEF FeedInv
<1>2. Next /\ published' = Append(published, visible') /\ run_start' = run_start
  BY DEF StoreStep
<1>3. Sound(visible)
  <2>1. Len(published) \in 1..Len(published)
    BY <1>1
  <2> QED BY <1>1, <2>1 DEF AllSound
<1>4. /\ Sound(visible')
      /\ \A a \in ApplicationsOf(visible') : order'[a] \in Int
      /\ revision' = revision + 1
  BY <1>1, <1>2, <1>3, StoreMoves
<1>5. PICK c \in ChangeRecords : /\ c.revision = revision + 1
                                 /\ Tells(c, visible, visible')
                                 /\ changes' = Retained(Append(changes, c))
  BY <1>1, <1>2, <1>3, StoreMoves
<1>6. Retells(Append(published, visible'), run_start, Retained(Append(changes, c)), revision + 1)
  <2>1. visible' \in SUBSET PublishableScenes
    BY <1>4 DEF Sound
  <2>2. Tells(c, published[run_start + revision], visible')
    BY <1>1, <1>5
  <2> QED BY <1>1, <1>5, <2>1, <2>2, RetellsMore
<1>7. Retells(published', run_start', changes', revision')
  BY <1>2, <1>4, <1>5, <1>6, Zenon
<1>8. /\ published' \in Seq(SUBSET PublishableScenes)
      /\ Len(published') = Len(published) + 1
      /\ published'[Len(published')] = visible'
      /\ AllSound(published')
  BY <1>2, <1>4, PublishedMore
<1>9. run_start' \in Nat \ {0} /\ revision' \in Nat /\ Len(published') = run_start' + revision'
  BY <1>1, <1>2, <1>4, <1>8
<1> QED BY <1>4, <1>7, <1>8, <1>9 DEF FeedInv

(* So does a restart, which begins another run at the end of the history.  *)
LEMMA RestartKeepsFeed ==
    ASSUME FeedInv, RestartBroker
    PROVE  FeedInv'
<1>1. /\ run_start \in Nat \ {0} /\ revision \in Nat /\ Len(published) = run_start + revision
      /\ published \in Seq(SUBSET PublishableScenes)
  BY DEF FeedInv
<1>2. /\ visible' = {} /\ revision' = 0 /\ changes' = <<>>
      /\ published' = Append(published, visible') /\ run_start' = Len(published) + 1
  BY DEF RestartBroker, Restart
<1>3. Sound(visible')
  BY <1>2, NothingIsSound
<1>4. /\ published' \in Seq(SUBSET PublishableScenes)
      /\ Len(published') = Len(published) + 1
      /\ published'[Len(published')] = visible'
      /\ AllSound(published')
  BY <1>2, <1>3, PublishedMore
<1>5. Retells(published', run_start', changes', revision')
  <2>1. changes' \in Seq(ChangeRecords) /\ Len(changes') = 0
    BY <1>2
  <2> QED BY <1>2, <2>1 DEF Retells
<1>6. \A a \in ApplicationsOf(visible') : order'[a] \in Int
  BY <1>2 DEF ApplicationsOf
<1>7. run_start' \in Nat \ {0} /\ revision' \in Nat /\ Len(published') = run_start' + revision'
  BY <1>1, <1>2, <1>4
<1> QED BY <1>4, <1>5, <1>6, <1>7 DEF FeedInv

(* A step that leaves the store alone.                                     *)
LEMMA SameFeed ==
    ASSUME FeedInv, UNCHANGED <<feed, historyVars>>
    PROVE  FeedInv'
BY DEF FeedInv, feed, historyVars, Retells

-----------------------------------------------------------------------------
(* The broker's steps.                                                     *)

(* A session and what is known of it.                                      *)
LEMMA SessionType ==
    ASSUME NEW s \in Sessions
    PROVE  /\ s # None /\ s.subscribed \in BOOLEAN /\ s.revision \in Nat
           /\ s.outgoing \in Seq(Packets) /\ s.behind \in BOOLEAN
BY StreamAssumption DEF Sessions

(* A snapshot is taken wherever the packets before it lead.                *)
LEMMA SnapshotReaches ==
    ASSUME StreamInv, session # None, session.outgoing = <<>>
    PROVE  LET packets == SnapshotPackets(snapshot)
           IN  /\ packets \in Seq(Packets)
               /\ Leads(published, stream_start, Display, channel \o packets,
                        [mirror |-> Showing(revision, visible),
                         position |-> run_start + revision])
<1>1. /\ published \in Seq(SUBSET PublishableScenes)
      /\ run_start \in Nat \ {0} /\ revision \in Nat /\ Len(published) = run_start + revision
      /\ published[run_start + revision] = visible
      /\ \A a \in ApplicationsOf(visible) : order[a] \in Int
      /\ Sound(visible)
  <2>1. /\ published \in Seq(SUBSET PublishableScenes)
        /\ run_start \in Nat \ {0} /\ revision \in Nat /\ Len(published) = run_start + revision
        /\ published[Len(published)] = visible
        /\ \A a \in ApplicationsOf(visible) : order[a] \in Int
        /\ AllSound(published)
    BY DEF StreamInv, FeedInv
  <2>2. Len(published) \in 1..Len(published)
    BY <2>1
  <2>3. Sound(published[Len(published)])
    BY <2>1, <2>2, Zenon DEF AllSound
  <2> QED BY <2>1, <2>3
<1>2. /\ channel \in Seq(Packets) /\ stream_start = run_start
      /\ session \in Sessions
      /\ session.subscribed => session.revision <= revision
      /\ ~session.subscribed => channel = <<>>
  BY DEF StreamInv, SessionInv
<1>3. session.revision \in Nat /\ session.subscribed \in BOOLEAN
  BY <1>2, SessionType
<1>4. IsMirror(mirror) /\ position \in Nat \ {0} /\ position <= Len(published)
      /\ published[position] = mirror.providers
  BY DEF StreamInv, MirrorInv
<1>5. \E m, at : /\ Leads(published, stream_start, Display, channel,
                          [mirror |-> m, position |-> at])
                 /\ IsMirror(m) /\ at \in Nat /\ at <= run_start + revision
                 /\ published[at] = m.providers
  <2>1. CASE session.subscribed
    <3> DEFINE m == Showing(session.revision, published[run_start + session.revision])
               at == run_start + session.revision
    <3>1. Leads(published, stream_start, Display, channel \o session.outgoing, Target)
      BY <2>1 DEF StreamInv, PipeInv
    <3>2. channel \o session.outgoing = channel
      BY <1>2
    <3>3. IsMirror(m) /\ m.providers = published[at]
      BY DEF IsMirror, Showing
    <3>4. at \in Nat /\ at <= run_start + revision
      BY <1>1, <1>2, <1>3, <2>1
    <3>5. Target = [mirror |-> m, position |-> at]
      BY DEF Target
    <3> HIDE DEF m, at
    <3> QED BY <3>1, <3>2, <3>3, <3>4, <3>5, Zenon
  <2>2. CASE ~session.subscribed
    <3>1. channel = <<>>
      BY <1>2, <2>2
    <3>2. Leads(published, stream_start, Display, channel,
                [mirror |-> mirror, position |-> position])
      BY <3>1, LeadsNowhere DEF Display
    <3>3. position \in Nat /\ position <= run_start + revision
      BY <1>1, <1>4
    <3> QED BY <1>4, <3>2, <3>3, Zenon
  <2> QED BY <2>1, <2>2
<1>6. PICK m, at : /\ Leads(published, stream_start, Display, channel,
                            [mirror |-> m, position |-> at])
                   /\ IsMirror(m) /\ at \in Nat /\ at <= run_start + revision
                   /\ published[at] = m.providers
  BY <1>5, Zenon
<1> DEFINE L == Layered(visible, order)
           packets == SnapshotPackets([revision |-> revision, providers |-> L])
           end == [mirror |-> Showing(revision, visible), position |-> run_start + revision]
<1>7. /\ visible \in SUBSET PublishableScenes /\ visible \in SUBSET Scenes
      /\ IsFiniteSet(visible) /\ ScenesFit(visible)
      /\ Cardinality(visible) <= MaximumProviders
      /\ \A s, t \in visible : s.identity = t.identity => s = t
  BY <1>1 DEF Sound, PublishableScenes
<1>8. Enumerates(L, visible)
  BY <1>1, <1>7, LayersEnumerate
<1> HIDE DEF L
<1>9. /\ packets \in Seq(Packets)
      /\ Leads(published, run_start, [mirror |-> m, position |-> at], packets, end)
  BY <1>1, <1>6, <1>7, <1>8, SnapshotIsTaken
<1> HIDE DEF packets, end
<1>10. Leads(published, stream_start, Display, channel \o packets, end)
  BY <1>2, <1>6, <1>9, LeadsJoin
<1>11. snapshot = [revision |-> revision, providers |-> L]
  BY DEF snapshot, L
<1> QED BY <1>9, <1>10, <1>11, Zenon DEF packets, end

(* A session that sends the whole snapshot leads the mirror to it.         *)
LEMMA SendingSnapshot ==
    ASSUME StreamInv, session # None, session.outgoing = <<>>, SendSnapshot,
           UNCHANGED <<feed, channel, clientVars, historyVars, stream_start>>
    PROVE  StreamInv'
<1> DEFINE packets == SnapshotPackets(snapshot)
<1>1. session \in Sessions /\ client = "connected" /\ stream_start = run_start
      /\ channel \in Seq(Packets)
  BY DEF StreamInv, SessionInv
<1>2. revision \in Nat /\ published[run_start + revision] = visible
  BY DEF StreamInv, FeedInv
<1>3. /\ packets \in Seq(Packets)
      /\ Leads(published, stream_start, Display, channel \o packets,
               [mirror |-> Showing(revision, visible), position |-> run_start + revision])
  BY SnapshotReaches
<1>4. session' = [session EXCEPT !.outgoing = packets, !.revision = revision,
                                 !.subscribed = TRUE, !.behind = FALSE]
  BY Zenon DEF SendSnapshot
<1> HIDE DEF packets
<1>5. /\ session' \in Sessions /\ session'.outgoing = packets
      /\ session'.revision = revision /\ session'.subscribed = TRUE /\ session'.behind = FALSE
  BY <1>1, <1>2, <1>3, <1>4 DEF Sessions
<1>6. UNCHANGED <<revision, channel, client, mirror, position, published, run_start, stream_start>>
  BY DEF feed, clientVars, historyVars
<1>7. FeedInv'
  BY SameFeed DEF StreamInv
<1>8. MirrorInv'
  BY <1>6 DEF StreamInv, MirrorInv, IsMirror
<1>9. SessionInv'
  BY <1>1, <1>2, <1>5, <1>6 DEF SessionInv
<1>10. PipeInv'
  <2>1. Display' = Display
    BY <1>6 DEF Display
  <2>2. PICK e : Leads(published, stream_start, Display, channel, e)
    BY DEF StreamInv, PipeInv
  <2>3. Leads(published', stream_start', Display', channel', e)
    BY <1>6, <2>1, <2>2, Zenon
  <2>4. Target' = [mirror |-> Showing(revision, visible), position |-> run_start + revision]
    <3>1. Target' = [mirror |-> Showing(session'.revision,
                                        published'[run_start' + session'.revision]),
                     position |-> run_start' + session'.revision]
      BY Zenon DEF Target, Showing
    <3> QED BY <1>2, <1>5, <1>6, <3>1, Zenon
  <2>5. Leads(published', stream_start', Display', channel' \o session'.outgoing, Target')
    BY <1>3, <1>5, <1>6, <2>1, <2>4, Zenon
  <2> QED BY <2>3, <2>5, Zenon DEF PipeInv
<1> QED BY <1>7, <1>8, <1>9, <1>10 DEF StreamInv

(* The changes that follow what the session sent.                          *)
LEMMA SendingChanges ==
    ASSUME StreamInv, WaitForUpdates
    PROVE  StreamInv'
<1> DEFINE batch == FeedAfter(changes, revision, session.revision)
           new == batch.changes
           updates == [i \in DOMAIN new |-> ChangePackets(new[i])]
           packets == FlattenSeq(updates)
           lost == batch.history_gap \/ \E i \in DOMAIN new : new[i].kind = "reset"
<1>1. /\ session # None /\ session.outgoing = <<>> /\ ~session.behind /\ session.subscribed
      /\ revision > session.revision
      /\ UNCHANGED <<feed, channel, clientVars, historyVars, stream_start>>
      /\ session' = IF lost THEN [session EXCEPT !.behind = TRUE]
                    ELSE [session EXCEPT !.outgoing = packets, !.revision = Last(new).revision]
  BY Zenon DEF WaitForUpdates, Idle
<1>2. UNCHANGED <<revision, channel, client, mirror, position, published, run_start, stream_start>>
  BY <1>1 DEF feed, clientVars, historyVars
<1>3. session \in Sessions /\ client = "connected" /\ stream_start = run_start
      /\ channel \in Seq(Packets) /\ session.revision \in Nat
  <2>1. session \in Sessions /\ client = "connected" /\ stream_start = run_start
        /\ channel \in Seq(Packets)
    BY <1>1 DEF StreamInv, SessionInv
  <2> QED BY <2>1, SessionType
<1>4. /\ published \in Seq(SUBSET PublishableScenes)
      /\ run_start \in Nat \ {0} /\ revision \in Nat /\ Len(published) = run_start + revision
      /\ AllSound(published)
      /\ Retells(published, run_start, changes, revision)
  BY DEF StreamInv, FeedInv
<1>5. Leads(published, stream_start, Display, channel, Target)
  <2>1. Leads(published, stream_start, Display, channel \o session.outgoing, Target)
    BY <1>1 DEF StreamInv, PipeInv
  <2>2. channel \o session.outgoing = channel
    BY <1>1, <1>3
  <2> QED BY <2>1, <2>2
<1>6. Display' = Display
  BY <1>2 DEF Display
<1>7. FeedInv' /\ MirrorInv'
  <2>1. FeedInv'
    BY <1>1, SameFeed DEF StreamInv
  <2>2. MirrorInv'
    BY <1>2 DEF StreamInv, MirrorInv, IsMirror
  <2> QED BY <2>1, <2>2
<1>8. Leads(published', stream_start', Display', channel', Target)
  BY <1>2, <1>5, <1>6, Zenon
<1>9. Target' = [mirror |-> Showing(session'.revision, published[run_start + session'.revision]),
                 position |-> run_start + session'.revision]
  <2>1. Target' = [mirror |-> Showing(session'.revision,
                                      published'[run_start' + session'.revision]),
                   position |-> run_start' + session'.revision]
    BY Zenon DEF Target, Showing
  <2> QED BY <1>2, <2>1, Zenon
<1>10. CASE lost
  <2>1. session' = [session EXCEPT !.behind = TRUE]
    BY <1>1, <1>10, Zenon
  <2>2. /\ session' \in Sessions /\ session'.outgoing = <<>> /\ session'.behind = TRUE
        /\ session'.revision = session.revision /\ session'.subscribed
    BY <1>1, <1>3, <2>1 DEF Sessions
  <2>3. SessionInv'
    <3>1. channel' \in Seq(Packets) /\ client' = "connected" /\ stream_start' = run_start'
      BY <1>1, <1>2, <1>3 DEF SessionInv
    <3>2. session'.revision <= revision'
      BY <1>1, <1>2, <1>3, <1>4, <2>2
    <3> QED BY <2>2, <3>1, <3>2 DEF SessionInv
  <2>4. Target' = Target
    BY <1>9, <2>2, Zenon DEF Target
  <2>5. channel' \o session'.outgoing = channel'
    BY <1>2, <1>3, <2>2
  <2>6. PipeInv'
    BY <1>8, <2>4, <2>5, Zenon DEF PipeInv
  <2> QED BY <1>7, <2>3, <2>6 DEF StreamInv
<1>11. CASE ~lost
  <2> DEFINE end == [mirror |-> Showing(revision, published[run_start + revision]),
                     position |-> run_start + revision]
  <2>1. /\ Last(new).revision = revision
        /\ packets \in Seq(Packets)
        /\ Leads(published, run_start, Target, packets, end)
    <3>1. ~batch.history_gap /\ ~ \E i \in DOMAIN new : new[i].kind = "reset"
      BY <1>11, Zenon
    <3>2. Len(published) \in Nat /\ run_start + revision <= Len(published)
          /\ session.revision < revision
      BY <1>1, <1>3, <1>4
    <3>3. PICK kept : kept = changes
      OBVIOUS
    <3>4. PICK pub : pub = published
      OBVIOUS
    <3>5. PICK one : one = new
      OBVIOUS
    <3>6. PICK run, rev, known :
              run = run_start /\ rev = revision /\ known = session.revision
      OBVIOUS
    <3>7. LET b == FeedAfter(kept, rev, known)
          IN  ~b.history_gap /\ one = b.changes /\ ~HasReset(one)
      BY <3>1, <3>3, <3>5, <3>6, Zenon DEF HasReset
    <3>8. /\ run \in Nat \ {0} /\ rev \in Nat /\ known \in Nat /\ known < rev
          /\ Len(pub) \in Nat /\ run + rev <= Len(pub) /\ AllSound(pub)
          /\ Retells(pub, run, kept, rev)
      BY <1>3, <1>4, <3>2, <3>3, <3>4, <3>6
    <3> HIDE DEF batch, new
    <3>9. /\ Last(one).revision = rev
          /\ BatchPackets(one) \in Seq(Packets)
          /\ Leads(pub, run, [mirror |-> Showing(known, pub[run + known]),
                              position |-> run + known],
                   BatchPackets(one),
                   [mirror |-> Showing(rev, pub[run + rev]), position |-> run + rev])
      BY ONLY <3>7, <3>8, ChangesAreTaken
    <3>10. packets = BatchPackets(one)
      BY <3>5, Zenon DEF BatchPackets
    <3> HIDE DEF packets
    <3> QED BY <3>4, <3>5, <3>6, <3>9, <3>10, Zenon DEF Target
  <2> HIDE DEF packets, end, new, batch
  <2>2. session' = [session EXCEPT !.outgoing = packets, !.revision = revision]
    BY <1>1, <1>11, <2>1, Zenon
  <2>3. /\ session' \in Sessions /\ session'.outgoing = packets /\ ~session'.behind
        /\ session'.revision = revision /\ session'.subscribed
    BY <1>1, <1>3, <1>4, <2>1, <2>2 DEF Sessions
  <2>4. SessionInv'
    BY <1>1, <1>2, <1>3, <1>4, <2>3 DEF SessionInv
  <2>5. Target' = end
    BY <1>9, <2>3, Zenon DEF end
  <2>6. Leads(published, stream_start, Display, channel \o packets, end)
    BY <1>3, <1>5, <2>1, LeadsJoin
  <2>7. Leads(published', stream_start', Display', channel' \o session'.outgoing, Target')
    BY <1>2, <1>6, <2>3, <2>5, <2>6, Zenon
  <2>8. PipeInv'
    BY <1>8, <2>7, Zenon DEF PipeInv
  <2> QED BY <1>7, <2>4, <2>8 DEF StreamInv
<1> QED BY <1>10, <1>11

(* The next packet moves from what is to be sent to the socket.            *)
LEMMA MovesOne ==
    ASSUME NEW P, NEW ps \in Seq(P), NEW qs \in Seq(P), qs # <<>>
    PROVE  /\ Append(ps, Head(qs)) \in Seq(P) /\ Tail(qs) \in Seq(P)
           /\ Append(ps, Head(qs)) \o Tail(qs) = ps \o qs
<1>1. Append(ps, Head(qs)) \in Seq(P) /\ Tail(qs) \in Seq(P)
  OBVIOUS
<1> DEFINE left == Append(ps, Head(qs)) \o Tail(qs)
           right == ps \o qs
<1>2. left \in Seq(P) /\ right \in Seq(P)
  BY <1>1
<1>3. Len(left) = Len(ps) + Len(qs) /\ Len(right) = Len(ps) + Len(qs)
  OBVIOUS
<1>4. \A i \in 1..Len(ps) + Len(qs) : left[i] = right[i]
  OBVIOUS
<1> HIDE DEF left, right
<1>5. left = right
  BY <1>2, <1>3, <1>4
<1> QED BY <1>1, <1>5 DEF left, right

(* A step of the session's that leaves the store and the display alone.    *)
LEMMA SendingPacket ==
    ASSUME StreamInv, SendPacket
    PROVE  StreamInv'
<1>1. /\ session # None /\ session.outgoing # <<>>
      /\ channel' = Append(channel, Head(session.outgoing))
      /\ session' = [session EXCEPT !.outgoing = Tail(@)]
      /\ UNCHANGED <<feed, clientVars, historyVars, stream_start>>
  BY DEF SendPacket
<1>2. UNCHANGED <<revision, client, mirror, position, published, run_start, stream_start>>
  BY <1>1 DEF feed, clientVars, historyVars
<1>3. /\ session \in Sessions /\ client = "connected" /\ stream_start = run_start
      /\ channel \in Seq(Packets)
      /\ session.subscribed => session.revision <= revision
      /\ ~session.subscribed => session.outgoing = <<>>
      /\ session.behind => session.outgoing = <<>>
  BY <1>1 DEF StreamInv, SessionInv
<1>4. /\ session.subscribed \in BOOLEAN /\ session.behind \in BOOLEAN
      /\ session.outgoing \in Seq(Packets) /\ session.revision \in Nat
  BY <1>3, SessionType
<1>5. session.subscribed = TRUE /\ session.behind = FALSE
  BY <1>1, <1>3, <1>4
<1>6. /\ channel' \in Seq(Packets) /\ Tail(session.outgoing) \in Seq(Packets)
      /\ channel' \o Tail(session.outgoing) = channel \o session.outgoing
  <2>1. PICK ps, qs : ps = channel /\ qs = session.outgoing
    OBVIOUS
  <2>2. ps \in Seq(Packets) /\ qs \in Seq(Packets) /\ qs # <<>>
    BY <1>1, <1>3, <1>4, <2>1
  <2>3. /\ Append(ps, Head(qs)) \in Seq(Packets) /\ Tail(qs) \in Seq(Packets)
        /\ Append(ps, Head(qs)) \o Tail(qs) = ps \o qs
    BY ONLY <2>2, MovesOne
  <2> QED BY <1>1, <2>1, <2>3, Zenon
<1>7. /\ session' \in Sessions /\ session'.outgoing = Tail(session.outgoing)
      /\ session'.revision = session.revision
      /\ session'.subscribed = TRUE /\ session'.behind = FALSE
  BY <1>1, <1>3, <1>5, <1>6 DEF Sessions
<1>8. FeedInv' /\ MirrorInv'
  <2>1. FeedInv'
    BY <1>1, SameFeed DEF StreamInv
  <2>2. MirrorInv'
    BY <1>2 DEF StreamInv, MirrorInv, IsMirror
  <2> QED BY <2>1, <2>2
<1>9. SessionInv'
  BY <1>2, <1>3, <1>5, <1>6, <1>7 DEF SessionInv
<1>10. Display' = Display /\ Target' = Target
  <2>1. Display' = Display
    BY <1>2 DEF Display
  <2>2. Target' = [mirror |-> Showing(session'.revision,
                                      published'[run_start' + session'.revision]),
                   position |-> run_start' + session'.revision]
    BY Zenon DEF Target, Showing
  <2> QED BY <1>2, <1>7, <2>1, <2>2, Zenon DEF Target
<1>11. Leads(published, stream_start, Display, channel' \o Tail(session.outgoing), Target)
  <2>1. Leads(published, stream_start, Display, channel \o session.outgoing, Target)
    BY <1>1, <1>5 DEF StreamInv, PipeInv
  <2> QED BY <1>6, <2>1, Zenon
<1>12. \E e : Leads(published, stream_start, Display, channel', e)
  <2>1. PICK ps, qs : ps = channel' /\ qs = Tail(session.outgoing)
    OBVIOUS
  <2>2. ps \in Seq(Packets) /\ qs \in Seq(Packets)
        /\ Leads(published, stream_start, Display, ps \o qs, Target)
    BY <1>6, <1>11, <2>1, Zenon
  <2>3. \E e : Leads(published, stream_start, Display, ps, e)
    BY ONLY <2>2, LeadsPart
  <2> QED BY <2>1, <2>3, Zenon
<1>13. Leads(published', stream_start', Display', channel' \o session'.outgoing, Target')
  BY <1>2, <1>7, <1>10, <1>11, Zenon
<1>14. \E e : Leads(published', stream_start', Display', channel', e)
  BY <1>2, <1>10, <1>12, Zenon
<1>15. PipeInv'
  BY <1>13, <1>14, Zenon DEF PipeInv
<1> QED BY <1>8, <1>9, <1>15 DEF StreamInv

(* The broker closes the connection: what the socket holds is as good.     *)
LEMMA ClosingSession ==
    ASSUME StreamInv, CloseSession
    PROVE  StreamInv'
<1>1. session' = None /\ UNCHANGED <<feed, channel, clientVars, historyVars, stream_start>>
  BY DEF CloseSession
<1>2. UNCHANGED <<channel, client, mirror, position, published, run_start, stream_start>>
  BY <1>1 DEF clientVars, historyVars
<1>3. FeedInv'
  BY <1>1, SameFeed DEF StreamInv
<1>4. MirrorInv'
  BY <1>2 DEF StreamInv, MirrorInv, IsMirror
<1>5. SessionInv'
  BY <1>1, <1>2 DEF StreamInv, SessionInv
<1>6. PipeInv'
  <2>1. PICK e : Leads(published, stream_start, Display, channel, e)
    BY DEF StreamInv, PipeInv
  <2>2. Display' = Display
    BY <1>2 DEF Display
  <2>3. Leads(published', stream_start', Display', channel', e)
    BY <1>2, <2>1, <2>2, Zenon
  <2> QED BY <1>1, <2>3, Zenon DEF PipeInv
<1> QED BY <1>3, <1>4, <1>5, <1>6 DEF StreamInv

(* An empty socket and a session, if any, that has sent nothing.           *)
LEMMA NothingSent ==
    ASSUME StreamInv, UNCHANGED <<feed, historyVars, mirror, position>>,
           channel' = <<>>,
           \/ session' = None /\ UNCHANGED stream_start
           \/ /\ session' = [subscribed |-> FALSE, revision |-> 0, outgoing |-> <<>>,
                             behind |-> FALSE]
              /\ client' = "connected" /\ stream_start' = run_start
    PROVE  StreamInv'
<1>1. UNCHANGED <<revision, mirror, position, published, run_start>>
  BY DEF feed, historyVars
<1>2. run_start \in Nat \ {0} /\ stream_start \in Nat \ {0}
  BY DEF StreamInv, FeedInv, MirrorInv
<1>3. FeedInv'
  BY SameFeed DEF StreamInv
<1>4. MirrorInv'
  BY <1>1, <1>2 DEF StreamInv, MirrorInv, IsMirror
<1>5. session' # None => /\ session' \in Sessions /\ ~session'.subscribed
                         /\ session'.outgoing = <<>> /\ ~session'.behind
  <2>1. PICK s : s = [subscribed |-> FALSE, revision |-> 0, outgoing |-> <<>>,
                      behind |-> FALSE]
    OBVIOUS
  <2>2. s.subscribed = FALSE /\ s.outgoing = <<>> /\ s.behind = FALSE
    BY <2>1
  <2>3. s \in Sessions
    <3>1. <<>> \in Seq(Packets) /\ 0 \in Nat /\ FALSE \in BOOLEAN
      OBVIOUS
    <3> QED BY <2>1, <3>1, Zenon DEF Sessions
  <2> QED BY <2>1, <2>2, <2>3, Zenon
<1>6. SessionInv'
  BY <1>1, <1>5 DEF SessionInv
<1>7. Leads(published', stream_start', Display', channel', Display')
  BY LeadsNowhere
<1>8. PipeInv'
  BY <1>5, <1>7, Zenon DEF PipeInv
<1> QED BY <1>3, <1>4, <1>6, <1>8 DEF StreamInv

(* The store publishes, or the broker restarts.                            *)
LEMMA PublishedWhileSent ==
    ASSUME StreamInv, FeedInv', published' = Append(published, visible'),
           UNCHANGED <<channel, client, mirror, position, stream_start>>,
           \/ UNCHANGED <<session, run_start>> /\ revision' = revision + 1
           \/ session' = None
    PROVE  StreamInv'
<1>1. /\ published \in Seq(SUBSET PublishableScenes)
      /\ Len(published) = run_start + revision /\ run_start \in Nat \ {0} /\ revision \in Nat
  BY DEF StreamInv, FeedInv
<1>2. visible' \in SUBSET PublishableScenes
  <2>1. published' \in Seq(SUBSET PublishableScenes) /\ published'[Len(published')] = visible'
    BY DEF FeedInv
  <2>2. Len(published') = Len(published) + 1
    BY <1>1
  <2>3. Len(published') \in 1..Len(published')
    BY <1>1, <2>2
  <2>4. published'[Len(published')] \in SUBSET PublishableScenes
    BY <2>1, <2>3
  <2> QED BY <2>1, <2>4
<1>3. /\ Len(published') = Len(published) + 1
      /\ \A i \in 1..Len(published) : published'[i] = published[i]
  BY <1>1
<1>4. IsMirror(mirror) /\ position \in Nat \ {0} /\ position <= Len(published)
      /\ mirror.providers = published[position] /\ stream_start \in Nat \ {0}
  BY DEF StreamInv, MirrorInv
<1>5. MirrorInv'
  <2>1. position \in 1..Len(published) /\ position <= Len(published')
    BY <1>1, <1>3, <1>4
  <2>2. published'[position] = published[position]
    BY <1>3, <2>1
  <2> QED BY <1>4, <2>1, <2>2 DEF MirrorInv, IsMirror
<1>6. SessionInv'
  <2>1. CASE session' = None
    BY <2>1 DEF StreamInv, SessionInv
  <2>2. CASE session' # None
    <3>1. UNCHANGED <<session, run_start>> /\ revision' = revision + 1
      BY <2>2
    <3>2. session # None /\ session \in Sessions /\ session.revision \in Nat
      <4>1. session # None /\ session \in Sessions
        BY <2>2, <3>1 DEF StreamInv, SessionInv
      <4> QED BY <4>1, SessionType
    <3>3. session.subscribed => session.revision <= revision'
      BY <1>1, <3>1, <3>2 DEF StreamInv, SessionInv
    <3> QED BY <3>1, <3>2, <3>3 DEF StreamInv, SessionInv
  <2> QED BY <2>1, <2>2
<1>7. Display' = Display /\ Display.position \in Nat \ {0}
  BY <1>4 DEF Display
<1>8. ASSUME NEW ps \in Seq(Packets), NEW e, Leads(published, stream_start, Display, ps, e)
      PROVE  Leads(published', stream_start', Display', ps, e)
  <2>1. PICK pub, W : pub = published /\ W = visible'
    OBVIOUS
  <2>2. PICK start, d : start = stream_start /\ d = Display
    OBVIOUS
  <2>3. /\ pub \in Seq(SUBSET PublishableScenes) /\ W \in SUBSET PublishableScenes
        /\ Leads(pub, start, d, ps, e) /\ d.position \in Nat \ {0}
    BY <1>1, <1>2, <1>7, <1>8, <2>1, <2>2, Zenon
  <2>4. Leads(Append(pub, W), start, d, ps, e)
    BY ONLY <2>3, LeadsGrown, ps \in Seq(Packets)
  <2> QED BY <1>7, <2>1, <2>2, <2>4, Zenon
<1>9. channel \in Seq(Packets)
  BY DEF StreamInv, SessionInv
<1>10. \E e : Leads(published', stream_start', Display', channel', e)
  <2>1. PICK e : Leads(published, stream_start, Display, channel, e)
    BY DEF StreamInv, PipeInv
  <2>2. Leads(published', stream_start', Display', channel, e)
    BY <1>8, <1>9, <2>1
  <2> QED BY <2>2, Zenon
<1>11. ASSUME session' # None /\ session'.subscribed
       PROVE  Leads(published', stream_start', Display', channel' \o session'.outgoing, Target')
  <2>1. UNCHANGED <<session, run_start>>
    BY <1>11
  <2>2. session # None /\ session.subscribed /\ session \in Sessions
        /\ session.revision <= revision
    BY <1>11, <2>1 DEF StreamInv, SessionInv
  <2>3. session.revision \in Nat /\ session.outgoing \in Seq(Packets)
    BY <2>2, SessionType
  <2>4. Leads(published, stream_start, Display, channel \o session.outgoing, Target)
    BY <2>2 DEF StreamInv, PipeInv
  <2>5. channel \o session.outgoing \in Seq(Packets)
    BY <1>9, <2>3
  <2>6. Leads(published', stream_start', Display', channel \o session.outgoing, Target)
    BY <1>8, <2>4, <2>5
  <2>7. Target' = Target
    <3>1. run_start + session.revision \in 1..Len(published)
      BY <1>1, <2>2, <2>3
    <3>2. published'[run_start + session.revision] = published[run_start + session.revision]
      BY <1>3, <3>1
    <3>3. Target' = [mirror |-> Showing(session'.revision,
                                        published'[run_start' + session'.revision]),
                     position |-> run_start' + session'.revision]
      BY Zenon DEF Target, Showing
    <3> QED BY <2>1, <3>2, <3>3, Zenon DEF Target
  <2> QED BY <2>1, <2>6, <2>7, Zenon
<1>12. PipeInv'
  BY <1>10, <1>11, Zenon DEF PipeInv
<1> QED BY <1>5, <1>6, <1>12 DEF StreamInv

-----------------------------------------------------------------------------
(* The client's steps.                                                     *)

(* Whatever packet it applies, a mirror stays one.                         *)
LEMMA MirrorStays ==
    ASSUME NEW m, IsMirror(m), NEW p \in Packets
    PROVE  IsMirror(Applied(m, p))
<1> DEFINE Same(n) == DOMAIN n = DOMAIN m /\ n = [f \in DOMAIN n |-> n[f]]
<1>1. PICK v, w, x, y, z : m = [revision |-> v, providers |-> w, pending |-> x,
                                staged_revision |-> y, staged |-> z]
  BY DEF IsMirror
<1>2. ASSUME NEW n, Same(n)
      PROVE  IsMirror(n)
  BY <1>1, <1>2 DEF IsMirror
<1> HIDE DEF Same
<1>3. p.type \in PacketTypes
  BY DEF Packets
<1>4. CASE p.type = "snapshot_begin"
  <2>1. Applied(m, p) = Begun(m, p)
    BY <1>4, Zenon DEF Applied
  <2>2. Same(Begun(m, p))
    BY <1>1 DEF Begun, Same
  <2> QED BY <1>2, <2>1, <2>2
<1>5. CASE p.type = "resource_available"
  <2>1. Applied(m, p) = WithResource(m, p)
    BY <1>5, Zenon DEF Applied
  <2>2. Same(WithResource(m, p))
    BY <1>1 DEF WithResource, Same
  <2> QED BY <1>2, <2>1, <2>2
<1>6. CASE p.type = "snapshot_provider"
  <2>1. Applied(m, p) = WithProvider(m, p)
    BY <1>6, Zenon DEF Applied
  <2>2. Same(WithProvider(m, p))
    BY <1>1 DEF WithProvider, Same
  <2> QED BY <1>2, <2>1, <2>2
<1>7. CASE p.type = "snapshot_end"
  <2>1. Applied(m, p) = Ended(m, p)
    BY <1>7, Zenon DEF Applied
  <2>2. Same(Ended(m, p))
    BY <1>1 DEF Ended, Same
  <2> QED BY <1>2, <2>1, <2>2
<1>8. CASE p.type = "scene_updated"
  <2>1. Applied(m, p) = Updated(m, p)
    BY <1>8, Zenon DEF Applied
  <2> QED BY <2>1 DEF Updated, IsMirror
<1>9. CASE p.type = "scene_removed"
  <2>1. Applied(m, p) = WithoutProvider(m, p)
    BY <1>9, Zenon DEF Applied
  <2>2. Same(WithoutProvider(m, p))
    BY <1>1 DEF WithoutProvider, Same
  <2> QED BY <1>2, <2>1, <2>2
<1> QED BY <1>3, <1>4, <1>5, <1>6, <1>7, <1>8, <1>9 DEF PacketTypes

(* The next packet of the socket is taken, and those after it are.         *)
LEMMA NextIsTaken ==
    ASSUME StreamInv, channel # <<>>
    PROVE  LET p == Head(channel)
               m == Applied(mirror, p)
               at == IF Publishes(p) THEN stream_start + p.revision ELSE position
               e == [mirror |-> m, position |-> at]
           IN  /\ ~RevisionGap(mirror, p) /\ Accepts(mirror, p)
               /\ IsMirror(m) /\ m.providers = published[at]
               /\ at \in Nat /\ position <= at /\ at <= Len(published)
               /\ Tail(channel) \in Seq(Packets)
               /\ \E f : Leads(published, stream_start, e, Tail(channel), f)
               /\ session # None /\ session.subscribed =>
                      Leads(published, stream_start, e,
                            Tail(channel) \o session.outgoing, Target)
<1> DEFINE p == Head(channel)
           m == Applied(mirror, p)
           at == IF Publishes(p) THEN stream_start + p.revision ELSE position
           e == [mirror |-> m, position |-> at]
<1>1. channel \in Seq(Packets) /\ IsMirror(mirror)
  BY DEF StreamInv, SessionInv, MirrorInv
<1>2. PICK ps, pub, start, d :
          ps = channel /\ pub = published /\ start = stream_start /\ d = Display
  OBVIOUS
<1>3. ps \in Seq(Packets) /\ ps # <<>>
  BY <1>1, <1>2
<1>4. Head(ps) \in Packets /\ Tail(ps) \in Seq(Packets)
  BY <1>3
<1>5. d.mirror = mirror /\ d.position = position
  BY <1>2 DEF Display
<1>6. ASSUME NEW g, Takes(pub, start, d, Head(ps), g)
      PROVE  g = e
  <2>1. g = [mirror |-> Applied(d.mirror, Head(ps)),
             position |-> IF Publishes(Head(ps)) THEN start + Head(ps).revision
                          ELSE d.position]
    BY <1>6, Zenon DEF Takes
  <2> QED BY <1>2, <1>5, <2>1, Zenon
<1>7. \E f : Leads(pub, start, d, ps, f)
  BY <1>2, Zenon DEF StreamInv, PipeInv
<1>8. \E f, g : Takes(pub, start, d, Head(ps), g) /\ Leads(pub, start, g, Tail(ps), f)
  <2>1. PICK f : Leads(pub, start, d, ps, f)
    BY <1>7
  <2>2. \E g : Takes(pub, start, d, Head(ps), g) /\ Leads(pub, start, g, Tail(ps), f)
    BY ONLY <1>3, <2>1, LeadsFirst
  <2> QED BY <2>2, Zenon
<1>9. Takes(pub, start, d, Head(ps), e) /\ \E f : Leads(pub, start, e, Tail(ps), f)
  BY <1>6, <1>8, Zenon
<1>10. ASSUME session # None /\ session.subscribed
       PROVE  Leads(pub, start, e, Tail(ps) \o session.outgoing, Target)
  <2>1. PICK qs, f : qs = session.outgoing /\ f = Target
    OBVIOUS
  <2>2. qs \in Seq(Packets)
    <3>1. session \in Sessions
      BY <1>10 DEF StreamInv, SessionInv
    <3> QED BY <2>1, <3>1, SessionType
  <2>3. Leads(pub, start, d, ps \o qs, f)
    BY <1>2, <1>10, <2>1, Zenon DEF StreamInv, PipeInv
  <2>4. /\ ps \o qs \in Seq(Packets) /\ ps \o qs # <<>>
        /\ Head(ps \o qs) = Head(ps)
    BY ONLY <1>3, <2>2
  <2>5. Tail(ps \o qs) = Tail(ps) \o qs
    <3>1. Tail(ps \o qs) \in Seq(Packets) /\ Tail(ps) \o qs \in Seq(Packets)
      BY ONLY <1>3, <1>4, <2>2, <2>4
    <3>2. /\ Len(Tail(ps \o qs)) = Len(ps) + Len(qs) - 1
          /\ Len(Tail(ps) \o qs) = Len(ps) + Len(qs) - 1
      BY ONLY <1>3, <1>4, <2>2, <2>4
    <3>3. \A i \in 1..Len(ps) + Len(qs) - 1 : Tail(ps \o qs)[i] = (Tail(ps) \o qs)[i]
      BY ONLY <1>3, <1>4, <2>2, <2>4
    <3> QED BY <3>1, <3>2, <3>3
  <2>6. PICK all : all = ps \o qs
    OBVIOUS
  <2>7. all \in Seq(Packets) /\ all # <<>> /\ Leads(pub, start, d, all, f)
    BY <2>3, <2>4, <2>6
  <2>8. PICK g : Takes(pub, start, d, Head(all), g) /\ Leads(pub, start, g, Tail(all), f)
    BY ONLY <2>7, LeadsFirst
  <2>9. Takes(pub, start, d, Head(ps), g) /\ Leads(pub, start, g, Tail(ps) \o qs, f)
    BY <2>4, <2>5, <2>6, <2>8, Zenon
  <2> QED BY <1>6, <2>1, <2>9, Zenon
<1>11. ~RevisionGap(mirror, p) /\ Accepts(mirror, p)
  BY <1>2, <1>5, <1>9, Zenon DEF Takes
<1>12. e.mirror = m /\ e.position = at
  OBVIOUS
<1>13. /\ m.providers = published[at]
       /\ at \in Nat /\ position <= at /\ at <= Len(published)
  <2> HIDE DEF m, at, e
  <2> QED BY <1>2, <1>5, <1>9, <1>12, Zenon DEF Takes
<1>14. IsMirror(m)
  BY <1>1, <1>2, <1>4, MirrorStays
<1> HIDE DEF m, at, e, p
<1>15. Tail(channel) \in Seq(Packets)
  BY <1>2, <1>4
<1>16. \E f : Leads(published, stream_start, e, Tail(channel), f)
  BY <1>2, <1>9, Zenon
<1>17. session # None /\ session.subscribed =>
           Leads(published, stream_start, e, Tail(channel) \o session.outgoing, Target)
  BY <1>2, <1>10, Zenon
<1> QED BY <1>11, <1>13, <1>14, <1>15, <1>16, <1>17, Zenon DEF m, at, e, p

(* What a receipt does.                                                    *)
LEMMA ReceiptShows ==
    ASSUME StreamInv, Receive
    PROVE  LET p == Head(channel)
               m == Applied(mirror, p)
               at == IF Publishes(p) THEN stream_start + p.revision ELSE position
           IN  /\ channel # <<>> /\ channel' = Tail(channel)
               /\ mirror' = m /\ position' = at
               /\ UNCHANGED <<session, client, feed, historyVars, stream_start>>
<1>1. channel # <<>> /\ UNCHANGED <<feed, historyVars, stream_start>>
  BY DEF Receive
<1>2. ~RevisionGap(mirror, Head(channel)) /\ Accepts(mirror, Head(channel))
  BY <1>1, NextIsTaken
<1> QED BY <1>1, <1>2, Zenon DEF Receive

(* A receipt moves the display one packet on, towards the same end.        *)
LEMMA ReceivingPacket ==
    ASSUME StreamInv, Receive
    PROVE  StreamInv'
<1> DEFINE e == [mirror |-> mirror', position |-> position']
<1>1. /\ channel # <<>> /\ channel' = Tail(channel)
      /\ UNCHANGED <<session, client, feed, historyVars, stream_start>>
  BY ReceiptShows
<1>2. UNCHANGED <<session, client, revision, published, run_start, stream_start>>
  BY <1>1 DEF feed, historyVars
<1>3. /\ IsMirror(mirror') /\ mirror'.providers = published[position']
      /\ position' \in Nat /\ position <= position' /\ position' <= Len(published)
      /\ Tail(channel) \in Seq(Packets)
      /\ \E f : Leads(published, stream_start, e, Tail(channel), f)
      /\ session # None /\ session.subscribed =>
             Leads(published, stream_start, e, Tail(channel) \o session.outgoing, Target)
  BY <1>1, NextIsTaken, ReceiptShows, Zenon
<1>4. FeedInv'
  BY <1>1, SameFeed DEF StreamInv
<1>5. MirrorInv'
  <2>1. position \in Nat \ {0} /\ stream_start \in Nat \ {0}
    BY DEF StreamInv, MirrorInv
  <2>2. position' \in Nat \ {0}
    BY <1>3, <2>1
  <2> QED BY <1>2, <1>3, <2>1, <2>2 DEF MirrorInv, IsMirror
<1>6. SessionInv'
  BY <1>1, <1>2, <1>3 DEF StreamInv, SessionInv
<1>7. Display' = e
  BY DEF Display
<1>8. Target' = Target
  <2>1. Target' = [mirror |-> Showing(session'.revision,
                                      published'[run_start' + session'.revision]),
                   position |-> run_start' + session'.revision]
    BY Zenon DEF Target, Showing
  <2> QED BY <1>2, <2>1, Zenon DEF Target
<1>9. PipeInv'
  <2>1. \E f : Leads(published', stream_start', Display', channel', f)
    BY <1>1, <1>2, <1>3, <1>7, Zenon
  <2>2. session' # None /\ session'.subscribed =>
            Leads(published', stream_start', Display', channel' \o session'.outgoing, Target')
    BY <1>1, <1>2, <1>3, <1>7, <1>8, Zenon
  <2> QED BY <2>1, <2>2, Zenon DEF PipeInv
<1> QED BY <1>4, <1>5, <1>6, <1>9 DEF StreamInv

-----------------------------------------------------------------------------
(* All together.                                                           *)

(* The invariant holds at first, every step keeps it, and it always holds. *)
LEMMA StreamStarts == StreamInit => StreamInv
<1> SUFFICES ASSUME StreamInit PROVE StreamInv
  OBVIOUS
<1>1. /\ visible = {} /\ order = [a \in {} |-> 0] /\ revision = 0 /\ changes = <<>>
      /\ session = None /\ channel = <<>> /\ mirror = EmptyMirror
      /\ published = <<{}>> /\ run_start = 1 /\ stream_start = 1 /\ position = 1
  BY DEF StreamInit, Init
<1>2. /\ published \in Seq(SUBSET PublishableScenes) /\ Len(published) = 1
      /\ published[1] = {}
  BY <1>1
<1>3. FeedInv
  <2>1. AllSound(published)
    <3> SUFFICES ASSUME NEW i \in 1..Len(published) PROVE Sound(published[i])
      BY DEF AllSound
    <3>1. i = 1
      BY <1>2
    <3> QED BY <1>2, <3>1, NothingIsSound
  <2>2. Retells(published, run_start, changes, revision)
    <3>1. changes \in Seq(ChangeRecords) /\ Len(changes) = 0
      BY <1>1
    <3> QED BY <1>1, <3>1 DEF Retells
  <2>3. \A a \in ApplicationsOf(visible) : order[a] \in Int
    BY <1>1 DEF ApplicationsOf
  <2> QED BY <1>1, <1>2, <2>1, <2>2, <2>3 DEF FeedInv
<1>4. MirrorInv
  BY <1>1, <1>2 DEF MirrorInv, EmptyMirror, IsMirror
<1>5. SessionInv
  BY <1>1 DEF SessionInv
<1>6. PipeInv
  <2>1. Leads(published, stream_start, Display, channel, Display)
    BY <1>1, LeadsNowhere
  <2> QED BY <1>1, <2>1, Zenon DEF PipeInv
<1> QED BY <1>3, <1>4, <1>5, <1>6 DEF StreamInv

(* No step of any actor breaks it.                                         *)
LEMMA StreamKeeps == StreamInv /\ [StreamNext]_streamVars => StreamInv'
<1> SUFFICES ASSUME StreamInv, [StreamNext]_streamVars PROVE StreamInv'
  OBVIOUS
<1>1. CASE StoreStep
  <2>1. FeedInv'
    BY <1>1, StoreKeepsFeed DEF StreamInv
  <2>2. published' = Append(published, visible')
        /\ UNCHANGED <<channel, client, mirror, position, stream_start, session, run_start>>
    BY <1>1 DEF StoreStep, sessionVars, clientVars
  <2>3. revision' = revision + 1
    BY <1>1 DEF StoreStep, Next, Upsert, RemoveProvider, Reset, Record
  <2> QED BY <2>1, <2>2, <2>3, PublishedWhileSent
<1>2. CASE ProcessSubscription
  BY <1>2, SendingSnapshot DEF ProcessSubscription, Idle
<1>3. CASE WaitForUpdates
  BY <1>3, SendingChanges
<1>4. CASE TakeSnapshot
  <2>1. session # None /\ session.outgoing = <<>>
    BY <1>4 DEF TakeSnapshot, StreamInv, SessionInv
  <2> QED BY <1>4, <2>1, SendingSnapshot DEF TakeSnapshot
<1>5. CASE SendPacket
  BY <1>5, SendingPacket
<1>6. CASE Connect
  BY <1>6, NothingSent DEF Connect
<1>7. CASE Receive
  BY <1>7, ReceivingPacket
<1>8. CASE PeerClosed
  BY <1>8, NothingSent DEF PeerClosed, Drop
<1>9. CASE CloseSession
  BY <1>9, ClosingSession
<1>10. CASE LoseConnection
  BY <1>10, NothingSent DEF LoseConnection, Drop
<1>11. CASE RestartBroker
  <2>1. FeedInv'
    BY <1>11, RestartKeepsFeed DEF StreamInv
  <2>2. published' = Append(published, visible')
        /\ UNCHANGED <<channel, client, mirror, position, stream_start>> /\ session' = None
    BY <1>11 DEF RestartBroker, Restart, clientVars
  <2> QED BY <2>1, <2>2, PublishedWhileSent
<1>12. CASE UNCHANGED streamVars
  <2>1. UNCHANGED <<feed, historyVars, session, channel, client, mirror, position, stream_start>>
    BY <1>12 DEF streamVars, sessionVars, clientVars
  <2>2. FeedInv'
    BY <2>1, SameFeed DEF StreamInv
  <2>3. UNCHANGED <<published, run_start, revision>>
    BY <2>1 DEF feed, historyVars
  <2>4. MirrorInv' /\ SessionInv'
    BY <2>1, <2>3 DEF StreamInv, MirrorInv, SessionInv, IsMirror
  <2>5. PipeInv'
    <3>1. PipeInv
      BY DEF StreamInv
    <3> QED BY <2>1, <2>3, <3>1 DEF PipeInv, Display, Target
  <2> QED BY <2>2, <2>4, <2>5 DEF StreamInv
<1> QED BY <1>1, <1>2, <1>3, <1>4, <1>5, <1>6, <1>7, <1>8, <1>9, <1>10, <1>11, <1>12
        DEF StreamNext, SessionStep, ClientStep

(* So it holds in every behaviour.                                         *)
LEMMA StreamHolds == StreamSpec => []StreamInv
BY StreamStarts, StreamKeeps, PTL DEF StreamSpec

(* On an ordered socket the broker never sends what the mirror refuses.    *)
THEOREM NothingIsRefused == StreamSpec => []StreamIsAccepted
<1>1. StreamInv => StreamIsAccepted
  BY NextIsTaken DEF StreamIsAccepted
<1> QED BY <1>1, StreamHolds, PTL

(* What the session takes for sent and shown is shown once it has arrived. *)
THEOREM SessionIsRight == StreamSpec => []SessionKnowsMirror
<1>1. StreamInv => SessionKnowsMirror
  <2> SUFFICES ASSUME StreamInv, session # None, session.subscribed,
                      session.outgoing = <<>>, channel = <<>>
               PROVE  /\ mirror.revision = session.revision
                      /\ position = run_start + session.revision
                      /\ mirror.pending = None /\ mirror.staged = {}
    BY DEF SessionKnowsMirror
  <2>1. Leads(published, stream_start, Display, channel \o session.outgoing, Target)
    BY DEF StreamInv, PipeInv
  <2>2. channel \o session.outgoing = <<>> /\ Len(<<>>) + 1 = 1
    OBVIOUS
  <2>3. PICK ds : ds[1] = Display /\ ds[Len(<<>>) + 1] = Target
    BY <2>1, <2>2, Zenon DEF Leads
  <2>4. Display = Target
    BY <2>2, <2>3, Zenon
  <2>5. mirror = Showing(session.revision, published[run_start + session.revision])
        /\ position = run_start + session.revision
    BY <2>4 DEF Display, Target
  <2> QED BY <2>5 DEF Showing
<1> QED BY <1>1, StreamHolds, PTL

(* The renderer shows a set of scenes that the broker published, and never *)
(* goes back.                                                              *)
THEOREM StreamImplementsReplica == StreamSpec => ImplementsReplica
<1>1. StreamInit => Replica!Init
  BY DEF StreamInit, EmptyMirror, Replica!Init
<1>2. StreamInv /\ [StreamNext]_streamVars => [Replica!Next]_(Replica!vars)
  <2> SUFFICES ASSUME StreamInv, [StreamNext]_streamVars
               PROVE  Replica!Next \/ UNCHANGED Replica!vars
    BY DEF Replica!vars
  <2>1. published \in Seq(SUBSET PublishableScenes)
    BY DEF StreamInv, FeedInv
  <2>2. ASSUME NEW W, published' = Append(published, W), UNCHANGED <<mirror, position>>
        PROVE  Replica!Next
    <3>1. Len(published') = Len(published) + 1
      BY <2>1, <2>2
    <3>2. SubSeq(published', 1, Len(published)) = published
      BY <2>1, <2>2
    <3> QED BY <2>2, <3>1, <3>2 DEF Replica!Next, Replica!Publish
  <2>3. CASE StoreStep
    BY <2>2, <2>3 DEF StoreStep, clientVars
  <2>4. CASE RestartBroker
    BY <2>2, <2>4 DEF RestartBroker, clientVars
  <2>5. CASE Receive
    <3>1. channel # <<>> /\ UNCHANGED published
      BY <2>5, ReceiptShows DEF historyVars
    <3>2. /\ mirror'.providers = published[position']
          /\ position' \in Nat /\ position <= position' /\ position' <= Len(published)
      BY <2>5, <3>1, NextIsTaken, ReceiptShows, Zenon
    <3>3. position \in Nat
      BY DEF StreamInv, MirrorInv
    <3> QED BY <3>1, <3>2, <3>3 DEF Replica!Next, Replica!Show
  <2>6. CASE UNCHANGED <<published, position, mirror>>
    BY <2>6 DEF Replica!vars
  <2>7. CASE SessionStep \/ Connect \/ PeerClosed \/ CloseSession \/ LoseConnection
             \/ UNCHANGED streamVars
    BY <2>6, <2>7 DEF SessionStep, ProcessSubscription, WaitForUpdates, TakeSnapshot, SendPacket,
       Connect, PeerClosed, CloseSession, LoseConnection, historyVars, clientVars, streamVars
  <2> QED BY <2>3, <2>4, <2>5, <2>7 DEF StreamNext, ClientStep
<1> QED BY <1>1, <1>2, StreamHolds, PTL DEF StreamSpec, ImplementsReplica, Replica!Spec

=============================================================================
