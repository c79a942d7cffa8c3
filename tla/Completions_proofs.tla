-------------------------- MODULE Completions_proofs --------------------------
(* Theorems about one completion: the scan of its body, for any length and *)
(* limits; the limits it is admitted under, for every policy, report and   *)
(* setting; and the frames of its stream, for every set of frames.         *)
EXTENDS BodyGuard, ModelPolicy, StreamFrames, SequenceTheorems,
        WellFoundedInduction, TLAPS

-------------------------------------------------------------------------------
(* The body guard.                                                         *)

ScanStates == [depth : Nat, inString : BOOLEAN, escaped : BOOLEAN]

Bytes == {"plain", "open", "close", "quote", "backslash"}

(* What the client means at the end of what it has written.                *)
Meant == [depth |-> client.depth, inString |-> client.quoting, escaped |-> FALSE]

(* The states that the bytes of w lead through, and how deep they get.     *)
Path(t, w, from, to, deepest) ==
  /\ t \in [0 .. Len(w) -> ScanStates]
  /\ t[0] = from /\ t[Len(w)] = to
  /\ \A i \in 1 .. Len(w) : t[i] = ScanByte(t[i - 1], w[i])
  /\ \A i \in 0 .. Len(w) : t[i].depth <= deepest
  /\ deepest <= DepthLimit \/ \E i \in 0 .. Len(w) : t[i].depth > DepthLimit

ClientOK ==
  /\ client = [bytes |-> client.bytes, depth |-> client.depth, deepest |-> client.deepest,
               quoting |-> client.quoting, ended |-> client.ended]
  /\ client.bytes \in Nat /\ client.depth \in Nat /\ client.deepest \in Nat
  /\ client.quoting \in BOOLEAN

PiecesOK ==
  /\ guard = [size |-> guard.size, left |-> guard.left, more |-> guard.more, scan |-> guard.scan]
  /\ guard.size \in Nat /\ guard.left \in 0 .. Len(wire) /\ guard.more \in BOOLEAN
  /\ guard.scan \in ScanStates

(* While the middleware reads, the bytes on the wire lead it to what the   *)
(* client means, wherever a piece ends.                                    *)
ReadingOK ==
  /\ guard.scan.depth <= DepthLimit /\ guard.size <= ByteLimit
  /\ client.bytes = guard.size + (Len(wire) - guard.left)
  /\ ~guard.more => client.ended /\ guard.left = Len(wire) /\ wire # <<>>
  /\ \E t : Path(t, wire, guard.scan, Meant, client.deepest)

GuardInv ==
  /\ ClientOK /\ PiecesOK
  /\ wire \in Seq(Bytes)
  /\ verdict = "reading" => ReadingOK
  /\ DepthGuardSound

LEMMA ScanByteType ==
  ASSUME NEW s \in ScanStates, NEW byte
  PROVE  /\ ScanByte(s, byte) \in ScanStates
         /\ s.inString => ScanByte(s, byte).depth = s.depth
<1>1. CASE s.inString
  BY <1>1 DEF ScanByte, ScanStates
<1>2. CASE ~s.inString
  <2> DEFINE depth == CASE byte = "open" -> s.depth + 1
                        [] byte = "close" /\ s.depth > 0 -> s.depth - 1
                        [] OTHER -> s.depth
  <2>1. s.depth \in Nat
    BY DEF ScanStates
  <2>2. depth \in Nat
    <3>1. CASE byte = "open"
      BY <2>1, <3>1
    <3>2. CASE byte # "open" /\ byte = "close" /\ s.depth > 0
      BY <2>1, <3>2
    <3>3. CASE byte # "open" /\ ~(byte = "close" /\ s.depth > 0)
      BY <2>1, <3>3
    <3> QED BY <3>1, <3>2, <3>3
  <2>3. ScanByte(s, byte) = [s EXCEPT !.inString = byte = "quote", !.depth = depth]
    BY <1>2 DEF ScanByte
  <2> HIDE DEF depth
  <2> QED BY <1>2, <2>2, <2>3 DEF ScanStates
<1> QED BY <1>1, <1>2

(* The byte b leads from s to new, and the greatest depth to most.         *)
Leads(s, b, new, deepest, most) ==
  /\ s \in ScanStates /\ b \in Bytes /\ new = ScanByte(s, b)
  /\ deepest \in Nat /\ most = IF new.depth > deepest THEN new.depth ELSE deepest

(* One byte more at the end.                                               *)
LEMMA PathAppend ==
  ASSUME NEW t, NEW w, w \in Seq(Bytes), NEW from, NEW s, NEW deepest,
         Path(t, w, from, s, deepest),
         NEW byte, NEW new, NEW most, Leads(s, byte, new, deepest, most)
  PROVE  \E u : Path(u, Append(w, byte), from, new, most)
<1> DEFINE n == Len(w)
           v == Append(w, byte)
           u == [i \in 0 .. n + 1 |-> IF i <= n THEN t[i] ELSE new]
<1>0. /\ s \in ScanStates /\ byte \in Bytes /\ new = ScanByte(s, byte)
      /\ deepest \in Nat /\ most = IF new.depth > deepest THEN new.depth ELSE deepest
  BY DEF Leads
<1>1. /\ n \in Nat /\ Len(v) = n + 1
      /\ \A i \in 1 .. n : v[i] = w[i]
      /\ v[n + 1] = byte
  BY <1>0
<1>2. new \in ScanStates /\ new.depth \in Nat
  BY <1>0, ScanByteType DEF ScanStates
<1>3. /\ t \in [0 .. n -> ScanStates]
      /\ t[0] = from /\ t[n] = s
      /\ \A i \in 1 .. n : t[i] = ScanByte(t[i - 1], w[i])
      /\ \A i \in 0 .. n : t[i].depth <= deepest
      /\ deepest <= DepthLimit \/ \E i \in 0 .. n : t[i].depth > DepthLimit
  BY DEF Path
<1> HIDE DEF n, v
<1>4. /\ u \in [0 .. n + 1 -> ScanStates]
      /\ \A i \in 0 .. n : u[i] = t[i]
      /\ u[n + 1] = new
  BY <1>1, <1>2, <1>3
<1> HIDE DEF u
<1>5. u[0] = from
  BY <1>1, <1>3, <1>4
<1>6. ASSUME NEW i \in 1 .. n + 1 PROVE u[i] = ScanByte(u[i - 1], v[i])
  <2>1. CASE i \in 1 .. n
    <3>1. u[i] = t[i] /\ u[i - 1] = t[i - 1] /\ v[i] = w[i]
      BY <1>1, <1>4, <2>1
    <3> QED BY <1>3, <2>1, <3>1
  <2>2. CASE i = n + 1
    <3>1. i - 1 = n /\ u[n] = t[n] /\ u[i] = new /\ v[i] = byte
      BY <1>1, <1>4, <2>2
    <3> QED BY <1>0, <1>3, <3>1
  <2> QED BY <1>1, <2>1, <2>2
<1>7. deepest <= most /\ new.depth <= most /\ (most = deepest \/ most = new.depth)
  BY <1>0, <1>2
<1>8. ASSUME NEW i \in 0 .. n + 1 PROVE u[i].depth <= most
  <2>1. CASE i \in 0 .. n
    <3>1. u[i] = t[i] /\ t[i].depth <= deepest /\ t[i].depth \in Nat
      BY <1>3, <1>4, <2>1 DEF ScanStates
    <3> QED BY <1>0, <1>2, <1>7, <3>1
  <2>2. CASE i = n + 1
    BY <1>4, <1>7, <2>2
  <2> QED BY <1>1, <2>1, <2>2
<1>9. most <= DepthLimit \/ \E i \in 0 .. n + 1 : u[i].depth > DepthLimit
  <2>1. CASE most = new.depth
    <3>1. n + 1 \in 0 .. n + 1 /\ u[n + 1].depth = most
      BY <1>1, <1>4, <2>1
    <3>2. most \in Nat
      BY <1>2, <2>1
    <3> QED BY <3>1, <3>2, GuardAssumption
  <2>2. CASE most = deepest
    <3>1. \A i \in 0 .. n : i \in 0 .. n + 1 /\ u[i] = t[i]
      BY <1>1, <1>4
    <3> QED BY <1>3, <2>2, <3>1
  <2> QED BY <1>7, <2>1, <2>2
<1>10. Path(u, v, from, new, most)
  BY <1>1, <1>4, <1>5, <1>6, <1>8, <1>9 DEF Path
<1> QED BY <1>10 DEF v

(* The first byte is scanned.                                              *)
LEMMA PathTail ==
  ASSUME NEW t, NEW w \in Seq(Bytes), w # <<>>, NEW from, NEW to, NEW deepest \in Nat,
         Path(t, w, from, to, deepest), from \in ScanStates, from.depth <= DepthLimit,
         NEW next, next = ScanByte(from, Head(w))
  PROVE  /\ next \in ScanStates /\ next.depth <= deepest
         /\ \E u : Path(u, Tail(w), next, to, deepest)
<1> DEFINE n == Len(w)
           v == Tail(w)
           u == [i \in 0 .. n - 1 |-> t[i + 1]]
<1>1. /\ n \in Nat \ {0} /\ Len(v) = n - 1 /\ Head(w) = w[1]
      /\ \A i \in 1 .. n - 1 : v[i] = w[i + 1]
  BY HeadTailProperties
<1>3. /\ t \in [0 .. n -> ScanStates]
      /\ t[0] = from /\ t[n] = to
      /\ \A i \in 1 .. n : t[i] = ScanByte(t[i - 1], w[i])
      /\ \A i \in 0 .. n : t[i].depth <= deepest
      /\ deepest <= DepthLimit \/ \E i \in 0 .. n : t[i].depth > DepthLimit
  BY DEF Path
<1> HIDE DEF n, v
<1>4. t[1] = next
  <2>1. 1 \in 1 .. n /\ 1 - 1 = 0
    BY <1>1
  <2>2. t[1] = ScanByte(t[1 - 1], w[1])
    BY <1>3, <2>1
  <2> QED BY <1>1, <1>3, <2>1, <2>2
<1>5. next \in ScanStates /\ next.depth <= deepest
  <2>1. 1 \in 0 .. n
    BY <1>1
  <2> QED BY <1>3, <1>4, <2>1
<1>6. /\ u \in [0 .. n - 1 -> ScanStates]
      /\ \A i \in 0 .. n - 1 : u[i] = t[i + 1]
  BY <1>1, <1>3
<1> HIDE DEF u
<1>7. u[0] = next /\ u[n - 1] = to
  <2>1. 0 \in 0 .. n - 1 /\ n - 1 \in 0 .. n - 1 /\ 0 + 1 = 1 /\ n - 1 + 1 = n
    BY <1>1
  <2> QED BY <1>3, <1>4, <1>6, <2>1
<1>8. ASSUME NEW i \in 1 .. n - 1 PROVE u[i] = ScanByte(u[i - 1], v[i])
  <2>1. /\ i + 1 \in 1 .. n /\ i \in 0 .. n - 1 /\ i - 1 \in 0 .. n - 1
        /\ i - 1 + 1 = i /\ i + 1 - 1 = i
    BY <1>1
  <2>2. u[i] = t[i + 1] /\ u[i - 1] = t[i] /\ v[i] = w[i + 1]
    BY <1>1, <1>6, <2>1
  <2>3. t[i + 1] = ScanByte(t[i + 1 - 1], w[i + 1])
    BY <1>3, <2>1
  <2> QED BY <2>1, <2>2, <2>3
<1>9. ASSUME NEW i \in 0 .. n - 1 PROVE u[i].depth <= deepest
  <2>1. i + 1 \in 0 .. n /\ u[i] = t[i + 1]
    BY <1>1, <1>6
  <2> QED BY <1>3, <2>1
<1>10. deepest <= DepthLimit \/ \E i \in 0 .. n - 1 : u[i].depth > DepthLimit
  <2>1. ASSUME NEW i \in 0 .. n, t[i].depth > DepthLimit
        PROVE  \E k \in 0 .. n - 1 : u[k].depth > DepthLimit
    <3>1. i # 0
      BY <1>3, <2>1, GuardAssumption DEF ScanStates
    <3>2. i - 1 \in 0 .. n - 1 /\ i - 1 + 1 = i
      BY <1>1, <3>1
    <3>3. u[i - 1] = t[i]
      BY <1>6, <3>2
    <3> QED BY <2>1, <3>2, <3>3
  <2> QED BY <1>3, <2>1
<1>11. Path(u, v, next, to, deepest)
  BY <1>1, <1>6, <1>7, <1>8, <1>9, <1>10 DEF Path
<1> QED BY <1>5, <1>11 DEF v

LEMMA GuardInitInv == GuardInit => GuardInv
<1> SUFFICES ASSUME GuardInit PROVE GuardInv
  OBVIOUS
<1> DEFINE t == [i \in 0 .. 0 |-> guard.scan]
<1>1. /\ client = [bytes |-> 0, depth |-> 0, deepest |-> 0, quoting |-> FALSE, ended |-> FALSE]
      /\ wire = <<>> /\ Len(wire) = 0 /\ wire \in Seq(Bytes)
      /\ guard = [size |-> 0, left |-> 0, more |-> TRUE,
                  scan |-> [depth |-> 0, inString |-> FALSE, escaped |-> FALSE]]
      /\ verdict = "reading"
  BY DEF GuardInit
<1>2. guard.scan \in ScanStates /\ guard.scan.depth = 0 /\ Meant = guard.scan
  BY <1>1 DEF ScanStates, Meant
<1>3. client.deepest = 0 /\ 0 <= DepthLimit /\ 0 <= ByteLimit
  BY <1>1, GuardAssumption
<1>4. Path(t, wire, guard.scan, Meant, client.deepest)
  BY <1>1, <1>2, <1>3 DEF Path
<1>5. ClientOK
  BY <1>1 DEF ClientOK
<1>6. PiecesOK
  BY <1>1, <1>2 DEF PiecesOK
<1>7. ReadingOK
  BY <1>1, <1>2, <1>3, <1>4 DEF ReadingOK
<1> QED BY <1>1, <1>5, <1>6, <1>7 DEF GuardInv, DepthGuardSound

(* Bytes that lead to what the client means now.                           *)
Tells(w) ==
  /\ w \in Seq(Bytes) /\ Len(w) \in Nat /\ w # <<>>
  /\ ClientOK'
  /\ client'.bytes = client.bytes + (Len(w) - Len(wire))
  /\ client'.ended = client.ended
  /\ \E t : Path(t, w, guard.scan, Meant', client'.deepest)

LEMMA WriteKeeps ==
  ASSUME GuardInv, NEW bytes, Write(bytes), Tells(wire \o bytes), Len(wire) <= Len(wire \o bytes)
  PROVE  GuardInv'
<1>1. /\ verdict = "reading" /\ ~client.ended
      /\ wire' = wire \o bytes /\ guard' = guard /\ verdict' = verdict
  BY DEF Write
<1>2. ReadingOK /\ PiecesOK /\ wire \in Seq(Bytes) /\ Len(wire) \in Nat
  BY <1>1 DEF GuardInv
<1>3. guard.more
  BY <1>1, <1>2 DEF ReadingOK
<1>4. /\ client'.bytes = guard.size + (Len(wire') - guard.left)
      /\ guard.left \in 0 .. Len(wire')
  <2>1. /\ client.bytes = guard.size + (Len(wire) - guard.left) /\ guard.left \in 0 .. Len(wire)
        /\ client'.bytes = client.bytes + (Len(wire') - Len(wire))
        /\ Len(wire') \in Nat /\ guard.size \in Nat /\ Len(wire) <= Len(wire')
    BY <1>1, <1>2 DEF ReadingOK, PiecesOK, Tells
  <2> QED BY <1>2, <2>1
<1>5. ReadingOK'
  BY <1>1, <1>2, <1>3, <1>4 DEF ReadingOK, Tells
<1>6. PiecesOK'
  BY <1>1, <1>2, <1>4 DEF PiecesOK
<1> QED BY <1>1, <1>5, <1>6 DEF GuardInv, Tells, DepthGuardSound

(* A token of one byte.                                                    *)
LEMMA TellOne ==
  ASSUME GuardInv, verdict = "reading", NEW byte \in Bytes, ClientOK',
         Meant' = ScanByte(Meant, byte),
         client'.deepest = IF client'.depth > client.deepest THEN client'.depth
                           ELSE client.deepest,
         client'.bytes = client.bytes + 1, client'.ended = client.ended
  PROVE  Tells(wire \o <<byte>>) /\ Len(wire) <= Len(wire \o <<byte>>)
<1>1. /\ wire \in Seq(Bytes) /\ client.deepest \in Nat /\ client'.deepest \in Nat
      /\ Meant \in ScanStates /\ Meant'.depth = client'.depth
  BY DEF GuardInv, ClientOK, Meant, ScanStates
<1>2. PICK t : Path(t, wire, guard.scan, Meant, client.deepest)
  BY DEF GuardInv, ReadingOK
<1>3. \E u : Path(u, Append(wire, byte), guard.scan, Meant', client'.deepest)
  <2> DEFINE new == Meant'
             s == Meant
             most == client'.deepest
             deepest == client.deepest
  <2>1. /\ s \in ScanStates /\ new = ScanByte(s, byte) /\ deepest \in Nat /\ most \in Nat
        /\ most = (IF new.depth > deepest THEN new.depth ELSE deepest)
        /\ Path(t, wire, guard.scan, s, deepest) /\ wire \in Seq(Bytes)
    BY <1>1, <1>2
  <2>a. Leads(s, byte, new, deepest, most)
    BY <2>1 DEF Leads
  <2> HIDE DEF new, s, most, deepest
  <2>2. \E u : Path(u, Append(wire, byte), guard.scan, new, most)
    BY <2>1, <2>a, PathAppend
  <2> QED BY <2>2 DEF new, most
<1>4. /\ wire \o <<byte>> = Append(wire, byte) /\ Append(wire, byte) \in Seq(Bytes)
      /\ Len(Append(wire, byte)) = Len(wire) + 1 /\ Len(wire) \in Nat
      /\ Append(wire, byte) # <<>>
  BY <1>1
<1>5. client'.bytes = client.bytes + (Len(Append(wire, byte)) - Len(wire))
  BY <1>4 DEF GuardInv, ClientOK
<1>6. Len(Append(wire, byte)) \in Nat /\ Len(wire) <= Len(Append(wire, byte))
  BY <1>4
<1> DEFINE w == Append(wire, byte)
<1> HIDE DEF w
<1>7. Tells(w)
  BY <1>3, <1>4, <1>5, <1>6 DEF Tells, w
<1> QED BY <1>4, <1>6, <1>7 DEF w

(* A token of two bytes inside a string.                                   *)
LEMMA TellTwo ==
  ASSUME GuardInv, verdict = "reading", client.quoting,
         NEW byte \in {"quote", "backslash"}, ClientOK',
         Meant' = Meant, client'.deepest = client.deepest,
         client'.bytes = client.bytes + 2, client'.ended = client.ended
  PROVE  /\ Tells(wire \o <<"backslash", byte>>)
         /\ Len(wire) <= Len(wire \o <<"backslash", byte>>)
<1> DEFINE s == Meant
           mid == ScanByte(s, "backslash")
           w == Append(wire, "backslash")
           deepest == client.deepest
<1>1. /\ wire \in Seq(Bytes) /\ deepest \in Nat
      /\ s \in ScanStates /\ s.inString = TRUE /\ s.escaped = FALSE /\ s.depth = client.depth
  BY DEF GuardInv, ClientOK, Meant, ScanStates
<1>2. PICK t : Path(t, wire, guard.scan, s, deepest)
  BY DEF GuardInv, ReadingOK
<1>3. mid \in ScanStates /\ mid.depth = s.depth
  BY <1>1, ScanByteType
<1>4. ScanByte(mid, byte) = s
  <2>1. mid = [s EXCEPT !.escaped = TRUE, !.inString = TRUE]
    BY <1>1 DEF ScanByte
  <2>2. mid.inString = TRUE /\ mid.escaped = TRUE
    BY <1>1, <2>1 DEF ScanStates
  <2>3. ScanByte(mid, byte) = [mid EXCEPT !.escaped = FALSE, !.inString = TRUE]
    BY <2>2 DEF ScanByte
  <2> HIDE DEF mid
  <2> QED BY <1>1, <2>1, <2>3 DEF ScanStates
<1>5. s.depth <= deepest
  BY <1>1, <1>2 DEF Path
<1> HIDE DEF s, mid, deepest
<1>6. /\ deepest = (IF mid.depth > deepest THEN mid.depth ELSE deepest)
      /\ deepest = (IF s.depth > deepest THEN s.depth ELSE deepest)
      /\ "backslash" \in Bytes /\ byte \in Bytes
  BY <1>1, <1>3, <1>5 DEF ScanStates, Bytes
<1>7. \E u : Path(u, w, guard.scan, mid, deepest)
  <2>1. mid = ScanByte(s, "backslash")
    BY DEF mid
  <2>2. Leads(s, "backslash", mid, deepest, deepest)
    BY <1>1, <1>6, <2>1 DEF Leads
  <2> QED BY <1>1, <1>2, <2>2, PathAppend
<1>8. PICK v : Path(v, w, guard.scan, mid, deepest)
  BY <1>7
<1>9. w \in Seq(Bytes)
  BY <1>1, <1>6
<1>10. \E u : Path(u, Append(w, byte), guard.scan, s, deepest)
  <2>1. Leads(mid, byte, s, deepest, deepest)
    BY <1>1, <1>3, <1>4, <1>6 DEF Leads
  <2> HIDE DEF w
  <2> QED BY <1>8, <1>9, <2>1, PathAppend
<1>11. /\ wire \o <<"backslash", byte>> = Append(w, byte) /\ Append(w, byte) \in Seq(Bytes)
       /\ Len(Append(w, byte)) = Len(wire) + 2 /\ Len(wire) \in Nat
       /\ Append(w, byte) # <<>>
  BY <1>1, <1>6
<1>12. client'.bytes = client.bytes + (Len(Append(w, byte)) - Len(wire))
  BY <1>11 DEF GuardInv, ClientOK
<1>13. Len(Append(w, byte)) \in Nat /\ Len(wire) <= Len(Append(w, byte))
  BY <1>11
<1> DEFINE v2 == Append(w, byte)
<1> HIDE DEF w, v2
<1>14. Tells(v2)
  BY <1>10, <1>11, <1>12, <1>13 DEF Tells, s, deepest, v2
<1> QED BY <1>11, <1>13, <1>14 DEF v2

LEMMA WritesKeep ==
  ASSUME GuardInv, WriteOpen \/ WriteClose \/ WriteQuote \/ WriteText
  PROVE  GuardInv'
<1>1. ClientOK /\ (verdict = "reading" => client.depth <= client.deepest)
  <2>1. ASSUME verdict = "reading" PROVE client.depth <= client.deepest
    <3>1. PICK t : Path(t, wire, guard.scan, Meant, client.deepest)
      BY <2>1 DEF GuardInv, ReadingOK
    <3>2. Len(wire) \in 0 .. Len(wire)
      BY DEF GuardInv
    <3> QED BY <3>1, <3>2 DEF Path, Meant
  <2> QED BY <2>1 DEF GuardInv
<1>2. /\ client.bytes \in Nat /\ client.depth \in Nat /\ client.deepest \in Nat
      /\ client.quoting \in BOOLEAN
  BY <1>1 DEF ClientOK
<1>3. ASSUME NEW bytes, Write(bytes), Len(bytes) \in Nat,
             client' = [Wrote(bytes) EXCEPT !.depth = client'.depth, !.deepest = client'.deepest,
                                            !.quoting = client'.quoting],
             client'.depth \in Nat, client'.deepest \in Nat, client'.quoting \in BOOLEAN
      PROVE  /\ ClientOK' /\ client'.ended = client.ended /\ verdict = "reading"
             /\ client'.bytes = client.bytes + Len(bytes)
  <2>1. /\ client' = [bytes |-> client'.bytes, depth |-> client'.depth,
                      deepest |-> client'.deepest, quoting |-> client'.quoting,
                      ended |-> client'.ended]
        /\ client'.bytes = client.bytes + Len(bytes) /\ client'.ended = client.ended
    BY <1>1, <1>3 DEF Wrote, ClientOK
  <2>2. client'.bytes \in Nat
    BY <1>2, <1>3, <2>1
  <2> QED BY <1>3, <2>1, <2>2 DEF ClientOK, Write
<1>4. CASE WriteOpen
  <2>1. /\ ~client.quoting /\ Write(<<"open">>) /\ Len(<<"open">>) = 1
        /\ client' = [Wrote(<<"open">>) EXCEPT !.depth = client.depth + 1,
             !.deepest = IF client.depth + 1 > @ THEN client.depth + 1 ELSE @]
    BY <1>4 DEF WriteOpen
  <2>2. /\ client'.depth = client.depth + 1 /\ client'.quoting = client.quoting
        /\ client'.deepest = IF client'.depth > client.deepest THEN client'.depth
                             ELSE client.deepest
        /\ client' = [Wrote(<<"open">>) EXCEPT !.depth = client'.depth,
                        !.deepest = client'.deepest, !.quoting = client'.quoting]
    BY <1>1, <2>1 DEF ClientOK, Wrote
  <2>3. client'.depth \in Nat /\ client'.deepest \in Nat /\ client'.quoting \in BOOLEAN
    BY <1>2, <2>2
  <2>4. /\ ClientOK' /\ client'.ended = client.ended /\ verdict = "reading"
        /\ client'.bytes = client.bytes + 1
    BY <1>3, <2>1, <2>2, <2>3
  <2>5. Meant' = ScanByte(Meant, "open")
    <3>1. client.quoting = FALSE /\ client'.depth = client.depth + 1 /\ client'.quoting = FALSE
      BY <1>2, <2>1, <2>2
    <3> QED BY <3>1 DEF Meant, ScanByte
  <2>6. Tells(wire \o <<"open">>) /\ Len(wire) <= Len(wire \o <<"open">>)
    BY <2>2, <2>4, <2>5, TellOne DEF Bytes
  <2> QED BY <2>1, <2>6, WriteKeeps
<1>5. CASE WriteClose
  <2>1. /\ ~client.quoting /\ client.depth > 0 /\ Write(<<"close">>) /\ Len(<<"close">>) = 1
        /\ client' = [Wrote(<<"close">>) EXCEPT !.depth = @ - 1]
    BY <1>5 DEF WriteClose
  <2>2. /\ client'.depth = client.depth - 1 /\ client'.quoting = client.quoting
        /\ client'.deepest = client.deepest
        /\ client' = [Wrote(<<"close">>) EXCEPT !.depth = client'.depth,
                        !.deepest = client'.deepest, !.quoting = client'.quoting]
    BY <1>1, <2>1 DEF ClientOK, Wrote
  <2>3. client'.depth \in Nat /\ client'.deepest \in Nat /\ client'.quoting \in BOOLEAN
    BY <1>2, <2>1, <2>2
  <2>4. /\ ClientOK' /\ client'.ended = client.ended /\ verdict = "reading"
        /\ client'.bytes = client.bytes + 1
    BY <1>3, <2>1, <2>2, <2>3
  <2>5. Meant' = ScanByte(Meant, "close")
    BY <1>2, <2>1, <2>2 DEF Meant, ScanByte
  <2>a. client'.deepest = IF client'.depth > client.deepest THEN client'.depth
                          ELSE client.deepest
    BY <1>1, <1>2, <2>2, <2>4
  <2>6. Tells(wire \o <<"close">>) /\ Len(wire) <= Len(wire \o <<"close">>)
    BY <2>a, <2>4, <2>5, TellOne DEF Bytes
  <2> QED BY <2>1, <2>6, WriteKeeps
<1>6. CASE WriteQuote
  <2>1. /\ Write(<<"quote">>) /\ Len(<<"quote">>) = 1
        /\ client' = [Wrote(<<"quote">>) EXCEPT !.quoting = ~@]
    BY <1>6 DEF WriteQuote
  <2>2. /\ client'.depth = client.depth /\ client'.quoting = ~client.quoting
        /\ client'.deepest = client.deepest
        /\ client' = [Wrote(<<"quote">>) EXCEPT !.depth = client'.depth,
                        !.deepest = client'.deepest, !.quoting = client'.quoting]
    BY <1>1, <2>1 DEF ClientOK, Wrote
  <2>3. client'.depth \in Nat /\ client'.deepest \in Nat /\ client'.quoting \in BOOLEAN
    BY <1>2, <2>2
  <2>4. /\ ClientOK' /\ client'.ended = client.ended /\ verdict = "reading"
        /\ client'.bytes = client.bytes + 1
    <3>1. Write(<<"quote">>) /\ Len(<<"quote">>) \in Nat
      BY <2>1
    <3>2. client' = [Wrote(<<"quote">>) EXCEPT !.depth = client'.depth,
                       !.deepest = client'.deepest, !.quoting = client'.quoting]
      BY <2>2
    <3>3. /\ ClientOK' /\ client'.ended = client.ended /\ verdict = "reading"
          /\ client'.bytes = client.bytes + Len(<<"quote">>)
      BY <1>3, <2>3, <3>1, <3>2
    <3> QED BY <2>1, <3>3
  <2>5. Meant' = ScanByte(Meant, "quote")
    <3>1. CASE client.quoting
      BY <2>2, <3>1 DEF Meant, ScanByte
    <3>2. CASE ~client.quoting
      BY <1>2, <2>2, <3>2 DEF Meant, ScanByte
    <3> QED BY <3>1, <3>2
  <2>a. client'.deepest = IF client'.depth > client.deepest THEN client'.depth
                          ELSE client.deepest
    BY <1>1, <1>2, <2>2, <2>4
  <2>6. Tells(wire \o <<"quote">>) /\ Len(wire) <= Len(wire \o <<"quote">>)
    BY <2>a, <2>4, <2>5, TellOne DEF Bytes
  <2> QED BY <2>1, <2>6, WriteKeeps
<1>7. CASE WriteText
  <2>0. PICK t \in Texts : client.quoting /\ Write(t) /\ client' = Wrote(t)
    BY <1>7 DEF WriteText
  <2>1. Len(t) \in Nat
    BY <2>0 DEF Texts
  <2>2. /\ client'.depth = client.depth /\ client'.quoting = client.quoting
        /\ client'.deepest = client.deepest
        /\ client' = [Wrote(t) EXCEPT !.depth = client'.depth,
                        !.deepest = client'.deepest, !.quoting = client'.quoting]
    BY <1>1, <2>0 DEF ClientOK, Wrote
  <2>3. client'.depth \in Nat /\ client'.deepest \in Nat /\ client'.quoting \in BOOLEAN
    BY <1>2, <2>2
  <2>4. /\ ClientOK' /\ client'.ended = client.ended /\ verdict = "reading"
        /\ client'.bytes = client.bytes + Len(t)
    BY <1>3, <2>0, <2>1, <2>2, <2>3
  <2>5. Meant' = Meant
    BY <2>2 DEF Meant
  <2>a. client'.deepest = IF client'.depth > client.deepest THEN client'.depth
                          ELSE client.deepest
    BY <1>1, <1>2, <2>2, <2>4
  <2>6. ASSUME NEW byte \in {"plain", "open", "close"}, t = <<byte>> PROVE GuardInv'
    <3>1. Meant' = ScanByte(Meant, byte)
      BY <2>0, <2>5 DEF Meant, ScanByte
    <3>2. client'.bytes = client.bytes + 1 /\ byte \in Bytes
      BY <2>4, <2>6 DEF Bytes
    <3>3. Tells(wire \o <<byte>>) /\ Len(wire) <= Len(wire \o <<byte>>)
      BY <2>a, <2>4, <3>1, <3>2, TellOne
    <3> QED BY <2>0, <2>6, <3>3, WriteKeeps
  <2>7. ASSUME NEW byte \in {"quote", "backslash"}, t = <<"backslash", byte>> PROVE GuardInv'
    <3>1. client'.bytes = client.bytes + 2
      BY <2>4, <2>7
    <3>2. Tells(wire \o <<"backslash", byte>>) /\ Len(wire) <= Len(wire \o <<"backslash", byte>>)
      BY <2>0, <2>2, <2>4, <2>5, <3>1, TellTwo
    <3> QED BY <2>0, <2>7, <3>2, WriteKeeps
  <2> QED BY <2>6, <2>7 DEF Texts
<1> QED BY <1>4, <1>5, <1>6, <1>7

(* A piece arrives, and a byte is scanned.                                 *)
LEMMA ReceiveKeeps ==
  ASSUME GuardInv, NEW n \in 0 .. Len(wire), NEW more \in BOOLEAN, Receive(n, more)
  PROVE  GuardInv'
<1>1. /\ verdict = "reading" /\ guard.left = 0
      /\ ~more => client.ended /\ n = Len(wire)
      /\ guard' = [guard EXCEPT !.size = @ + n, !.left = n, !.more = more]
      /\ verdict' = IF guard'.size > ByteLimit THEN "too large" ELSE Onward(guard')
      /\ client' = client /\ wire' = wire
  BY DEF Receive, Waiting, Piece
<1>2. ReadingOK /\ PiecesOK /\ ClientOK /\ wire \in Seq(Bytes) /\ Len(wire) \in Nat
  <2>1. verdict = "reading"
    BY <1>1
  <2>2. ReadingOK /\ PiecesOK /\ ClientOK /\ wire \in Seq(Bytes)
    BY <2>1 DEF GuardInv
  <2> QED BY <2>2
<1>3. /\ guard' = [size |-> guard'.size, left |-> guard'.left, more |-> guard'.more,
                   scan |-> guard'.scan]
      /\ guard'.size = guard.size + n /\ guard'.left = n /\ guard'.more = more
      /\ guard'.scan = guard.scan
  BY <1>1, <1>2 DEF PiecesOK
<1>4. guard.size \in Nat /\ guard'.size \in Nat /\ n \in Nat /\ n <= Len(wire)
  BY <1>2, <1>3 DEF PiecesOK
<1>5. PiecesOK' /\ ClientOK'
  BY <1>1, <1>2, <1>3, <1>4 DEF PiecesOK, ClientOK
<1>6. client.bytes = guard'.size + (Len(wire) - n) /\ client.bytes = guard.size + Len(wire)
  <2>1. client.bytes = guard.size + (Len(wire) - 0)
    BY <1>1, <1>2 DEF ReadingOK
  <2>2. guard'.size = guard.size + n
    BY <1>3
  <2> QED BY <1>2, <1>4, <2>1, <2>2
<1>7. Meant' = Meant
  BY <1>1 DEF Meant
<1>8. CASE guard'.size > ByteLimit
  <2>1. client'.bytes > ByteLimit
    <3>1. client'.bytes = guard'.size + (Len(wire) - n) /\ ByteLimit \in Nat
      BY <1>1, <1>6, GuardAssumption
    <3> QED BY <1>2, <1>4, <1>8, <3>1
  <2> QED BY <1>1, <1>2, <1>5, <1>8, <2>1 DEF GuardInv, DepthGuardSound
<1>9. CASE ~(guard'.size > ByteLimit)
  <2>1. guard'.size <= ByteLimit
    BY <1>4, <1>9, GuardAssumption
  <2>2. CASE n = 0 /\ ~more
    <3>1. verdict' = "passed" /\ Len(wire) = 0
      BY <1>1, <1>3, <1>9, <2>2 DEF Onward
    <3>2. PICK t : Path(t, wire, guard.scan, Meant, client.deepest)
      BY <1>2 DEF ReadingOK
    <3>3. client.deepest <= DepthLimit
      <4>1. \A i \in 0 .. Len(wire) : i = 0
        BY <3>1
      <4> QED BY <1>2, <3>2, <4>1, GuardAssumption DEF Path, ReadingOK, PiecesOK, ScanStates
    <3>4. client.bytes <= ByteLimit
      BY <1>3, <1>4, <1>6, <2>1, <2>2, <3>1
    <3> QED BY <1>1, <1>2, <1>5, <3>1, <3>3, <3>4 DEF GuardInv, DepthGuardSound
  <2>3. CASE ~(n = 0 /\ ~more)
    <3>1. verdict' = "reading"
      BY <1>1, <1>3, <1>9, <2>3 DEF Onward
    <3>2. ~more => wire # <<>>
      BY <1>1, <2>3
    <3>3. ReadingOK'
      BY <1>1, <1>2, <1>3, <1>6, <1>7, <2>1, <3>2 DEF ReadingOK
    <3> QED BY <1>1, <1>2, <1>5, <3>1, <3>3 DEF GuardInv, DepthGuardSound
  <2> QED BY <2>2, <2>3
<1> QED BY <1>8, <1>9

LEMMA ScanKeeps ==
  ASSUME GuardInv, ScanNextByte
  PROVE  GuardInv'
<1> DEFINE next == ScanByte(guard.scan, Head(wire))
<1>1. /\ verdict = "reading" /\ guard.left > 0
      /\ guard' = [guard EXCEPT !.left = @ - 1, !.scan = next]
      /\ verdict' = IF guard'.scan.depth > DepthLimit THEN "too deep" ELSE Onward(guard')
      /\ wire' = Tail(wire) /\ client' = client
  BY DEF ScanNextByte, Scanned
<1>2. ReadingOK /\ PiecesOK /\ ClientOK /\ wire \in Seq(Bytes) /\ Len(wire) \in Nat
  <2>1. verdict = "reading"
    BY <1>1
  <2>2. ReadingOK /\ PiecesOK /\ ClientOK /\ wire \in Seq(Bytes)
    BY <2>1 DEF GuardInv
  <2> QED BY <2>2
<1>3. guard.left \in 0 .. Len(wire) /\ wire # <<>>
  <2>1. guard.left \in 0 .. Len(wire)
    BY <1>2 DEF PiecesOK
  <2>2. guard.left > 0
    BY <1>1
  <2>3. Len(wire) # 0
    BY <1>2, <2>1, <2>2
  <2> QED BY <2>1, <2>3
<1>4. /\ Tail(wire) \in Seq(Bytes) /\ Len(Tail(wire)) = Len(wire) - 1
  BY <1>2, <1>3, HeadTailProperties
<1>5. /\ next \in ScanStates /\ next.depth <= client.deepest
      /\ \E u : Path(u, Tail(wire), next, Meant, client.deepest)
  <2>1. PICK t : Path(t, wire, guard.scan, Meant, client.deepest)
    BY <1>2 DEF ReadingOK
  <2>2. guard.scan \in ScanStates /\ guard.scan.depth <= DepthLimit /\ client.deepest \in Nat
    BY <1>2 DEF ReadingOK, PiecesOK, ClientOK
  <2> QED BY <1>2, <1>3, <2>1, <2>2, PathTail
<1> HIDE DEF next
<1>6. /\ guard' = [size |-> guard'.size, left |-> guard'.left, more |-> guard'.more,
                   scan |-> guard'.scan]
      /\ guard'.size = guard.size /\ guard'.left = guard.left - 1 /\ guard'.more = guard.more
      /\ guard'.scan = next
  BY <1>1, <1>2 DEF PiecesOK
<1>l. Len(wire') = Len(wire) - 1 /\ guard'.left = guard.left - 1 /\ guard.left > 0
  BY <1>1, <1>4, <1>6
<1>7. guard'.left \in 0 .. Len(wire') /\ guard.size \in Nat
  <2>1. guard'.left \in 0 .. Len(wire')
    BY <1>2, <1>3, <1>l
  <2> QED BY <1>2, <2>1 DEF PiecesOK
<1>8. PiecesOK' /\ ClientOK'
  BY <1>1, <1>2, <1>5, <1>6, <1>7 DEF PiecesOK, ClientOK
<1>9. client.bytes = guard.size + (Len(wire') - guard'.left)
  <2>1. client.bytes = guard.size + (Len(wire) - guard.left)
    BY <1>2 DEF ReadingOK
  <2> QED BY <1>2, <1>3, <1>7, <1>l, <2>1
<1>10. next.depth \in Nat /\ client.deepest \in Nat
  BY <1>2, <1>5 DEF ScanStates, ClientOK
<1>11. CASE next.depth > DepthLimit
  <2>1. verdict' = "too deep" /\ client'.deepest > DepthLimit
    <3>1. guard'.scan.depth > DepthLimit /\ client' = client
      BY <1>1, <1>6, <1>11
    <3>2. verdict' = "too deep"
      BY <1>1, <3>1
    <3>3. next.depth <= client.deepest /\ DepthLimit \in Nat
      BY <1>5, GuardAssumption
    <3>4. client.deepest > DepthLimit
      BY <1>10, <1>11, <3>3
    <3> QED BY <3>1, <3>2, <3>4
  <2> QED BY <1>1, <1>4, <1>8, <2>1 DEF GuardInv, DepthGuardSound
<1>12. CASE ~(next.depth > DepthLimit)
  <2>1. next.depth <= DepthLimit
    BY <1>10, <1>12, GuardAssumption
  <2>2. CASE guard'.left = 0 /\ ~guard'.more
    <3>1. verdict' = "passed"
      BY <1>1, <1>6, <1>12, <2>2 DEF Onward
    <3>2. Len(wire') = 0
      BY <1>1, <1>2, <1>3, <1>4, <1>6, <2>2 DEF ReadingOK
    <3>3. client.deepest <= DepthLimit
      <4>1. PICK u : Path(u, Tail(wire), next, Meant, client.deepest)
        BY <1>5
      <4>2. \A i \in 0 .. Len(Tail(wire)) : i = 0
        <5> DEFINE m == Len(Tail(wire))
        <5>1. m = 0
          BY <1>1, <3>2
        <5> HIDE DEF m
        <5>2. \A i \in 0 .. m : i = 0
          BY <5>1
        <5> QED BY <5>2 DEF m
      <4> QED BY <1>10, <2>1, <4>1, <4>2, GuardAssumption DEF Path
    <3>4. client.bytes <= ByteLimit
      BY <1>2, <1>7, <1>9, <2>2, <3>2 DEF ReadingOK
    <3> QED BY <1>1, <1>4, <1>8, <3>1, <3>3, <3>4 DEF GuardInv, DepthGuardSound
  <2>3. CASE ~(guard'.left = 0 /\ ~guard'.more)
    <3>1. verdict' = "reading"
      BY <1>1, <1>6, <1>12, <2>3 DEF Onward
    <3>2. ~guard'.more => client.ended /\ guard'.left = Len(wire') /\ wire' # <<>>
      <4>1. ASSUME ~guard'.more
            PROVE  client.ended /\ guard'.left = Len(wire') /\ wire' # <<>>
        <5>1. client.ended /\ guard.left = Len(wire)
          BY <1>2, <1>6, <4>1 DEF ReadingOK
        <5>2. guard'.left = Len(wire') /\ guard'.left # 0
          BY <1>1, <1>4, <1>6, <2>3, <4>1, <5>1
        <5> QED BY <5>1, <5>2
      <4> QED BY <4>1
    <3>3. Meant' = Meant
      BY <1>1 DEF Meant
    <3>4. ReadingOK'
      BY <1>1, <1>2, <1>5, <1>6, <1>9, <2>1, <3>2, <3>3 DEF ReadingOK
    <3> QED BY <1>1, <1>4, <1>8, <3>1, <3>4 DEF GuardInv, DepthGuardSound
  <2> QED BY <2>2, <2>3
<1> QED BY <1>11, <1>12

LEMMA GuardStepInv == GuardInv /\ [GuardNext]_guardVars => GuardInv'
<1> SUFFICES ASSUME GuardInv, [GuardNext]_guardVars PROVE GuardInv'
  OBVIOUS
<1>1. CASE WriteOpen \/ WriteClose \/ WriteQuote \/ WriteText
  BY <1>1, WritesKeep
<1>2. CASE EndBody
  <2>1. /\ client' = [client EXCEPT !.ended = TRUE] /\ verdict = "reading"
        /\ wire' = wire /\ guard' = guard /\ verdict' = verdict
    BY <1>2 DEF EndBody
  <2>2. /\ client'.bytes = client.bytes /\ client'.depth = client.depth
        /\ client'.deepest = client.deepest /\ client'.quoting = client.quoting
        /\ client'.ended = TRUE /\ ClientOK' /\ Meant' = Meant
    BY <2>1 DEF GuardInv, ClientOK, Meant
  <2>3. ReadingOK'
    BY <2>1, <2>2 DEF GuardInv, ReadingOK
  <2> QED BY <2>1, <2>2, <2>3 DEF GuardInv, PiecesOK, DepthGuardSound
<1>3. ASSUME NEW n \in 0 .. Len(wire), NEW more \in BOOLEAN, Receive(n, more)
      PROVE  GuardInv'
  BY <1>3, ReceiveKeeps
<1>4. CASE ScanNextByte
  BY <1>4, ScanKeeps
<1>5. CASE Vanish
  BY <1>5 DEF Vanish, GuardInv, ClientOK, PiecesOK, DepthGuardSound
<1>6. CASE UNCHANGED guardVars
  BY <1>6 DEF guardVars, GuardInv, ClientOK, PiecesOK, ReadingOK, Meant, DepthGuardSound
<1> QED BY <1>1, <1>2, <1>3, <1>4, <1>5, <1>6 DEF GuardNext

(* However a JSON body is cut into pieces, body_boundary.py refuses it for *)
(* its nesting or its size only if it has that fault, and hands it on only *)
(* if it has neither (DepthGuardSound), for any limits and any length.     *)
THEOREM GuardIsExact == GuardSpec => []DepthGuardSound
<1>1. GuardInv => DepthGuardSound
  BY DEF GuardInv
<1> QED BY <1>1, GuardInitInv, GuardStepInv, PTL DEF GuardSpec

-------------------------------------------------------------------------------
(* The limits.                                                             *)

(* The smallest of a set of naturals is one of them and below the others.  *)
LEMMA MinIsLeast ==
  ASSUME NEW S, S \subseteq Nat, S # {}
  PROVE  Min(S) \in S /\ \A y \in S : Min(S) <= y
<1> DEFINE R == {ss \in Nat \X Nat : ss[1] < ss[2]}
<1>1. IsWellFoundedOn(R, Nat)
  BY NatLessThanWellFounded DEF OpToRel
<1> HIDE DEF R
<1>2. \E x \in S : \A y \in S : ~(<<y, x>> \in R)
  BY <1>1, WFMin
<1>3. \A x, y \in Nat : <<y, x>> \notin R => x <= y
  BY DEF R
<1>4. \E x \in S : \A y \in S : x <= y
  BY <1>2, <1>3
<1> QED BY <1>4 DEF Min

LEMMA MinOfTwo ==
  ASSUME NEW a \in Nat, NEW b \in Nat
  PROVE  /\ Min({a, b}) \in Nat /\ Min({a, b}) <= a /\ Min({a, b}) <= b
         /\ Min({a, b}) = a \/ Min({a, b}) = b
BY MinIsLeast

Limits == (Nat \ {0}) \cup {Unknown}

LEMMA LeastIsLimit == \A S \in SUBSET (1..ReportMax) : Least(S) \in Limits
<1> SUFFICES ASSUME NEW S \in SUBSET (1..ReportMax), S # {} PROVE Min(S) \in Nat \ {0}
  BY DEF Least, Limits
<1>1. S \subseteq Nat
  BY PolicyAssumption
<1>2. Min(S) \in S
  BY <1>1, MinIsLeast
<1>3. ReportMax \in Nat /\ Min(S) \in 1..ReportMax
  BY <1>2, PolicyAssumption
<1> QED BY <1>3

-----------------------------------------------------------------------------
(* The bounds that a row of the catalogue was merged from.                 *)
ContextsOf(found) ==
  IF override # Unknown THEN {override.context}
  ELSE {reviewed.context} \cup ({found.context} \ {Unknown})

OutputsOf(found, cap) ==
  {cap} \cup (IF override # Unknown THEN {override.output}
              ELSE {reviewed.output} \cup ({found.output} \ {Unknown}))

(* A row is within all of them, and is one of them or leaves room for one  *)
(* token of input; an unreviewed model has no row.                         *)
RowOK(row, found, cap) ==
  IF reviewed = Unknown THEN row = Nowhere
  ELSE /\ ContextsOf(found) \subseteq Nat /\ OutputsOf(found, cap) \subseteq Nat
       /\ row.context \in ContextsOf(found) /\ row.context \in Nat \ {0}
       /\ \A b \in ContextsOf(found) : row.context <= b
       /\ IF row.output = Unknown THEN row.context = 1
          ELSE /\ row.output \in Nat \ {0}
               /\ \A b \in OutputsOf(found, cap) : row.output <= b
               /\ row.output \in OutputsOf(found, cap) \/ row.output = row.context - 1

ModelOK ==
  /\ reviewed \in Reviewed /\ override \in Overrides \cup {Unknown} /\ limits \in Settings
  /\ reviewed = Unknown => override = Unknown

LEMMA MergeOK ==
  ASSUME ModelOK, NEW found \in [context : Limits, output : Limits], NEW cap \in Nat \ {0}
  PROVE  RowOK(Merge(found, cap), found, cap)
<1> DEFINE row == Merge(found, cap)
<1>1. CASE reviewed = Unknown
  BY <1>1 DEF ModelOK, Merge, RowOK
<1>2. CASE override # Unknown
  <2>1. /\ override.context \in Nat /\ override.output \in 1..(override.context - 1)
        /\ reviewed # Unknown /\ Unknown \notin Nat
    BY <1>2, PolicyAssumption DEF ModelOK
  <2>2. row = [context |-> override.context, output |-> Min({override.output, cap})]
    BY <1>2 DEF Merge
  <2>3. override.output \in Nat \ {0} /\ override.context \in Nat \ {0}
    BY <2>1
  <2>4. /\ Min({override.output, cap}) \in Nat
        /\ Min({override.output, cap}) <= override.output /\ Min({override.output, cap}) <= cap
        /\ Min({override.output, cap}) = override.output \/ Min({override.output, cap}) = cap
    BY <2>3, MinOfTwo
  <2> QED BY <1>2, <2>1, <2>2, <2>3, <2>4 DEF RowOK, ContextsOf, OutputsOf
<1>3. CASE reviewed # Unknown /\ override = Unknown
  <2> DEFINE C == {reviewed.context} \cup ({found.context} \ {Unknown})
             O == {reviewed.output, cap} \cup ({found.output} \ {Unknown})
             context == Min(C)
             least == Min(O)
             output == IF least >= context THEN context - 1 ELSE least
  <2>1. /\ reviewed.context \in Nat \ {0} /\ reviewed.output \in Nat \ {0}
        /\ Unknown \notin Nat
    BY <1>3, PolicyAssumption DEF ModelOK
  <2>2. row = [context |-> context, output |-> IF output > 0 THEN output ELSE Unknown]
    BY <1>3 DEF Merge, Tightened
  <2>3. C \subseteq Nat \ {0} /\ O \subseteq Nat \ {0} /\ C # {} /\ O # {}
    BY <2>1 DEF Limits
  <2>4. ContextsOf(found) = C /\ OutputsOf(found, cap) = O
    BY <1>3 DEF ContextsOf, OutputsOf
  <2> HIDE DEF C, O
  <2>5. context \in C /\ (\A b \in C : context <= b)
    BY <2>3, MinIsLeast
  <2>6. least \in O /\ (\A b \in O : least <= b)
    BY <2>3, MinIsLeast
  <2>a. ContextsOf(found) \subseteq Nat /\ OutputsOf(found, cap) \subseteq Nat
    BY <2>3, <2>4
  <2> HIDE DEF context, least
  <2>7. context \in Nat \ {0} /\ least \in Nat \ {0}
    BY <2>3, <2>5, <2>6
  <2>8. CASE least >= context
    <3>1. output = context - 1 /\ \A b \in O : output <= b
      <4>1. output = context - 1 /\ output <= least
        <5>1. output = context - 1
          BY <2>8
        <5> HIDE DEF output
        <5> QED BY <2>7, <2>8, <5>1
      <4>2. \A b \in O : b \in Nat /\ least <= b
        BY <2>3, <2>6
      <4>3. output \in Int
        BY <2>7, <4>1
      <4> HIDE DEF output
      <4> QED BY <2>7, <4>1, <4>2, <4>3
    <3>2. row.context = context /\ row.output = (IF output > 0 THEN output ELSE Unknown)
      BY <2>2
    <3>3. output \in Nat /\ (output > 0 \/ context = 1)
      BY <2>7, <3>1
    <3> HIDE DEF output, row
    <3>4. CASE output > 0
      <4>1. row.context = context /\ row.output = context - 1 /\ row.output \in Nat \ {0}
        BY <3>1, <3>2, <3>3, <3>4
      <4>2. RowOK(row, found, cap)
        BY <1>3, <2>1, <2>4, <2>a, <2>5, <2>7, <3>1, <4>1 DEF RowOK
      <4> QED BY <4>2 DEF row
    <3>5. CASE ~(output > 0)
      <4>1. row.context = context /\ row.output = Unknown /\ context = 1
        BY <3>2, <3>3, <3>5
      <4>2. RowOK(row, found, cap)
        BY <1>3, <2>4, <2>a, <2>5, <2>7, <4>1 DEF RowOK
      <4> QED BY <4>2 DEF row
    <3> QED BY <3>4, <3>5
  <2>9. CASE ~(least >= context)
    <3>1. output = least /\ output \in Nat \ {0} /\ output > 0
      BY <2>7, <2>9
    <3>2. row.context = context /\ row.output = output
      BY <2>2, <3>1
    <3> HIDE DEF output, row
    <3>3. RowOK(row, found, cap)
      BY <1>3, <2>1, <2>4, <2>a, <2>5, <2>6, <2>7, <3>1, <3>2 DEF RowOK
    <3> QED BY <3>3 DEF row
  <2> QED BY <2>8, <2>9
<1> QED BY <1>1, <1>2, <1>3

(* What the handler has found so far.                                      *)
RequestOK ==
  /\ request = [at |-> request.at, cap |-> request.cap, found |-> request.found,
                row |-> request.row, ask |-> request.ask, input |-> request.input,
                normCap |-> request.normCap, max |-> request.max]
  /\ request.at \in {"new", "listing", "listed", "admitted", "refused", "no policy", "dispatched"}
  /\ request.at # "new" => request.cap \in Nat \ {0}
  /\ request.at \notin {"new", "listing"} => RowOK(request.row, request.found, request.cap)
  /\ request.at = "admitted" => request.max \in Nat /\ request.input \in Nat

PolicyInv == ModelOK /\ RequestOK /\ LimitsOnlyTighten

LEMMA PolicyInitInv == PolicyInit => PolicyInv
BY PolicyAssumption
   DEF PolicyInit, PolicyInv, ModelOK, RequestOK, LimitsOnlyTighten, NoRequest

(* The bounds that a request is measured by in the property are the ones   *)
(* its row was merged from, and the cap at the check.                      *)
LEMMA BoundsOfRequest ==
  /\ OutputBounds = OutputsOf(request.found, request.cap) \cup {request.normCap}
  /\ ContextBounds = ContextsOf(request.found)
BY DEF OutputBounds, ContextBounds, OutputsOf, ContextsOf

(* A request as the handler measures it: a row merged with the cap that    *)
(* the catalogue read, and the settings as they are now.                   *)
Measured(row, found, cap, now, default, ask, input, max, capNow) ==
  /\ reviewed # Unknown /\ cap \in Nat \ {0}
  /\ RowOK(row, found, cap) /\ row.output # Unknown
  /\ now \in Nat \ {0} /\ default \in 1..now
  /\ ask \in Asks /\ input \in Inputs
  /\ capNow = Min({now, row.output})
  /\ max = IF ask = Unknown THEN Min({default, capNow}) ELSE ask

Right(fits, row, found, cap, now, ask, input, max) ==
  /\ max \in Nat /\ max >= 1 /\ input \in Nat
  /\ fits => /\ \A b \in OutputsOf(found, cap) \cup {now} : max <= b
             /\ \A b \in ContextsOf(found) : input + max <= b
  /\ ~fits => \/ \E b \in OutputsOf(found, cap) \cup {now} : ask # Unknown /\ ask > b
              \/ \E b \in ContextsOf(found) : input + max > b

(* The check admits only what is within every bound, and refuses only what *)
(* is beyond one.                                                          *)
LEMMA CheckIsExact ==
  ASSUME NEW row, NEW found, NEW cap, NEW now, NEW default, NEW ask, NEW input,
         NEW max, NEW capNow, Measured(row, found, cap, now, default, ask, input, max, capNow)
  PROVE  Right(max <= capNow /\ input + max <= row.context,
               row, found, cap, now, ask, input, max)
<1>0. /\ reviewed # Unknown /\ cap \in Nat \ {0}
      /\ RowOK(row, found, cap) /\ row.output # Unknown
      /\ now \in Nat \ {0} /\ default \in 1..now
      /\ ask \in Asks /\ input \in Inputs
      /\ capNow = Min({now, row.output})
      /\ max = IF ask = Unknown THEN Min({default, capNow}) ELSE ask
  BY DEF Measured
<1>1. /\ row.context \in ContextsOf(found) /\ row.context \in Nat \ {0}
      /\ \A b \in ContextsOf(found) : row.context <= b
      /\ row.output \in Nat \ {0}
      /\ \A b \in OutputsOf(found, cap) : row.output <= b
      /\ row.output \in OutputsOf(found, cap) \/ row.output = row.context - 1
      /\ ContextsOf(found) \subseteq Nat /\ OutputsOf(found, cap) \subseteq Nat
  BY <1>0 DEF RowOK
<1>2. /\ capNow \in Nat \ {0} /\ capNow <= now /\ capNow <= row.output
      /\ capNow = now \/ capNow = row.output
  BY <1>0, <1>1, MinOfTwo
<1>3. input \in Nat \ {0} /\ (ask # Unknown => ask \in Nat \ {0})
  BY <1>0, PolicyAssumption
<1>4. default \in Nat \ {0}
  BY <1>0
<1>5. max \in Nat \ {0} /\ (ask = Unknown => max <= capNow) /\ (ask # Unknown => max = ask)
  <2>1. CASE ask = Unknown
    BY <1>0, <1>2, <1>4, <2>1, MinOfTwo
  <2>2. CASE ask # Unknown
    BY <1>0, <1>3, <2>2
  <2> QED BY <2>1, <2>2
<1>6. ASSUME max <= capNow, input + max <= row.context
      PROVE  /\ \A b \in OutputsOf(found, cap) \cup {now} : max <= b
             /\ \A b \in ContextsOf(found) : input + max <= b
  <2>1. ASSUME NEW b \in OutputsOf(found, cap) \cup {now} PROVE max <= b
    <3>1. b \in Nat /\ capNow <= b
      BY <1>0, <1>1, <1>2, <2>1
    <3> QED BY <1>2, <1>5, <1>6, <3>1
  <2>2. ASSUME NEW b \in ContextsOf(found) PROVE input + max <= b
    <3>1. b \in Nat /\ row.context <= b
      BY <1>1, <2>2
    <3> QED BY <1>1, <1>3, <1>5, <1>6, <3>1
  <2> QED BY <2>1, <2>2
<1>7. ASSUME ~(max <= capNow)
      PROVE  \/ \E b \in OutputsOf(found, cap) \cup {now} : ask # Unknown /\ ask > b
             \/ \E b \in ContextsOf(found) : input + max > b
  <2>1. ask # Unknown /\ max = ask /\ ask > capNow
    BY <1>2, <1>5, <1>7
  <2>2. CASE capNow \in OutputsOf(found, cap) \cup {now}
    BY <2>1, <2>2
  <2>3. CASE capNow = row.context - 1
    <3>1. input + max > row.context
      BY <1>1, <1>3, <1>5, <2>1, <2>3
    <3> QED BY <1>1, <3>1
  <2> QED BY <1>1, <1>2, <2>2, <2>3
<1>8. ASSUME ~(input + max <= row.context)
      PROVE  \E b \in ContextsOf(found) : input + max > b
  BY <1>1, <1>3, <1>5, <1>8
<1>9. max \in Nat /\ max >= 1 /\ input \in Nat
  BY <1>3, <1>5
<1> QED BY <1>6, <1>7, <1>8, <1>9, Zenon DEF Right

LEMMA PolicyStepInv == PolicyInv /\ [PolicyNext]_policyVars => PolicyInv'
<1> SUFFICES ASSUME PolicyInv, [PolicyNext]_policyVars PROVE PolicyInv'
  OBVIOUS
<1> USE DEF PolicyInv
<1>1. ModelOK' /\ reviewed' = reviewed /\ override' = override
  BY DEF ModelOK, PolicyNext, ReadSettings, ListModel, NoPolicy, DispatchRequest, SaveLimits,
         NormalizeRequest, policyVars
<1>2. (\A row, found, cap : RowOK(row, found, cap)' <=> RowOK(row, found, cap))
      /\ (\A found : ContextsOf(found)' = ContextsOf(found))
      /\ (\A found, cap : OutputsOf(found, cap)' = OutputsOf(found, cap))
  BY <1>1 DEF RowOK, ContextsOf, OutputsOf
<1>3. request' = request /\ reserve' = reserve => PolicyInv'
  <2> SUFFICES ASSUME request' = request, reserve' = reserve PROVE PolicyInv'
    OBVIOUS
  <2>1. OutputBounds' = OutputBounds /\ ContextBounds' = ContextBounds
    BY <1>1 DEF OutputBounds, ContextBounds
  <2>2. LimitsOnlyTighten'
    BY <1>1, <2>1 DEF LimitsOnlyTighten
  <2>3. RequestOK'
    BY <1>2 DEF RequestOK
  <2> QED BY <1>1, <2>2, <2>3
<1>4. /\ limits.cap \in Nat \ {0} /\ limits.default \in 1..limits.cap
  BY PolicyAssumption DEF ModelOK
<1>5. CASE ReadSettings
  <2>1. request' = [request EXCEPT !.at = "listing", !.cap = limits.cap]
    BY <1>5 DEF ReadSettings
  <2>2. /\ request'.at = "listing" /\ request'.cap = limits.cap
        /\ request' = [at |-> request'.at, cap |-> request'.cap, found |-> request'.found,
                       row |-> request'.row, ask |-> request'.ask, input |-> request'.input,
                       normCap |-> request'.normCap, max |-> request'.max]
    BY <2>1 DEF RequestOK
  <2> QED BY <1>1, <1>4, <2>2 DEF RequestOK, LimitsOnlyTighten
<1>6. CASE ListModel
  <2>1. PICK found \in {Discovered(r) : r \in Reports} \cup {Nowhere} :
          request' = [request EXCEPT !.at = "listed", !.found = found,
                                     !.row = Merge(found, request.cap)]
    BY <1>6 DEF ListModel
  <2>2. found \in [context : Limits, output : Limits]
    <3>1. ASSUME NEW r PROVE Discovered(r) \in [context : Limits, output : Limits]
      <4>1. /\ {r.context} \cap 1..ReportMax \in SUBSET (1..ReportMax)
            /\ r.outputs \cap 1..ReportMax \in SUBSET (1..ReportMax)
        OBVIOUS
      <4> QED BY <4>1, LeastIsLimit DEF Discovered
    <3> QED BY <3>1 DEF Nowhere, Limits
  <2>3. request.cap \in Nat \ {0}
    BY <1>6 DEF ListModel, RequestOK
  <2>4. RowOK(Merge(found, request.cap), found, request.cap)
    BY <2>2, <2>3, MergeOK
  <2> DEFINE row == Merge(found, request.cap)
  <2> HIDE DEF row
  <2>5. /\ request'.at = "listed" /\ request'.cap = request.cap
        /\ request'.found = found /\ request'.row = row
        /\ request' = [at |-> request'.at, cap |-> request'.cap, found |-> request'.found,
                       row |-> request'.row, ask |-> request'.ask, input |-> request'.input,
                       normCap |-> request'.normCap, max |-> request'.max]
    BY <2>1 DEF RequestOK, row
  <2>6. RowOK(request'.row, request'.found, request'.cap)
    BY <2>4, <2>5 DEF row
  <2> QED BY <1>1, <1>2, <2>3, <2>5, <2>6 DEF RequestOK, LimitsOnlyTighten
<1>7. CASE NoPolicy
  <2>1. request' = [request EXCEPT !.at = "no policy"] /\ request.at = "listed"
        /\ request.row.output = Unknown
    BY <1>7 DEF NoPolicy
  <2>2. /\ request'.at = "no policy" /\ request'.cap = request.cap
        /\ request'.found = request.found /\ request'.row = request.row
        /\ request' = [at |-> request'.at, cap |-> request'.cap, found |-> request'.found,
                       row |-> request'.row, ask |-> request'.ask, input |-> request'.input,
                       normCap |-> request'.normCap, max |-> request'.max]
    BY <2>1 DEF RequestOK
  <2>3. RowOK(request.row, request.found, request.cap) /\ request.cap \in Nat \ {0}
    BY <2>1 DEF RequestOK
  <2>4. reviewed = Unknown \/ \E b \in ContextsOf(request.found) : b = 1
    BY <2>1, <2>3 DEF RowOK
  <2>5. LimitsOnlyTighten'
    BY <1>1, <1>2, <2>2, <2>4, BoundsOfRequest DEF LimitsOnlyTighten, ContextBounds, ContextsOf
  <2> QED BY <1>1, <1>2, <2>2, <2>3, <2>5 DEF RequestOK
<1>8. ASSUME NEW ask \in Asks, NEW input \in Inputs, NormalizeRequest(ask, input)
      PROVE  PolicyInv'
  <2> DEFINE row == request.row
             found == request.found
             cap == request.cap
             max == IF ask = Unknown THEN Min({limits.default, CapNow}) ELSE ask
             fits == max <= CapNow /\ input + max <= row.context
  <2>1. /\ request.at = "listed" /\ row.output # Unknown
        /\ request' = [request EXCEPT !.ask = ask, !.input = input, !.normCap = limits.cap,
                         !.max = max, !.at = IF fits THEN "admitted" ELSE "refused"]
    <3> DEFINE n == Normalized(ask, input)
    <3>1. n.max = max
      BY DEF Normalized, RequestOK
    <3>2. Fits(n.max, input) <=> fits
      BY <3>1 DEF Fits
    <3>3. request' = [n EXCEPT !.at = IF fits THEN "admitted" ELSE "refused"]
      BY <1>8, <3>2 DEF NormalizeRequest
    <3> HIDE DEF fits, max
    <3>4. n = [request EXCEPT !.ask = ask, !.input = input, !.normCap = limits.cap, !.max = max]
      BY DEF Normalized, max
    <3> HIDE DEF n
    <3>5. request' = [request EXCEPT !.ask = ask, !.input = input, !.normCap = limits.cap,
                        !.max = max, !.at = IF fits THEN "admitted" ELSE "refused"]
      BY <3>3, <3>4 DEF RequestOK
    <3> QED BY <1>8, <3>5 DEF NormalizeRequest
  <2>2. RowOK(row, found, cap) /\ cap \in Nat \ {0}
    BY <2>1 DEF RequestOK
  <2>3. reviewed # Unknown
    BY <2>1, <2>2 DEF RowOK, Nowhere
  <2> DEFINE now == limits.cap
             default == limits.default
             capNow == CapNow
  <2>4. /\ capNow = Min({now, row.output})
        /\ max = IF ask = Unknown THEN Min({default, capNow}) ELSE ask
        /\ fits <=> (max <= capNow /\ input + max <= row.context)
        /\ now \in Nat \ {0} /\ default \in 1..now
    BY <1>4 DEF CapNow
  <2> HIDE DEF row, found, cap, max, fits, now, default, capNow
  <2>a. Measured(row, found, cap, now, default, ask, input, max, capNow)
    <3>1. row.output # Unknown
      BY <2>1
    <3> QED BY <1>8, <2>2, <2>3, <2>4, <3>1 DEF Measured
  <2>b. Right(max <= capNow /\ input + max <= row.context,
              row, found, cap, now, ask, input, max)
    BY <2>a, CheckIsExact
  <2>5. Right(fits, row, found, cap, now, ask, input, max)
    BY <2>4, <2>b, Zenon DEF Right
  <2>6. /\ request'.at = (IF fits THEN "admitted" ELSE "refused") /\ request'.cap = cap
        /\ request'.found = found /\ request'.row = row /\ request'.ask = ask
        /\ request'.input = input /\ request'.normCap = now /\ request'.max = max
        /\ request' = [at |-> request'.at, cap |-> request'.cap, found |-> request'.found,
                       row |-> request'.row, ask |-> request'.ask, input |-> request'.input,
                       normCap |-> request'.normCap, max |-> request'.max]
    BY <2>1 DEF RequestOK, row, found, cap, now
  <2>7. OutputBounds' = OutputsOf(found, cap) \cup {now}
        /\ ContextBounds' = ContextsOf(found)
    BY <1>1, <2>6 DEF OutputBounds, ContextBounds, OutputsOf, ContextsOf
  <2>8. LimitsOnlyTighten'
    BY <1>1, <2>3, <2>5, <2>6, <2>7 DEF LimitsOnlyTighten, Right
  <2> QED BY <1>1, <1>2, <2>2, <2>5, <2>6, <2>8 DEF RequestOK, Right
<1>9. CASE DispatchRequest
  <2>1. /\ request.at = "admitted" /\ request' = [request EXCEPT !.at = "dispatched"]
        /\ reserve' = request.input + request.max * Copies
    BY <1>9 DEF DispatchRequest
  <2>2. /\ request'.at = "dispatched" /\ request'.cap = request.cap
        /\ request'.found = request.found /\ request'.row = request.row
        /\ request'.input = request.input /\ request'.max = request.max
        /\ request'.normCap = request.normCap
        /\ request' = [at |-> request'.at, cap |-> request'.cap, found |-> request'.found,
                       row |-> request'.row, ask |-> request'.ask, input |-> request'.input,
                       normCap |-> request'.normCap, max |-> request'.max]
    BY <2>1 DEF RequestOK
  <2>3. OutputBounds' = OutputBounds /\ ContextBounds' = ContextBounds
    BY <1>1, <2>2 DEF OutputBounds, ContextBounds
  <2>4. reserve' >= request'.input + Copies * request'.max
    <3>1. request.max \in Nat /\ request.input \in Nat /\ Copies \in Nat
      BY <2>1, PolicyAssumption DEF RequestOK
    <3>2. request.max * Copies = Copies * request.max /\ Copies * request.max \in Nat
      BY <3>1
    <3> QED BY <2>1, <2>2, <3>1, <3>2
  <2>5. LimitsOnlyTighten'
    BY <1>1, <2>1, <2>2, <2>3, <2>4 DEF LimitsOnlyTighten
  <2>6. request.cap \in Nat \ {0} /\ RowOK(request.row, request.found, request.cap)
    BY <2>1 DEF RequestOK
  <2> QED BY <1>1, <1>2, <2>2, <2>5, <2>6 DEF RequestOK
<1>10. CASE SaveLimits
  BY <1>3, <1>10 DEF SaveLimits
<1>11. CASE UNCHANGED policyVars
  BY <1>3, <1>11 DEF policyVars
<1> QED BY <1>5, <1>6, <1>7, <1>8, <1>9, <1>10, <1>11 DEF PolicyNext

(* Whatever the reviewed limits, the operator's settings and the metadata  *)
(* service say, and whenever the settings change: a request is admitted    *)
(* only within all of them, and refused only when it is beyond one         *)
(* (LimitsOnlyTighten).                                                    *)
THEOREM PolicyOnlyTightens == PolicySpec => []LimitsOnlyTighten
<1>1. PolicyInv => LimitsOnlyTighten
  BY DEF PolicyInv
<1> QED BY <1>1, PolicyInitInv, PolicyStepInv, PTL DEF PolicySpec

-------------------------------------------------------------------------------
(* The stream.                                                             *)

Phases == {"reading", "yielding", "pricing", "done", "failed", "closed"}

(* What the generator knows of the frames it has accepted.                 *)
IdsKnown ==
  /\ \A i \in DOMAIN got : got[i].id # Blank => named # Blank /\ got[i].id = named
  /\ named # Blank => uid = named

FramesSound == \A i \in DOMAIN got : ~got[i].broken /\ ChoicesOk(got[i])

ReportsKnown ==
  /\ \A i \in DOMAIN got : got[i].usage # Blank => UsageOk(got[i].usage) /\ Parsed(got[i].usage) = usage
  /\ usage # Blank => \E i \in DOMAIN got : got[i].usage # Blank
  /\ \A i, j \in DOMAIN got : i < j /\ got[i].usage # Blank => got[j].choices = <<>>

(* Once a report is believed, it is the one that every report gives.       *)
Known ==
  /\ IdsKnown /\ FramesSound /\ ReportsKnown
  /\ usage = Blank => \A i \in DOMAIN got : got[i].usage = Blank

SettledWhole ==
  \A b \in ToSet(booked) : b.call = "settle" =>
    /\ Complete(got)
    /\ \A f \in ToSet(got) :
         /\ f.usage # Blank => b.tokens = Parsed(f.usage).total
         /\ f.id # Blank => b.uid = f.id

Booked ==
  /\ phase \notin {"done", "closed"} => booked = <<>>
  /\ phase \in {"done", "closed"} => booked \in Seq(ToSet(booked)) /\ Len(booked) = 1

FramesInv ==
  /\ phase \in Phases /\ got \in Seq(Frames)
  /\ phase \in {"reading", "yielding", "pricing", "done"} => Known
  /\ phase \in {"pricing", "done"} => usage # Blank
  /\ Booked /\ SettledWhole

LEMMA FramesInitOK == FramesInit => FramesInv
  BY DEF FramesInit, FramesInv, Phases, Known, IdsKnown, FramesSound, ReportsKnown,
     Booked, SettledWhole, ToSet

(* A frame that is accepted keeps what is known true of all frames.        *)
LEMMA AcceptedFrame ==
  ASSUME FramesInv, NEW f \in Frames, Frame(f), Accepted(f)
  PROVE  Known'
<1> DEFINE n == Len(got) + 1
<1>1. Known /\ got \in Seq(Frames)
  BY DEF FramesInv, Frame
<1>2. /\ got' = Append(got, f)
      /\ DOMAIN got' = DOMAIN got \cup {n}
      /\ got'[n] = f
      /\ \A i \in DOMAIN got : got'[i] = got[i] /\ i < n
      /\ \A i \in DOMAIN got' : i \in DOMAIN got \/ i = n
      /\ \A i \in DOMAIN got' : ~(n < i)
  BY <1>1 DEF Frame
<1>3. ~f.broken /\ SameAnswer(f) /\ ChoicesOk(f) /\ SameUsage(f)
  BY DEF Accepted
<1>4. usage' = IF f.usage # Blank THEN Parsed(f.usage) ELSE usage
  BY DEF Frame
<1>5. usage # Blank => usage' = usage /\ f.choices = <<>>
  BY <1>4 DEF Accepted, SameUsage
<1>6. f.usage # Blank => Parsed(f.usage) # Blank
  BY ReportAssumption
<1>7. IdsKnown'
  <2>1. CASE f.id = Blank
    <3>1. named' = named /\ uid' = uid
      BY <2>1 DEF Frame
    <3>2. QED
      BY <1>1, <1>2, <2>1, <3>1 DEF Known, IdsKnown
  <2>2. CASE f.id # Blank
    <3>1. named' = f.id /\ uid' = f.id
      BY <1>3, <2>2 DEF Frame
    <3>2. named # Blank => named = f.id
      BY <1>3, <2>2 DEF SameAnswer
    <3>3. QED
      BY <1>1, <1>2, <2>2, <3>1, <3>2 DEF Known, IdsKnown
  <2>3. QED
    BY <2>1, <2>2
<1>8. FramesSound'
  BY <1>1, <1>2, <1>3 DEF Known, FramesSound
<1>9. ReportsKnown'
  <2>1. ASSUME NEW i \in DOMAIN got', got'[i].usage # Blank
        PROVE  UsageOk(got'[i].usage) /\ Parsed(got'[i].usage) = usage'
    <3>1. CASE i \in DOMAIN got
      BY <1>1, <1>2, <1>5, <2>1, <3>1 DEF Known, ReportsKnown
    <3>2. CASE i = n
      BY <1>2, <1>3, <1>4, <2>1, <3>2 DEF SameUsage
    <3>3. QED
      BY <1>2, <3>1, <3>2
  <2>2. usage' # Blank => \E i \in DOMAIN got' : got'[i].usage # Blank
    BY <1>1, <1>2, <1>4 DEF Known, ReportsKnown
  <2>3. ASSUME NEW i \in DOMAIN got', NEW j \in DOMAIN got', i < j, got'[i].usage # Blank
        PROVE  got'[j].choices = <<>>
    <3>1. i \in DOMAIN got /\ got[i].usage # Blank
      BY <1>2, <2>3
    <3>2. CASE j \in DOMAIN got
      BY <1>1, <1>2, <2>3, <3>1, <3>2 DEF Known, ReportsKnown
    <3>3. CASE j = n
      BY <1>1, <1>2, <1>5, <3>1, <3>3 DEF Known
    <3>4. QED
      BY <1>2, <3>2, <3>3
  <2>4. QED
    BY <2>1, <2>2, <2>3 DEF ReportsKnown
<1>10. usage' = Blank => \A i \in DOMAIN got' : got'[i].usage = Blank
  BY <1>1, <1>2, <1>4, <1>5, <1>6 DEF Known
<1>11. QED
  BY <1>7, <1>8, <1>9, <1>10 DEF Known

(* Nothing is booked while frames come in.                                 *)
LEMMA FrameStep ==
  ASSUME FramesInv, NEW f \in Frames, Frame(f)
  PROVE  FramesInv'
<1>1. booked = <<>> /\ booked' = <<>> /\ got' \in Seq(Frames)
  BY DEF FramesInv, Booked, Frame
<1>2. phase' = IF Accepted(f) THEN "yielding" ELSE "failed"
  BY DEF Frame
<1>3. Accepted(f) => Known'
  BY AcceptedFrame
<1>4. Booked' /\ SettledWhole'
  BY <1>1, <1>2 DEF Booked, SettledWhole, ToSet
<1>5. QED
  BY <1>1, <1>2, <1>3, <1>4 DEF FramesInv, Phases

(* A stream that ends with a believed report is complete.                  *)
LEMMA KnownIsComplete ==
  ASSUME Known, usage # Blank
  PROVE  /\ Complete(got)
         /\ \A f \in ToSet(got) :
              /\ f.usage # Blank => usage.total = Parsed(f.usage).total
              /\ f.id # Blank => uid = f.id
<1>1. Complete(got)
  BY DEF Known, IdsKnown, FramesSound, ReportsKnown, Complete
<1>2. QED
  BY <1>1 DEF Known, IdsKnown, ReportsKnown, ToSet

LEMMA SettleStep ==
  ASSUME FramesInv, SettleStream
  PROVE  FramesInv'
<1> DEFINE b == [call |-> "settle", tokens |-> usage.total, uid |-> uid]
<1>1. booked' = <<b>> /\ phase' = "done"
  BY DEF FramesInv, Booked, SettleStream
<1>2. UNCHANGED <<got, usage, uid, named>> /\ Known /\ usage # Blank
  BY DEF FramesInv, SettleStream
<1>3. Known'
  BY <1>2 DEF Known, IdsKnown, FramesSound, ReportsKnown
<1>4. ToSet(booked') = {b}
  BY <1>1 DEF ToSet
<1>5. Booked' /\ SettledWhole'
  <2>1. Complete(got')
    BY <1>2, KnownIsComplete
  <2>2. SettledWhole'
    BY <1>2, <1>4, <2>1, KnownIsComplete DEF SettledWhole
  <2>3. QED
    BY <1>1, <1>4, <2>2 DEF Booked
<1>6. QED
  BY <1>1, <1>2, <1>3, <1>5 DEF FramesInv, Phases

(* The generator's own moves change nothing but its place.                 *)
LEMMA MoveStep ==
  ASSUME FramesInv, Taken \/ Done \/ Break
  PROVE  FramesInv'
<1>1. UNCHANGED <<got, usage, uid, named, booked>>
  BY DEF Taken, Done, Break, Move
<1>2. SettledWhole' /\ (Known => Known')
  <2>1. got' = got /\ usage' = usage /\ uid' = uid /\ named' = named /\ booked' = booked
    BY <1>1
  <2>2. SettledWhole'
    BY <2>1 DEF FramesInv, SettledWhole
  <2>3. Known => Known'
    BY <2>1 DEF Known, IdsKnown, FramesSound, ReportsKnown
  <2>4. QED
    BY <2>2, <2>3
<1>3. phase \in {"reading", "yielding", "pricing"} /\ phase' \in Phases \ {"done", "closed"}
  BY DEF Taken, Done, Break, Move, Phases
<1>4. phase' = "pricing" => usage # Blank
  BY DEF Taken, Done, Break, Move
<1>5. Booked'
  BY <1>1, <1>3 DEF FramesInv, Booked
<1>6. QED
  BY <1>1, <1>2, <1>3, <1>4, <1>5 DEF FramesInv

LEMMA EndStep ==
  ASSUME FramesInv, EndStream
  PROVE  FramesInv'
<1>1. phase' = "closed" /\ got' = got /\ phase # "closed"
  BY DEF EndStream
<1>2. CASE phase = "done"
  <2>1. booked' = booked
    BY <1>2 DEF EndStream, Unsettled
  <2>2. Booked' /\ SettledWhole'
    BY <1>1, <1>2, <2>1 DEF FramesInv, Booked, SettledWhole
  <2>3. QED
    BY <1>1, <2>2 DEF FramesInv, Phases
<1>3. CASE phase # "done"
  <2> DEFINE b == [call |-> "review", tokens |-> 0, uid |-> uid]
  <2>1. booked' = <<b>>
    BY <1>1, <1>3 DEF EndStream, Unsettled, FramesInv, Booked
  <2>2. ToSet(booked') = {b}
    BY <2>1 DEF ToSet
  <2>3. Booked' /\ SettledWhole'
    BY <1>1, <2>1, <2>2 DEF Booked, SettledWhole
  <2>4. QED
    BY <1>1, <2>3 DEF FramesInv, Phases
<1>4. QED
  BY <1>2, <1>3

LEMMA FramesStepOK == FramesInv /\ [FramesNext]_frameVars => FramesInv'
<1> SUFFICES ASSUME FramesInv, [FramesNext]_frameVars
             PROVE  FramesInv'
  OBVIOUS
<1>1. CASE UNCHANGED frameVars
  BY <1>1 DEF frameVars, FramesInv, Known, IdsKnown, FramesSound, ReportsKnown,
     Booked, SettledWhole
<1>2. CASE FramesNext
  BY <1>2, FrameStep, SettleStep, MoveStep, EndStep DEF FramesNext
<1>3. QED
  BY <1>1, <1>2

(* However a streamed answer of member_gateway.py is ordered, repeated or  *)
(* cut off, its row is settled or reviewed once, and it is settled only    *)
(* for what every report of a complete answer says.                        *)
THEOREM StreamsSettleOnce == FramesSpec => []FramesSettleOnce
<1>1. FramesInv => FramesSettleOnce
  <2> SUFFICES ASSUME FramesInv
               PROVE  FramesSettleOnce
    OBVIOUS
  <2>1. Len(booked) <= 1 /\ (phase = "closed" => Len(booked) = 1)
    <3>1. CASE phase \in {"done", "closed"}
      <4>1. Len(booked) = 1
        BY <3>1 DEF FramesInv, Booked
      <4>2. QED
        BY <4>1
    <3>2. CASE phase \notin {"done", "closed"}
      <4>1. booked = <<>>
        BY <3>2 DEF FramesInv, Booked
      <4>2. QED
        BY <3>2, <4>1
    <3>3. QED
      BY <3>1, <3>2
  <2>2. SettledWhole
    BY DEF FramesInv
  <2>3. QED
    BY <2>1, <2>2 DEF SettledWhole, FramesSettleOnce
<1>2. QED
  BY <1>1, FramesInitOK, FramesStepOK, PTL DEF FramesSpec
===============================================================================
