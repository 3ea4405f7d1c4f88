-------------------------- MODULE ConnectionProofs --------------------------
(***************************************************************************)
(* Proofs about Connection: what the reverse goroutines of the two nodes   *)
(* write, wherever their reads end and whenever a socket closes.           *)
(***************************************************************************)
EXTENDS Connection, SequenceTheorems, TLAPS

-----------------------------------------------------------------------------
(***************************************************************************)
(* The inductive invariant.                                                *)
(***************************************************************************)
\* A node's reverse goroutine starts with Run, once, and has done nothing
\* before that.
LifeInv ==
    /\ \A n \in Nodes : node[n] \in {"idle", "peek"} => rev[n] = "none"
    /\ node["enc"] = "peek" => node["dec"] = "idle"
    /\ \A n \in Nodes : rev[n] = "none" => seen[n] = 0 /\ taken[n] = 0
    /\ rev["dec"] = "none" => back = <<>>
    /\ rev["enc"] = "none" => client = <<>>

\* Every request that waits was sent by the client.
InboxInv == inbox["enc"] + inbox["dec"] <= asked

\* A reverse goroutine reads what has arrived, passes no more than it has
\* read, and leaves the fast path at the threshold.
CountInv ==
    /\ taken["dec"] <= sent
    /\ taken["enc"] <= Len(back)
    /\ \A n \in Nodes :
          /\ seen[n] <= taken[n]
          /\ rev[n] = "pass" => taken[n] = seen[n]
          /\ rev[n] \in {"loop", "read"} => seen[n] >= reverseFastPathBytes

\* How far into the server's bytes the first j units on the stream reach, j
\* being where the fast path of dec or a frame ends.
Reached(j) == IF j = seen["dec"] THEN seen["dec"] ELSE back[j][3]

\* dec has written the server's bytes up to where it left the fast path, and
\* after them frames, each of which continues where the one before it ends.
BackInv ==
    /\ \A i \in 1..Len(back) : i <= seen["dec"] => back[i] = Raw(i)
    /\ \A i \in 1..Len(back) : i > seen["dec"] =>
          /\ back[i][1] \in {"header", "payload"}
          /\ back[i][1] = "header" =>
                /\ i + 1 <= Len(back)
                /\ back[i][2] < back[i][3]
                /\ back[i][2] = Reached(i - 1)
                /\ back[i + 1] = <<"payload", back[i][2], back[i][3]>>
          /\ (i = seen["dec"] + 1 \/ back[i - 1][1] = "payload")
                <=> back[i][1] = "header"
    /\ Len(back) > seen["dec"] => seen["dec"] >= reverseFastPathBytes
    /\ rev["dec"] = "pass" => Len(back) <= seen["dec"]
    /\ (rev["dec"] = "pass" /\ Open(2, "near")) => Len(back) = seen["dec"]
    /\ (rev["dec"] \in {"loop", "read"} /\ Open(2, "near")) =>
          /\ Len(back) >= seen["dec"]
          /\ taken["dec"] = Reached(Len(back))

\* enc has passed the first units on the stream to the client as they are.
\* When it left the fast path where dec did, or before, everything the client
\* has is the server's; when it left where dec did, it reads whole frames.
ClientInv ==
    /\ \A i \in 1..Len(client) :
          i <= seen["enc"] => i <= Len(back) /\ client[i] = back[i]
    /\ Len(client) > seen["enc"] => seen["enc"] >= reverseFastPathBytes
    /\ rev["enc"] = "pass" => Len(client) <= seen["enc"]
    /\ (rev["enc"] = "pass" /\ Open(1, "near")) => Len(client) = seen["enc"]
    /\ (rev["enc"] \in {"loop", "read"} /\ Open(1, "near")) => Len(client) >= seen["enc"]
    /\ seen["enc"] <= seen["dec"] => \A i \in 1..Len(client) : client[i] = Raw(i)

StepInv ==
    /\ rev["enc"] = "violation" => seen["enc"] # seen["dec"]
    /\ rev["enc"] \in {"loop", "read"} =>
          /\ seen["enc"] < seen["dec"] => taken["enc"] = seen["enc"]
          /\ seen["enc"] = seen["dec"] =>
                /\ \/ taken["enc"] = seen["dec"]
                   \/ taken["enc"] > seen["dec"] /\ back[taken["enc"]][1] = "payload"
                /\ Open(1, "near") => Len(client) = Reached(taken["enc"])

ConnInv == ConnTypeOK /\ LifeInv /\ InboxInv /\ CountInv /\ BackInv /\ ClientInv /\ StepInv

-----------------------------------------------------------------------------
(***************************************************************************)
(* Sequences and units.                                                    *)
(***************************************************************************)

\* What writing more units does to a stream (WriteBack).
LEMMA Longer ==
    ASSUME NEW s \in Seq(Unit), NEW x \in Seq(Unit)
    PROVE  /\ s \o x \in Seq(Unit)
           /\ Len(s \o x) = Len(s) + Len(x)
           /\ \A i \in 1..Len(s) : (s \o x)[i] = s[i]
           /\ \A j \in 1..Len(x) : (s \o x)[Len(s) + j] = x[j]
<1>1. /\ s \o x \in Seq(Unit) /\ Len(s \o x) = Len(s) + Len(x)
      /\ Len(s) \in Nat /\ Len(x) \in Nat
      /\ \A i \in 1..Len(s) + Len(x) :
            (s \o x)[i] = IF i <= Len(s) THEN s[i] ELSE x[i - Len(s)]
  BY ConcatProperties
<1> HIDE DEF Unit
<1>2. \A i \in 1..Len(s) : i \in 1..Len(s) + Len(x) /\ i <= Len(s)
  BY <1>1
<1>3. \A j \in 1..Len(x) : /\ Len(s) + j \in 1..Len(s) + Len(x)
                            /\ ~(Len(s) + j <= Len(s))
                            /\ (Len(s) + j) - Len(s) = j
  BY <1>1
<1> QED
  BY <1>1, <1>2, <1>3

\* What a read of k units returns, behind the t units read before.
LEMMA ReadUnits ==
    ASSUME NEW a \in Seq(Unit), NEW t \in Nat, NEW k \in Nat \ {0}, t + k <= Len(a)
    PROVE  /\ SubSeq(a, t + 1, t + k) \in Seq(Unit)
           /\ Len(SubSeq(a, t + 1, t + k)) = k
           /\ \A i \in 1..k : SubSeq(a, t + 1, t + k)[i] = a[t + i]
<1> DEFINE m == t + 1
           n == t + k
<1>1. /\ m \in Int /\ n \in Int /\ m <= n /\ n - m + 1 = k
      /\ \A i \in m..n : i \in 1..Len(a)
      /\ \A i \in 1..k : m + i - 1 = t + i
  BY LenProperties
<1>2. \A i \in m..n : a[i] \in Unit
  BY <1>1, ElementOfSeq
<1> HIDE DEF m, n
<1>3. /\ SubSeq(a, m, n) \in Seq(Unit)
      /\ Len(SubSeq(a, m, n)) = IF m <= n THEN n - m + 1 ELSE 0
      /\ \A i \in 1..(n - m + 1) : SubSeq(a, m, n)[i] = a[m + i - 1]
  BY <1>1, <1>2, SubSeqProperties
<1>4. Len(SubSeq(a, m, n)) = k /\ \A i \in 1..k : SubSeq(a, m, n)[i] = a[t + i]
  BY <1>1, <1>3
<1> QED
  BY <1>3, <1>4 DEF m, n

\* A unit is a run of the server's bytes, or the header or the payload of a
\* frame.
LEMMA UnitCases ==
    ASSUME NEW u \in Unit
    PROVE  \/ u[1] = "raw" /\ \E i \in 1..Total : u = Raw(i)
           \/ /\ u[1] \in {"header", "payload"}
              /\ u[2] \in 0..Total /\ u[3] \in 0..Total
BY DEF Unit, Raw

\* Raw units are units, and tell their number.
LEMMA RawUnits ==
    /\ \A i \in 1..Total : Raw(i) \in Unit
    /\ \A i : Raw(i)[1] = "raw"
BY DEF Raw, Unit

\* The two units of a frame.
LEMMA FrameUnits ==
    ASSUME NEW p \in 0..Total, NEW q \in 0..Total
    PROVE  /\ FrameOf(p, q) \in Seq(Unit)
           /\ Len(FrameOf(p, q)) = 2
           /\ FrameOf(p, q)[1] = <<"header", p, q>>
           /\ FrameOf(p, q)[2] = <<"payload", p, q>>
<1>1. <<"header", p, q>> \in Unit /\ <<"payload", p, q>> \in Unit
  BY DEF Unit
<1> QED
  BY <1>1 DEF FrameOf

\* A run of the server's bytes.
LEMMA RawRun ==
    ASSUME NEW p \in Nat, NEW k \in Nat, p + k <= Total
    PROVE  LET x == [i \in 1..k |-> Raw(p + i)]
           IN  x \in Seq(Unit) /\ Len(x) = k /\ \A i \in 1..k : x[i] = Raw(p + i)
<1> DEFINE x == [i \in 1..k |-> Raw(p + i)]
<1>1. Total \in Nat
  BY ConnectionAssumption
<1>2. \A i \in 1..k : p + i \in 1..Total
  BY <1>1
<1>3. \A i \in 1..k : Raw(p + i) \in Unit
  BY <1>2, RawUnits
<1>4. x \in [1..k -> Unit]
  BY <1>3
<1>5. x \in Seq(Unit) /\ Len(x) = k
  BY <1>4, IsASeq, LenProperties
<1> QED
  BY <1>5

\* The nodes, and what their sockets are.
LEMMA TypeParts ==
    ASSUME ConnTypeOK
    PROVE  /\ back \in Seq(Unit) /\ Len(back) \in Nat
           /\ client \in Seq(Unit) /\ Len(client) \in Nat
           /\ sent \in Nat /\ sent <= Total /\ Total \in Nat
           /\ \A n \in Nodes : seen[n] \in Nat /\ taken[n] \in Nat
           /\ "enc" \in Nodes /\ "dec" \in Nodes
           /\ seen["enc"] \in Nat /\ taken["enc"] \in Nat
           /\ seen["dec"] \in Nat /\ taken["dec"] \in Nat
           /\ reverseFastPathBytes \in Nat
<1>1. back \in Seq(Unit) /\ client \in Seq(Unit)
  BY DEF ConnTypeOK
<1>2. Len(back) \in Nat /\ Len(client) \in Nat
  BY <1>1, LenProperties
<1> QED
  BY <1>1, <1>2, ConnectionAssumption DEF ConnTypeOK, Nodes

-----------------------------------------------------------------------------
(***************************************************************************)
(* Steps that write nothing.                                               *)
(***************************************************************************)
\* What may happen to a reverse goroutine that writes nothing.
Moves(n) ==
    \/ rev'[n] = rev[n]
    \/ rev'[n] = "done"
    \/ rev[n] = "none" /\ rev'[n] = "pass"
    \/ rev[n] = "loop" /\ rev'[n] = "read"

\* Such a step preserves what is said of the streams and the counts.
LEMMA QuietStep ==
    ASSUME ConnInv, UNCHANGED <<seen, taken, back, client>>,
           sent' \in Nat, sent <= sent', shut \subseteq shut',
           Moves("enc"), Moves("dec")
    PROVE  CountInv' /\ BackInv' /\ ClientInv' /\ StepInv'
<1>0. ConnTypeOK /\ LifeInv /\ CountInv /\ BackInv /\ ClientInv /\ StepInv
  BY DEF ConnInv
<1> USE <1>0, TypeParts
<1>1. Open(1, "near")' => Open(1, "near")
  BY DEF Open
<1>2. Open(2, "near")' => Open(2, "near")
  BY DEF Open
<1>3. CountInv'
  <2>1. \A n \in Nodes : Moves(n)
    BY DEF Nodes
  <2>2. ASSUME NEW n \in Nodes
        PROVE  /\ seen'[n] <= taken'[n]
               /\ rev'[n] = "pass" => taken'[n] = seen'[n]
               /\ rev'[n] \in {"loop", "read"} => seen'[n] >= reverseFastPathBytes
    BY <2>1, <2>2 DEF CountInv, LifeInv, Moves
  <2> QED
    BY <2>2 DEF CountInv
<1>4. BackInv'
  <2>1. rev["dec"] = "none" => Len(back) = 0 /\ seen["dec"] = 0
    BY DEF LifeInv
  <2>2. \A j : Reached(j)' = Reached(j)
    BY DEF Reached
  <2> QED
    BY <1>2, <2>1, <2>2, SMTT(30) DEF BackInv, Moves
<1>5. ClientInv'
  <2>1. rev["enc"] = "none" => Len(client) = 0 /\ seen["enc"] = 0
    BY DEF LifeInv
  <2> QED
    BY <1>1, <2>1 DEF ClientInv, Moves
<1>6. StepInv'
  <2>1. \A j : Reached(j)' = Reached(j)
    BY DEF Reached
  <2> QED
    BY <1>1, <2>1 DEF StepInv, Moves
<1> QED
  BY <1>3, <1>4, <1>5, <1>6

-----------------------------------------------------------------------------
(***************************************************************************)
(* The fast path.                                                          *)
(***************************************************************************)
\* One turn of the fast path passes k units on or finds the source closed.
LEMMA PassCases ==
    ASSUME ConnInv, NEW n \in Nodes, Pass(n)
    PROVE  \E k \in 1..Pending(n) :
              LET x == SubSeq(Arriving(n), taken[n] + 1, taken[n] + k)
              IN  /\ taken' = [taken EXCEPT ![n] = @ + k]
                  /\ \/ /\ rev' = [rev EXCEPT ![n] = AfterPass(n, k)]
                        /\ seen' = [seen EXCEPT ![n] = @ + k]
                        /\ back' = IF n = "dec" /\ Open(2, "near") THEN back \o x ELSE back
                        /\ client' = IF n = "enc" /\ Open(1, "near") THEN client \o x
                                                                     ELSE client
                     \/ /\ rev' = [rev EXCEPT ![n] = "done"]
                        /\ UNCHANGED <<seen, back, client>>
<1> DEFINE x(k) == SubSeq(Arriving(n), taken[n] + 1, taken[n] + k)
<1>1. PICK k \in 1..Pending(n) :
          /\ WriteBack(n, x(k), AfterPass(n, k))
          /\ taken' = [taken EXCEPT ![n] = @ + k]
          /\ seen' = IF rev'[n] = "done" THEN seen ELSE [seen EXCEPT ![n] = @ + k]
  BY DEF Pass
<1>2. rev \in [Nodes -> {"none", "pass", "loop", "read", "done", "violation"}]
  BY DEF ConnInv, ConnTypeOK
<1>3. AfterPass(n, k) # "done"
  BY DEF AfterPass
<1>4. rev' = [rev EXCEPT ![n] = AfterPass(n, k)] => rev'[n] # "done"
  BY <1>2, <1>3
<1>5. rev' = [rev EXCEPT ![n] = "done"] => rev'[n] = "done"
  BY <1>2
<1>6. \/ /\ rev' = [rev EXCEPT ![n] = AfterPass(n, k)]
         /\ seen' = [seen EXCEPT ![n] = @ + k]
         /\ back' = IF n = "dec" /\ Open(2, "near") THEN back \o x(k) ELSE back
         /\ client' = IF n = "enc" /\ Open(1, "near") THEN client \o x(k) ELSE client
      \/ /\ rev' = [rev EXCEPT ![n] = "done"]
         /\ UNCHANGED <<seen, back, client>>
  <2> HIDE DEF x
  <2> QED
    BY <1>1, <1>4, <1>5 DEF WriteBack
<1> QED
  BY <1>1, <1>6

\* What a turn of the fast path of dec leaves alone, and what it does.
PassedByDec(k, x) ==
    /\ taken'["dec"] = taken["dec"] + k /\ taken'["enc"] = taken["enc"]
    /\ seen'["dec"] = seen["dec"] + k /\ seen'["enc"] = seen["enc"]
    /\ rev'["dec"] = AfterPass("dec", k) /\ rev'["enc"] = rev["enc"]
    /\ client' = client
    /\ \/ Open(2, "near") /\ back' = back \o x
       \/ ~Open(2, "near") /\ back' = back

\* A write that fails ends a reverse goroutine and changes nothing else but
\* what it has read.
FailedIn(n, m, k) ==
    /\ taken'[n] = taken[n] + k /\ taken'[m] = taken[m]
    /\ rev'[n] = "done" /\ rev'[m] = rev[m]
    /\ UNCHANGED <<seen, back, client>>

\* The end of a reverse goroutine whose write failed.
LEMMA FailedInv ==
    ASSUME ConnInv, NEW k \in Nat, UNCHANGED <<sent, shut>>,
           \/ FailedIn("dec", "enc", k) /\ taken["dec"] + k <= sent
           \/ FailedIn("enc", "dec", k) /\ taken["enc"] + k <= Len(back)
    PROVE  CountInv' /\ BackInv' /\ ClientInv' /\ StepInv'
<1>0. ConnTypeOK /\ CountInv /\ BackInv /\ ClientInv /\ StepInv
  BY DEF ConnInv
<1> USE <1>0, TypeParts DEF FailedIn
<1>1. CountInv'
  <2>1. ASSUME NEW n \in Nodes
        PROVE  /\ seen'[n] <= taken'[n]
               /\ rev'[n] = "pass" => taken'[n] = seen'[n]
               /\ rev'[n] \in {"loop", "read"} => seen'[n] >= reverseFastPathBytes
    <3>1. seen'[n] = seen[n] /\ (rev'[n] = rev[n] \/ rev'[n] = "done")
      BY DEF Nodes
    <3>2. taken'[n] = taken[n] \/ (taken'[n] = taken[n] + k /\ rev'[n] = "done")
      BY DEF Nodes
    <3>3. taken[n] \in Nat /\ seen[n] \in Nat
      OBVIOUS
    <3> QED
      BY <3>1, <3>2, <3>3, SMTT(30) DEF CountInv
  <2>2. taken'["dec"] <= sent' /\ taken'["enc"] <= Len(back')
    BY DEF CountInv
  <2> QED
    BY <2>1, <2>2 DEF CountInv
<1>2. \A j : Reached(j)' = Reached(j)
  BY DEF Reached
<1>3. Open(1, "near")' = Open(1, "near") /\ Open(2, "near")' = Open(2, "near")
  BY DEF Open
<1>4. BackInv'
  BY <1>2, <1>3 DEF BackInv
<1>5. ClientInv'
  BY <1>3 DEF ClientInv
<1>6. StepInv'
  BY <1>2, <1>3, SMTT(30) DEF StepInv
<1> QED
  BY <1>1, <1>4, <1>5, <1>6

\* The fast path of dec continues the server's bytes on the stream.  As long
\* as dec is on it, enc cannot have passed more than dec has.
LEMMA PassDecInv ==
    ASSUME ConnInv, NEW k \in Nat \ {0}, UNCHANGED <<sent, shut>>, rev["dec"] = "pass",
           taken["dec"] + k <= sent,
           NEW x \in Seq(Unit), Len(x) = k,
           \A i \in 1..k : x[i] = Raw(taken["dec"] + i),
           PassedByDec(k, x)
    PROVE  back' \in Seq(Unit) /\ CountInv' /\ BackInv' /\ ClientInv' /\ StepInv'
<1>0. ConnTypeOK /\ CountInv /\ BackInv /\ ClientInv /\ StepInv
  BY DEF ConnInv
<1> USE <1>0, TypeParts
<1> DEFINE d == seen["dec"]
           e == seen["enc"]
<1>1. taken["dec"] = d /\ Len(back) <= d /\ (Open(2, "near") => Len(back) = d)
  BY DEF CountInv, BackInv
<1>2. /\ back' \in Seq(Unit) /\ Len(back') \in Nat
      /\ Len(back') >= Len(back) /\ Len(back') <= d + k
      /\ Open(2, "near") => Len(back') = d + k
      /\ \A i \in 1..Len(back) : back'[i] = back[i]
      /\ \A i \in 1..Len(back') : back'[i] = Raw(i)
  <2>1. CASE back' = back
    BY <1>1, <2>1 DEF PassedByDec, BackInv
  <2>2. CASE Open(2, "near") /\ back' = back \o x
    <3>1. /\ back' \in Seq(Unit) /\ Len(back') = d + k
          /\ \A i \in 1..d : back'[i] = back[i]
          /\ \A j \in 1..k : back'[d + j] = Raw(d + j)
      <4> DEFINE y == back \o x
      <4>1. /\ y \in Seq(Unit) /\ Len(y) = Len(back) + Len(x)
            /\ \A i \in 1..Len(back) : y[i] = back[i]
            /\ \A j \in 1..Len(x) : y[Len(back) + j] = x[j]
        BY Longer
      <4>2. back' = y
        BY <2>2
      <4> HIDE DEF y
      <4> QED
        BY <1>1, <2>2, <4>1, <4>2
    <3>2. \A i \in 1..Len(back') : i \in 1..d \/ (i - d \in 1..k /\ d + (i - d) = i)
      <4>1. Len(back') = d + k /\ d \in Nat /\ k \in Nat
        BY <3>1
      <4> QED
        BY ONLY <4>1
    <3>3. \A i \in 1..Len(back') : back'[i] = Raw(i)
      <4> SUFFICES ASSUME NEW i \in 1..Len(back') PROVE back'[i] = Raw(i)
        OBVIOUS
      <4>1. CASE i \in 1..d
        BY <1>1, <2>2, <3>1, <4>1 DEF BackInv
      <4>2. CASE i - d \in 1..k /\ d + (i - d) = i
        BY <3>1, <4>2
      <4> QED
        BY <3>2, <4>1, <4>2
    <3>4. Len(back') = d + k /\ d \in Nat /\ k \in Nat /\ Len(back) = d
      BY <1>1, <2>2, <3>1
    <3>5. Len(back') \in Nat /\ Len(back') >= Len(back) /\ Len(back') <= d + k
      BY ONLY <3>4
    <3> QED
      BY <1>1, <2>2, <3>1, <3>3, <3>4, <3>5
  <2> QED
    BY <1>1, <2>1, <2>2 DEF PassedByDec
<1>3. seen'["dec"] = d + k /\ taken'["dec"] = d + k /\ seen'["enc"] = e
      /\ taken'["enc"] = taken["enc"] /\ rev'["enc"] = rev["enc"]
  BY <1>1 DEF PassedByDec
<1>4. /\ rev'["dec"] \in {"pass", "loop"}
      /\ rev'["dec"] = "loop" => d + k >= reverseFastPathBytes
  BY DEF PassedByDec, AfterPass
<1>5. Open(1, "near")' = Open(1, "near") /\ Open(2, "near")' = Open(2, "near")
  BY DEF Open
<1>6. e <= taken["enc"] /\ taken["enc"] <= Len(back)
  BY DEF CountInv
<1>7. e <= d /\ e < d + k
  BY <1>1, <1>6
<1>8. CountInv'
  <2>1. ASSUME NEW n \in Nodes
        PROVE  /\ seen'[n] <= taken'[n]
               /\ rev'[n] = "pass" => taken'[n] = seen'[n]
               /\ rev'[n] \in {"loop", "read"} => seen'[n] >= reverseFastPathBytes
    BY <1>3, <1>4, <2>1 DEF CountInv, Nodes
  <2>2. taken'["dec"] <= sent' /\ taken'["enc"] <= Len(back')
    BY <1>1, <1>2, <1>3, <1>6
  <2> QED
    BY <2>1, <2>2 DEF CountInv
<1>9. BackInv'
  <2>1. \A i \in 1..Len(back') : ~(i > seen'["dec"])
    BY <1>2, <1>3
  <2>2. (rev'["dec"] \in {"loop", "read"} /\ Open(2, "near")') =>
            /\ Len(back') >= seen'["dec"]
            /\ taken'["dec"] = Reached(Len(back))'
    BY <1>2, <1>3, <1>5 DEF Reached
  <2> QED
    BY <1>2, <1>3, <1>4, <1>5, <2>1, <2>2, SMTT(30) DEF BackInv
<1>10. ClientInv'
  <2>1. \A i \in 1..Len(client) : i <= e => i <= Len(back') /\ client[i] = back'[i]
    BY <1>2, SMTT(30) DEF ClientInv
  <2> QED
    BY <1>3, <1>5, <1>7, <2>1 DEF ClientInv, PassedByDec
<1>11. StepInv'
  <2>1. rev["enc"] \in {"loop", "read"} => taken["enc"] = e
    BY <1>1, <1>6, <1>7 DEF StepInv
  <2> QED
    BY <1>3, <1>7, <2>1 DEF StepInv
<1> QED
  BY <1>2, <1>8, <1>9, <1>10, <1>11

\* What a turn of the fast path of enc does.
PassedByEnc(k, x) ==
    /\ taken'["enc"] = taken["enc"] + k /\ taken'["dec"] = taken["dec"]
    /\ seen'["enc"] = seen["enc"] + k /\ seen'["dec"] = seen["dec"]
    /\ rev'["enc"] = AfterPass("enc", k) /\ rev'["dec"] = rev["dec"]
    /\ back' = back
    /\ \/ Open(1, "near") /\ client' = client \o x
       \/ ~Open(1, "near") /\ client' = client

\* The fast path of enc continues, for the client, what is on the stream.
LEMMA PassEncInv ==
    ASSUME ConnInv, NEW k \in Nat \ {0}, UNCHANGED <<sent, shut>>, rev["enc"] = "pass",
           taken["enc"] + k <= Len(back),
           NEW x \in Seq(Unit), Len(x) = k,
           \A i \in 1..k : x[i] = back[taken["enc"] + i],
           PassedByEnc(k, x)
    PROVE  client' \in Seq(Unit) /\ CountInv' /\ BackInv' /\ ClientInv' /\ StepInv'
<1>0. ConnTypeOK /\ CountInv /\ BackInv /\ ClientInv /\ StepInv
  BY DEF ConnInv
<1> USE <1>0, TypeParts
<1> DEFINE d == seen["dec"]
           e == seen["enc"]
<1>1. taken["enc"] = e /\ Len(client) <= e /\ (Open(1, "near") => Len(client) = e)
  BY DEF CountInv, ClientInv
<1>2. /\ client' \in Seq(Unit) /\ Len(client') \in Nat /\ Len(client') <= e + k
      /\ Open(1, "near") => Len(client') = e + k
      /\ \A i \in 1..Len(client') : i <= Len(back) /\ client'[i] = back[i]
  <2>1. CASE ~Open(1, "near") /\ client' = client
    BY <1>1, <2>1 DEF ClientInv
  <2>2. CASE Open(1, "near") /\ client' = client \o x
    <3> DEFINE y == client \o x
    <3>1. /\ y \in Seq(Unit) /\ Len(y) = Len(client) + Len(x)
          /\ \A i \in 1..Len(client) : y[i] = client[i]
          /\ \A j \in 1..Len(x) : y[Len(client) + j] = x[j]
      BY Longer
    <3>2. client' = y
      BY <2>2
    <3> HIDE DEF y
    <3>3. /\ client' \in Seq(Unit) /\ Len(client') = e + k
          /\ \A i \in 1..e : client'[i] = client[i]
          /\ \A j \in 1..k : client'[e + j] = back[e + j]
      BY <1>1, <2>2, <3>1, <3>2
    <3>4. Len(client') = e + k /\ e \in Nat /\ k \in Nat /\ Len(back) \in Nat
          /\ e + k <= Len(back)
      BY <1>1, <3>3
    <3>5. /\ Len(client') \in Nat /\ Len(client') <= e + k
          /\ \A i \in 1..Len(client') :
                /\ i <= Len(back)
                /\ i \in 1..e \/ (i - e \in 1..k /\ e + (i - e) = i)
      BY ONLY <3>4
    <3>6. \A i \in 1..Len(client') : client'[i] = back[i]
      <4> SUFFICES ASSUME NEW i \in 1..Len(client') PROVE client'[i] = back[i]
        OBVIOUS
      <4>1. CASE i \in 1..e
        BY <1>1, <2>2, <3>3, <4>1 DEF ClientInv
      <4>2. CASE i - e \in 1..k /\ e + (i - e) = i
        BY <3>3, <4>2
      <4> QED
        BY <3>5, <4>1, <4>2
    <3> QED
      BY <3>3, <3>5, <3>6
  <2> QED
    BY <2>1, <2>2 DEF PassedByEnc
<1>3. seen'["enc"] = e + k /\ taken'["enc"] = e + k /\ seen'["dec"] = d
      /\ taken'["dec"] = taken["dec"] /\ rev'["dec"] = rev["dec"] /\ back' = back
  BY <1>1 DEF PassedByEnc
<1>4. /\ rev'["enc"] \in {"pass", "loop"}
      /\ rev'["enc"] = "loop" => e + k >= reverseFastPathBytes
  BY DEF PassedByEnc, AfterPass
<1>5. Open(1, "near")' = Open(1, "near") /\ Open(2, "near")' = Open(2, "near")
  BY DEF Open
<1>6. CountInv'
  <2>1. ASSUME NEW n \in Nodes
        PROVE  /\ seen'[n] <= taken'[n]
               /\ rev'[n] = "pass" => taken'[n] = seen'[n]
               /\ rev'[n] \in {"loop", "read"} => seen'[n] >= reverseFastPathBytes
    BY <1>3, <1>4, <2>1 DEF CountInv, Nodes
  <2>2. taken'["dec"] <= sent' /\ taken'["enc"] <= Len(back')
    BY <1>1, <1>3 DEF CountInv
  <2> QED
    BY <2>1, <2>2 DEF CountInv
<1>7. \A j : Reached(j)' = Reached(j)
  BY <1>3 DEF Reached
<1>8. BackInv'
  BY <1>3, <1>5, <1>7 DEF BackInv
<1>9. ClientInv'
  <2>1. e + k <= d => \A i \in 1..Len(client') : client'[i] = Raw(i)
    <3> SUFFICES ASSUME e + k <= d, NEW i \in 1..Len(client')
                 PROVE  client'[i] = Raw(i)
      OBVIOUS
    <3>1. i \in 1..Len(back) /\ i <= d /\ client'[i] = back[i]
      BY <1>2
    <3> QED
      BY <3>1 DEF BackInv
  <2>2. ~(Len(client') > seen'["enc"])
    BY <1>2, <1>3
  <2> QED
    BY <1>2, <1>3, <1>4, <1>5, <2>1, <2>2 DEF ClientInv
<1>10. StepInv'
  BY <1>2, <1>3, <1>4, <1>5 DEF StepInv, Reached
<1> QED
  BY <1>2, <1>6, <1>8, <1>9, <1>10

-----------------------------------------------------------------------------
(***************************************************************************)
(* The reverse ENZO lane.                                                  *)
(***************************************************************************)
\* What encoding the server's bytes from p to q does.
EncodedByDec(p, q) ==
    /\ taken'["dec"] = q /\ taken'["enc"] = taken["enc"]
    /\ rev'["dec"] = "loop" /\ rev'["enc"] = rev["enc"]
    /\ UNCHANGED <<seen, client>>
    /\ \/ Open(2, "near") /\ back' = back \o FrameOf(p, q)
       \/ ~Open(2, "near") /\ back' = back

\* What stays said of the stream when it gets longer behind where enc reads.
LEMMA LongerStream ==
    ASSUME ConnTypeOK, CountInv, BackInv, ClientInv, StepInv,
           back' \in Seq(Unit), Len(back) <= Len(back'),
           \A i \in 1..Len(back) : back'[i] = back[i],
           taken'["enc"] = taken["enc"], rev'["enc"] = rev["enc"],
           UNCHANGED <<seen, client, shut>>
    PROVE  /\ \A j \in 0..Len(back) : j >= seen["dec"] => Reached(j)' = Reached(j)
           /\ ClientInv'
           /\ StepInv'
<1> USE TypeParts
<1>0. Len(back') \in Nat
  BY LenProperties
<1>1. ASSUME NEW j \in 0..Len(back), j >= seen["dec"]
      PROVE  Reached(j)' = Reached(j)
  BY <1>1 DEF Reached
<1>2. Open(1, "near")' = Open(1, "near")
  BY DEF Open
<1>3. ClientInv'
  BY <1>0, <1>2 DEF ClientInv
<1>4. StepInv'
  <2>1. taken["enc"] \in 0..Len(back)
    BY DEF CountInv
  <2>2. taken["enc"] >= seen["dec"] => Reached(taken["enc"])' = Reached(taken["enc"])
    BY <1>1, <2>1 DEF Reached
  <2>3. taken["enc"] > seen["dec"] => back'[taken["enc"]] = back[taken["enc"]]
    BY <2>1
  <2> QED
    BY <1>2, <2>1, <2>2, <2>3 DEF StepInv, Reached
<1> QED
  BY <1>1, <1>3, <1>4

\* A frame goes behind a complete frame, or behind the last of the fast path,
\* and continues where that one ends.
LEMMA EncodeInv ==
    ASSUME ConnInv, UNCHANGED <<sent, shut>>, rev["dec"] = "read",
           NEW p, p = taken["dec"], NEW q \in (p + 1)..sent, EncodedByDec(p, q)
    PROVE  back' \in Seq(Unit) /\ CountInv' /\ BackInv' /\ ClientInv' /\ StepInv'
<1>0. ConnTypeOK /\ CountInv /\ BackInv /\ ClientInv /\ StepInv
  BY DEF ConnInv
<1> USE <1>0, TypeParts
<1> DEFINE d == seen["dec"]
           L == Len(back)
<1>1. p \in Nat /\ q \in Nat /\ p < q /\ q <= sent /\ p \in 0..Total /\ q \in 0..Total
  OBVIOUS
<1>2. /\ back' \in Seq(Unit) /\ L <= Len(back') /\ Len(back') \in Nat
      /\ \A i \in 1..L : back'[i] = back[i]
      /\ Open(2, "near") => /\ Len(back') = L + 2
                            /\ back'[L + 1] = <<"header", p, q>>
                            /\ back'[L + 2] = <<"payload", p, q>>
      /\ ~Open(2, "near") => back' = back
  <2>1. CASE ~Open(2, "near") /\ back' = back
    BY <2>1
  <2>2. CASE Open(2, "near") /\ back' = back \o FrameOf(p, q)
    <3> DEFINE x == FrameOf(p, q)
               y == back \o x
    <3>1. x \in Seq(Unit) /\ Len(x) = 2
          /\ x[1] = <<"header", p, q>> /\ x[2] = <<"payload", p, q>>
      BY <1>1, FrameUnits
    <3> HIDE DEF x
    <3>2. /\ y \in Seq(Unit) /\ Len(y) = L + Len(x)
          /\ \A i \in 1..L : y[i] = back[i]
          /\ \A j \in 1..Len(x) : y[L + j] = x[j]
      BY <3>1, Longer
    <3>3. back' = y
      BY <2>2 DEF x
    <3> HIDE DEF y
    <3>4. 1 \in 1..Len(x) /\ 2 \in 1..Len(x)
      BY <3>1
    <3>5. Len(back') = L + 2 /\ L \in Nat
      BY <3>1, <3>2, <3>3
    <3>6. L <= Len(back') /\ Len(back') \in Nat
      BY ONLY <3>5
    <3>7. back'[L + 1] = <<"header", p, q>> /\ back'[L + 2] = <<"payload", p, q>>
      BY ONLY <3>1, <3>2, <3>3, <3>4
    <3>8. back' \in Seq(Unit) /\ \A i \in 1..L : back'[i] = back[i]
      BY ONLY <3>2, <3>3
    <3> QED
      BY ONLY <2>2, <3>5, <3>6, <3>7, <3>8
  <2> QED
    BY <2>1, <2>2 DEF EncodedByDec
<1>20. d \in Nat /\ L \in Nat
  OBVIOUS
<1>3. /\ taken'["dec"] = q /\ taken'["enc"] = taken["enc"] /\ rev'["dec"] = "loop"
      /\ rev'["enc"] = rev["enc"] /\ seen' = seen /\ client' = client
  BY DEF EncodedByDec
<1>4. /\ \A j \in 0..L : j >= d => Reached(j)' = Reached(j)
      /\ ClientInv' /\ StepInv'
  BY <1>2, <1>3, LongerStream
<1>5. Open(2, "near")' = Open(2, "near")
  BY DEF Open
<1>6. d >= reverseFastPathBytes /\ d <= p
  BY DEF CountInv
<1>7. CountInv'
  <2>1. ASSUME NEW n \in Nodes
        PROVE  /\ seen'[n] <= taken'[n]
               /\ rev'[n] = "pass" => taken'[n] = seen'[n]
               /\ rev'[n] \in {"loop", "read"} => seen'[n] >= reverseFastPathBytes
    BY <1>1, <1>3, <1>6, <2>1 DEF CountInv, Nodes
  <2>2. taken'["dec"] <= sent' /\ taken'["enc"] <= Len(back')
    BY <1>1, <1>2, <1>3 DEF CountInv
  <2> QED
    BY <2>1, <2>2 DEF CountInv
<1>8. BackInv'
  <2>1. CASE ~Open(2, "near")
    <3>1. \A j : Reached(j)' = Reached(j)
      BY <1>2, <1>3, <2>1 DEF Reached
    <3> QED
      BY <1>2, <1>3, <1>5, <2>1, <3>1, SMTT(30) DEF BackInv
  <2>2. CASE Open(2, "near")
    <3>1. L >= d /\ p = Reached(L)
      BY <2>2 DEF BackInv
    <3>2. L = d \/ (L > d /\ L \in 1..L /\ back[L][1] = "payload")
      <4> SUFFICES ASSUME L # d PROVE L > d /\ L \in 1..L /\ back[L][1] = "payload"
        OBVIOUS
      <4>1. L > d /\ L \in 1..L /\ ~(L + 1 <= L)
        BY ONLY <1>20, <3>1, L # d
      <4>2. /\ back[L][1] \in {"header", "payload"}
            /\ back[L][1] = "header" => L + 1 <= L
        BY <4>1 DEF BackInv
      <4> QED
        BY ONLY <4>1, <4>2
    <3>3. ASSUME NEW i \in 1..Len(back'), i > d
          PROVE  /\ back'[i][1] \in {"header", "payload"}
                 /\ back'[i][1] = "header" =>
                       /\ i + 1 <= Len(back')
                       /\ back'[i][2] < back'[i][3]
                       /\ back'[i][2] = Reached(i - 1)'
                       /\ back'[i + 1] = <<"payload", back'[i][2], back'[i][3]>>
                 /\ (i = d + 1 \/ back'[i - 1][1] = "payload")
                       <=> back'[i][1] = "header"
      <4>1. CASE i \in 1..L
        <5>0. i \in 1..L /\ i > d /\ d \in Nat /\ L \in Nat
          BY <1>20, <3>3, <4>1
        <5>1. i - 1 \in 0..L /\ i - 1 >= d /\ (i # d + 1 => i - 1 \in 1..L)
          BY ONLY <5>0
        <5>10. back'[i] = back[i]
          BY <1>2, <4>1
        <5>2. Reached(i - 1)' = Reached(i - 1)
          BY <1>4, <5>1
        <5>3. i # d + 1 => back'[i - 1] = back[i - 1]
          BY ONLY <1>2, <5>1
        <5>4. i + 1 <= L => back'[i + 1] = back[i + 1]
          BY <1>2, <4>1
        <5>5. /\ back[i][1] \in {"header", "payload"}
              /\ back[i][1] = "header" =>
                    /\ i + 1 <= L
                    /\ back[i][2] < back[i][3]
                    /\ back[i][2] = Reached(i - 1)
                    /\ back[i + 1] = <<"payload", back[i][2], back[i][3]>>
              /\ (i = d + 1 \/ back[i - 1][1] = "payload") <=> back[i][1] = "header"
          BY <3>3, <4>1 DEF BackInv
        <5>6. i + 1 <= L => i + 1 <= Len(back')
          BY ONLY <1>2, <1>20, <5>0
        <5> QED
          BY ONLY <5>10, <5>2, <5>3, <5>4, <5>5, <5>6
      <4>2. CASE i = L + 1
        <5>0. i + 1 = L + 2
          BY ONLY <1>20, <4>2
        <5>1. back'[i] = <<"header", p, q>> /\ back'[i + 1] = <<"payload", p, q>>
          BY ONLY <1>2, <2>2, <4>2, <5>0
        <5>2. i - 1 = L /\ i + 1 <= Len(back')
          BY <1>2, <2>2, <4>2
        <5>3. Reached(i - 1)' = p
          BY <1>4, <3>1, <5>2
        <5>4. i = d + 1 \/ back'[i - 1][1] = "payload"
          <6>1. CASE L = d
            BY ONLY <1>20, <4>2, <6>1
          <6>2. CASE L > d /\ L \in 1..L /\ back[L][1] = "payload"
            BY ONLY <1>2, <5>2, <6>2
          <6> QED
            BY ONLY <3>2, <6>1, <6>2
        <5> QED
          BY <1>1, <5>1, <5>2, <5>3, <5>4
      <4>3. CASE i = L + 2
        <5>0. i - 1 = L + 1
          BY ONLY <1>20, <4>3
        <5>1. back'[i] = <<"payload", p, q>> /\ back'[i - 1] = <<"header", p, q>>
          BY ONLY <1>2, <2>2, <4>3, <5>0
        <5>2. i # d + 1
          BY <3>1, <4>3
        <5> QED
          BY <5>1, <5>2
      <4>4. Len(back') = L + 2
        BY <1>2, <2>2
      <4>5. i \in 1..L \/ i = L + 1 \/ i = L + 2
        BY ONLY <1>20, <3>3, <4>4
      <4> QED
        BY ONLY <4>1, <4>2, <4>3, <4>5
    <3>4. \A i \in 1..Len(back') : i <= d => back'[i] = Raw(i)
      <4> SUFFICES ASSUME NEW i \in 1..Len(back'), i <= d PROVE back'[i] = Raw(i)
        OBVIOUS
      <4>1. i \in 1..L
        BY ONLY <1>2, <1>20, <3>1, i \in 1..Len(back'), i <= d
      <4> QED
        BY <1>2, <4>1 DEF BackInv
    <3>5. Len(back') >= d /\ q = Reached(Len(back))'
      <4>1. Len(back') = L + 2 /\ back'[L + 2][3] = q /\ L + 2 # d /\ L + 2 >= d
        BY <1>2, <2>2, <3>1, SMTT(30)
      <4> QED
        BY <1>3, <4>1 DEF Reached
    <3> QED
      BY <1>3, <1>5, <1>6, <3>3, <3>4, <3>5 DEF BackInv
  <2> QED
    BY <2>1, <2>2
<1> QED
  BY <1>2, <1>4, <1>7, <1>8

\* A header on the stream lies behind the fast path of dec, and is followed by
\* its payload.
LEMMA HeaderAt ==
    ASSUME ConnTypeOK, BackInv, NEW j \in 1..Len(back), back[j][1] = "header"
    PROVE  /\ j > seen["dec"]
           /\ j + 1 \in 1..Len(back)
           /\ back[j][2] \in 0..Total /\ back[j][3] \in 0..Total
           /\ back[j][2] < back[j][3]
           /\ back[j][2] = Reached(j - 1)
           /\ back[j + 1] = <<"payload", back[j][2], back[j][3]>>
<1> USE TypeParts
<1>1. j > seen["dec"]
  <2> SUFFICES ASSUME j <= seen["dec"] PROVE FALSE
    OBVIOUS
  <2>1. back[j] = Raw(j)
    BY DEF BackInv
  <2> QED
    BY <2>1, RawUnits
<1>2. back[j] \in Unit
  BY ElementOfSeq
<1>3. back[j][2] \in 0..Total /\ back[j][3] \in 0..Total
  BY <1>2, UnitCases
<1>4. /\ j + 1 <= Len(back)
      /\ back[j][2] < back[j][3]
      /\ back[j][2] = Reached(j - 1)
      /\ back[j + 1] = <<"payload", back[j][2], back[j][3]>>
  BY <1>1 DEF BackInv
<1>5. j + 1 \in 1..Len(back)
  BY <1>4
<1> QED
  BY <1>1, <1>3, <1>4, <1>5

\* What decoding the frame at the head of the stream does.
DecodedByEnc(x) ==
    /\ taken'["enc"] = taken["enc"] + 2 /\ taken'["dec"] = taken["dec"]
    /\ rev'["enc"] = "loop" /\ rev'["dec"] = rev["dec"]
    /\ UNCHANGED <<seen, back>>
    /\ \/ Open(1, "near") /\ client' = client \o x
       \/ ~Open(1, "near") /\ client' = client

\* Where enc left the fast path at the same byte as dec, a frame continues the
\* server's bytes for the client.
LEMMA DecodeInv ==
    ASSUME ConnInv, UNCHANGED <<sent, shut>>, rev["enc"] = "read",
           NEW t, t = taken["enc"], t + 2 <= Len(back), back[t + 1][1] = "header",
           NEW k \in Nat, k = back[t + 1][3] - back[t + 1][2],
           NEW x \in Seq(Unit), Len(x) = k,
           \A i \in 1..k : x[i] = Raw(back[t + 1][2] + i),
           DecodedByEnc(x)
    PROVE  client' \in Seq(Unit) /\ CountInv' /\ BackInv' /\ ClientInv' /\ StepInv'
<1>0. ConnTypeOK /\ CountInv /\ BackInv /\ ClientInv /\ StepInv
  BY DEF ConnInv
<1> USE <1>0, TypeParts
<1> DEFINE d == seen["dec"]
           e == seen["enc"]
           c == Len(client)
           p == back[t + 1][2]
           q == back[t + 1][3]
<1>1. t \in Nat /\ d \in Nat /\ e \in Nat /\ c \in Nat /\ Len(back) \in Nat
  OBVIOUS
<1>2. t + 1 \in 1..Len(back) /\ (t + 1) - 1 = t
  BY ONLY <1>1, t + 2 <= Len(back)
<1>3. /\ t + 1 > d /\ p \in Nat /\ q \in Nat /\ p < q /\ p = Reached(t)
      /\ back[(t + 1) + 1] = <<"payload", p, q>>
  <2> DEFINE j == t + 1
  <2>1. j \in 1..Len(back) /\ back[j][1] = "header"
    BY <1>2
  <2> HIDE DEF j
  <2>2. /\ j > d
        /\ back[j][2] \in 0..Total /\ back[j][3] \in 0..Total
        /\ back[j][2] < back[j][3]
        /\ back[j][2] = Reached(j - 1)
        /\ back[j + 1] = <<"payload", back[j][2], back[j][3]>>
    BY <2>1, HeaderAt
  <2>3. \A v \in 0..Total : v \in Nat
    OBVIOUS
  <2> QED
    BY <1>2, <2>2, <2>3 DEF j
<1>4. (t + 1) + 1 = t + 2
  BY ONLY <1>1
<1>5. back[t + 2][1] = "payload" /\ Reached(t + 2) = q /\ t + 2 > d
  <2>1. back[t + 2] = <<"payload", p, q>>
    BY <1>3, <1>4
  <2>2. t + 2 # d /\ t + 2 > d
    BY ONLY <1>1, <1>3
  <2> QED
    BY <2>1, <2>2 DEF Reached
<1>6. ~(e < d) /\ e <= t /\ e >= reverseFastPathBytes
  <2>1. e < d => t = e
    BY DEF StepInv
  <2>2. e <= t /\ e >= reverseFastPathBytes
    BY DEF CountInv
  <2>3. ~(e < d)
    BY ONLY <1>1, <1>3, <2>1
  <2> QED
    BY <2>2, <2>3
<1>7. /\ taken'["enc"] = t + 2 /\ taken'["dec"] = taken["dec"] /\ rev'["enc"] = "loop"
      /\ rev'["dec"] = rev["dec"] /\ seen' = seen /\ back' = back
  BY DEF DecodedByEnc
<1>8. /\ client' \in Seq(Unit) /\ Len(client') \in Nat /\ c <= Len(client')
      /\ \A i \in 1..c : client'[i] = client[i]
      /\ Open(1, "near") => /\ Len(client') = c + k
                            /\ \A j \in 1..k : client'[c + j] = Raw(p + j)
      /\ ~Open(1, "near") => client' = client
  <2>1. CASE ~Open(1, "near") /\ client' = client
    BY <2>1
  <2>2. CASE Open(1, "near") /\ client' = client \o x
    <3> DEFINE y == client \o x
    <3>1. /\ y \in Seq(Unit) /\ Len(y) = c + Len(x)
          /\ \A i \in 1..c : y[i] = client[i]
          /\ \A j \in 1..Len(x) : y[c + j] = x[j]
      BY Longer
    <3>2. client' = y
      BY <2>2
    <3> HIDE DEF y
    <3>3. Len(client') = c + k /\ k \in Nat
      BY <3>1, <3>2
    <3>4. c <= Len(client') /\ Len(client') \in Nat
      BY ONLY <1>1, <3>3
    <3>5. \A j \in 1..k : client'[c + j] = Raw(p + j)
      BY <3>1, <3>2
    <3> QED
      BY <2>2, <3>1, <3>2, <3>3, <3>4, <3>5
  <2> QED
    BY <2>1, <2>2 DEF DecodedByEnc
<1>9. Open(1, "near")' = Open(1, "near") /\ Open(2, "near")' = Open(2, "near")
  BY DEF Open
<1>10. CountInv'
  <2>1. ASSUME NEW n \in Nodes
        PROVE  /\ seen'[n] <= taken'[n]
               /\ rev'[n] = "pass" => taken'[n] = seen'[n]
               /\ rev'[n] \in {"loop", "read"} => seen'[n] >= reverseFastPathBytes
    <3>1. e <= t + 2
      BY ONLY <1>1, <1>6
    <3> QED
      BY <1>6, <1>7, <2>1, <3>1 DEF CountInv, Nodes
  <2>2. taken'["dec"] <= sent' /\ taken'["enc"] <= Len(back')
    BY <1>7 DEF CountInv
  <2> QED
    BY <2>1, <2>2 DEF CountInv
<1>11. \A j : Reached(j)' = Reached(j)
  BY <1>7 DEF Reached
<1>12. BackInv'
  BY <1>7, <1>9, <1>11 DEF BackInv
<1>13. e = d /\ Open(1, "near") => c = p
  <2> SUFFICES ASSUME e = d, Open(1, "near") PROVE c = p
    OBVIOUS
  <2>1. c = Reached(t)
    BY DEF StepInv
  <2> QED
    BY <1>3, <2>1
<1>14. ClientInv'
  <2>1. ASSUME NEW i \in 1..Len(client'), i <= e
        PROVE  i <= Len(back) /\ client'[i] = back[i]
    <3>1. i \in 1..c
      <4>1. CASE Open(1, "near")
        <5>1. c >= e
          BY <4>1 DEF ClientInv
        <5> QED
          BY ONLY <1>1, <1>8, <2>1, <5>1
      <4>2. CASE ~Open(1, "near")
        BY <1>8, <2>1, <4>2
      <4> QED
        BY <4>1, <4>2
    <3> QED
      BY <1>8, <2>1, <3>1 DEF ClientInv
  <2>2. ASSUME e <= d, NEW i \in 1..Len(client')
        PROVE  client'[i] = Raw(i)
    <3>1. CASE i \in 1..c
      BY <1>8, <2>2, <3>1 DEF ClientInv
    <3>2. CASE Open(1, "near") /\ i \notin 1..c
      <4>0. e = d
        BY ONLY <1>1, <1>6, <2>2
      <4>1. c = p
        BY ONLY <1>13, <3>2, <4>0
      <4>2. Len(client') = c + k
        BY <1>8, <3>2
      <4>3. i - c \in 1..k /\ c + (i - c) = i
        BY ONLY <1>1, <2>2, <3>2, <4>2, k \in Nat
      <4>4. client'[c + (i - c)] = Raw(p + (i - c))
        BY <1>8, <3>2, <4>3
      <4> QED
        BY <4>1, <4>3, <4>4
    <3>3. CASE ~Open(1, "near")
      BY <1>8, <2>2, <3>1, <3>3
    <3> QED
      BY <3>1, <3>2, <3>3
  <2>3. Open(1, "near") => Len(client') >= e
    <3> SUFFICES ASSUME Open(1, "near") PROVE Len(client') >= e
      OBVIOUS
    <3>1. c >= e
      BY DEF ClientInv
    <3> QED
      BY ONLY <1>1, <1>8, <3>1
  <2> QED
    BY <1>6, <1>7, <1>9, <2>1, <2>2, <2>3 DEF ClientInv
<1>15. StepInv'
  <2>1. ASSUME e = d, Open(1, "near") PROVE Len(client') = Reached(t + 2)
    <3>1. Len(client') = c + k /\ c = p
      BY <1>8, <1>13, <2>1
    <3>2. k = q - p
      OBVIOUS
    <3>3. Len(client') = q
      BY ONLY <1>3, <3>1, <3>2
    <3> QED
      BY <1>5, <3>3
  <2> QED
    BY <1>5, <1>6, <1>7, <1>9, <1>11, <2>1 DEF StepInv
<1> QED
  BY <1>8, <1>10, <1>12, <1>14, <1>15

\* A bad frame is met only by a node that is out of step with the other: where
\* the two left the fast path at the same byte, a header comes next.
LEMMA BadMagicInv ==
    ASSUME ConnInv, BadMagic
    PROVE  CountInv' /\ BackInv' /\ ClientInv' /\ StepInv'
<1>0. ConnTypeOK /\ CountInv /\ BackInv /\ ClientInv /\ StepInv
  BY DEF ConnInv
<1> USE <1>0, TypeParts
<1> DEFINE d == seen["dec"]
           e == seen["enc"]
           t == taken["enc"]
<1>1. /\ rev["enc"] = "read" /\ Len(back) - t >= 1
      /\ back[t + 1][1] # "header"
      /\ UNCHANGED <<seen, back, client, sent, shut>>
  BY DEF BadMagic, Pending, Arriving, netVars
<1>2. /\ rev'["enc"] = "violation" /\ rev'["dec"] = rev["dec"]
      /\ taken'["enc"] = t + 1 /\ taken'["dec"] = taken["dec"]
  BY DEF BadMagic, ConnTypeOK, Nodes
<1>3. t \in Nat /\ d \in Nat /\ e \in Nat /\ Len(back) \in Nat
  OBVIOUS
<1>4. t + 1 \in 1..Len(back) /\ (t + 1) - 1 = t
  BY ONLY <1>1, <1>3
<1>5. e # d
  <2> SUFFICES ASSUME e = d PROVE FALSE
    OBVIOUS
  <2>1. t = d \/ (t > d /\ back[t][1] = "payload")
    BY <1>1 DEF StepInv
  <2>2. t + 1 > d /\ (t = d => t + 1 = d + 1)
    BY ONLY <1>3, <2>1
  <2>3. (t + 1 = d + 1 \/ back[(t + 1) - 1][1] = "payload") <=> back[t + 1][1] = "header"
    BY <1>4, <2>2 DEF BackInv
  <2> QED
    BY <1>1, <1>4, <2>1, <2>2, <2>3
<1>6. CountInv'
  <2>1. ASSUME NEW n \in Nodes
        PROVE  /\ seen'[n] <= taken'[n]
               /\ rev'[n] = "pass" => taken'[n] = seen'[n]
               /\ rev'[n] \in {"loop", "read"} => seen'[n] >= reverseFastPathBytes
    BY <1>1, <1>2, <2>1, SMTT(30) DEF CountInv, Nodes
  <2>2. taken'["dec"] <= sent' /\ taken'["enc"] <= Len(back')
    BY <1>1, <1>2, <1>4 DEF CountInv
  <2> QED
    BY <2>1, <2>2 DEF CountInv
<1>7. Open(1, "near")' = Open(1, "near") /\ Open(2, "near")' = Open(2, "near")
  BY <1>1 DEF Open
<1>8. \A j : Reached(j)' = Reached(j)
  BY <1>1 DEF Reached
<1>9. BackInv'
  BY <1>1, <1>2, <1>7, <1>8 DEF BackInv
<1>10. ClientInv'
  BY <1>1, <1>2, <1>7 DEF ClientInv
<1>11. StepInv'
  BY <1>1, <1>2, <1>5 DEF StepInv
<1> QED
  BY <1>6, <1>9, <1>10, <1>11

-----------------------------------------------------------------------------
(***************************************************************************)
(* Every action.                                                           *)
(***************************************************************************)
\* The part of the invariant that is about streams and counts.
StreamsInv == CountInv /\ BackInv /\ ClientInv /\ StepInv

StreamsType == back \in Seq(Unit) /\ client \in Seq(Unit)

\* The fast path, on either node.
LEMMA PassInv ==
    ASSUME ConnInv, NEW n \in Nodes, Pass(n)
    PROVE  StreamsInv' /\ StreamsType'
<1>0. ConnTypeOK /\ CountInv /\ BackInv
  BY DEF ConnInv
<1>1. rev[n] = "pass" /\ UNCHANGED <<sent, shut>>
  BY DEF Pass
<1> DEFINE x(k) == SubSeq(Arriving(n), taken[n] + 1, taken[n] + k)
<1>2. PICK k \in 1..Pending(n) :
          /\ taken' = [taken EXCEPT ![n] = @ + k]
          /\ \/ /\ rev' = [rev EXCEPT ![n] = AfterPass(n, k)]
                /\ seen' = [seen EXCEPT ![n] = @ + k]
                /\ back' = IF n = "dec" /\ Open(2, "near") THEN back \o x(k) ELSE back
                /\ client' = IF n = "enc" /\ Open(1, "near") THEN client \o x(k)
                                                             ELSE client
             \/ /\ rev' = [rev EXCEPT ![n] = "done"]
                /\ UNCHANGED <<seen, back, client>>
  BY PassCases
<1>3. /\ taken \in [Nodes -> Nat] /\ seen \in [Nodes -> Nat]
      /\ rev \in [Nodes -> {"none", "pass", "loop", "read", "done", "violation"}]
  BY <1>0 DEF ConnTypeOK
<1>4. CASE n = "dec"
  <2> DEFINE t == taken["dec"]
  <2>1. Arriving(n) = [i \in 1..sent |-> Raw(0 + i)]
    BY <1>0, <1>4, TypeParts DEF Arriving
  <2>2. Arriving(n) \in Seq(Unit) /\ Len(Arriving(n)) = sent
        /\ \A i \in 1..sent : Arriving(n)[i] = Raw(i)
    <3>1. 0 \in Nat /\ sent \in Nat /\ 0 + sent <= Total
      BY <1>0, TypeParts
    <3>2. \A i \in 1..sent : 0 + i = i
      BY <3>1
    <3> QED
      BY <2>1, <3>1, <3>2, RawRun
  <2>3. k \in Nat \ {0} /\ t \in Nat /\ sent \in Nat /\ t + k <= sent
    BY <1>0, <1>4, <2>2, TypeParts DEF Pending
  <2>4. x(k) \in Seq(Unit) /\ Len(x(k)) = k /\ \A i \in 1..k : x(k)[i] = Raw(t + i)
    <3>1. \A i \in 1..k : t + i \in 1..sent
      BY <2>3
    <3> DEFINE a == Arriving(n)
    <3>2. a \in Seq(Unit) /\ t + k <= Len(a)
      BY <2>2, <2>3
    <3> HIDE DEF a
    <3>3. /\ SubSeq(a, t + 1, t + k) \in Seq(Unit) /\ Len(SubSeq(a, t + 1, t + k)) = k
          /\ \A i \in 1..k : SubSeq(a, t + 1, t + k)[i] = a[t + i]
      BY <2>3, <3>2, ReadUnits
    <3> QED
      BY <1>4, <2>2, <3>1, <3>3 DEF a
  <2>5. CASE rev' = [rev EXCEPT ![n] = "done"] /\ UNCHANGED <<seen, back, client>>
    <3>1. FailedIn("dec", "enc", k)
      BY <1>2, <1>3, <1>4, <2>5 DEF FailedIn, Nodes
    <3> QED
      BY <1>0, <1>1, <2>3, <2>5, <3>1, FailedInv, TypeParts DEF StreamsInv, StreamsType
  <2>6. CASE /\ rev' = [rev EXCEPT ![n] = AfterPass(n, k)]
             /\ seen' = [seen EXCEPT ![n] = @ + k]
             /\ back' = IF n = "dec" /\ Open(2, "near") THEN back \o x(k) ELSE back
             /\ client' = IF n = "enc" /\ Open(1, "near") THEN client \o x(k) ELSE client
    <3>1. PassedByDec(k, x(k))
      <4> HIDE DEF x
      <4> QED
        BY <1>2, <1>3, <1>4, <2>6 DEF PassedByDec, Nodes
    <3> HIDE DEF x
    <3>2. back' \in Seq(Unit) /\ CountInv' /\ BackInv' /\ ClientInv' /\ StepInv'
      BY <1>1, <1>4, <2>3, <2>4, <3>1, PassDecInv
    <3>3. client' \in Seq(Unit)
      BY <1>0, <1>4, <2>6, TypeParts
    <3> QED
      BY <3>2, <3>3 DEF StreamsInv, StreamsType
  <2> HIDE DEF x
  <2> QED
    BY <1>2, <2>5, <2>6
<1>5. CASE n = "enc"
  <2> DEFINE t == taken["enc"]
  <2>1. Arriving(n) = back
    BY <1>5 DEF Arriving
  <2>3. k \in Nat \ {0} /\ t \in Nat /\ Len(back) \in Nat /\ t + k <= Len(back)
    BY <1>0, <1>5, <2>1, TypeParts DEF Pending
  <2>4. x(k) \in Seq(Unit) /\ Len(x(k)) = k /\ \A i \in 1..k : x(k)[i] = back[t + i]
    <3>3. /\ SubSeq(back, t + 1, t + k) \in Seq(Unit)
          /\ Len(SubSeq(back, t + 1, t + k)) = k
          /\ \A i \in 1..k : SubSeq(back, t + 1, t + k)[i] = back[t + i]
      <4>1. back \in Seq(Unit)
        BY <1>0, TypeParts
      <4> QED
        BY <2>3, <4>1, ReadUnits
    <3> QED
      BY <1>5, <2>1, <3>3
  <2>5. CASE rev' = [rev EXCEPT ![n] = "done"] /\ UNCHANGED <<seen, back, client>>
    <3>1. FailedIn("enc", "dec", k)
      BY <1>2, <1>3, <1>5, <2>5 DEF FailedIn, Nodes
    <3> QED
      BY <1>0, <1>1, <2>3, <2>5, <3>1, FailedInv, TypeParts DEF StreamsInv, StreamsType
  <2>6. CASE /\ rev' = [rev EXCEPT ![n] = AfterPass(n, k)]
             /\ seen' = [seen EXCEPT ![n] = @ + k]
             /\ back' = IF n = "dec" /\ Open(2, "near") THEN back \o x(k) ELSE back
             /\ client' = IF n = "enc" /\ Open(1, "near") THEN client \o x(k) ELSE client
    <3>1. PassedByEnc(k, x(k))
      <4> HIDE DEF x
      <4> QED
        BY <1>2, <1>3, <1>5, <2>6 DEF PassedByEnc, Nodes
    <3> HIDE DEF x
    <3>2. client' \in Seq(Unit) /\ CountInv' /\ BackInv' /\ ClientInv' /\ StepInv'
      BY <1>1, <1>5, <2>3, <2>4, <3>1, PassEncInv
    <3>3. back' \in Seq(Unit)
      BY <1>0, <1>5, <2>6, TypeParts
    <3> QED
      BY <3>2, <3>3 DEF StreamsInv, StreamsType
  <2> HIDE DEF x
  <2> QED
    BY <1>2, <2>5, <2>6
<1> QED
  BY <1>4, <1>5 DEF Nodes

\* runEncodeTemplateV1 of the reverse lane.
LEMMA EncodeResponseInv ==
    ASSUME ConnInv, EncodeResponse
    PROVE  StreamsInv' /\ StreamsType'
<1>0. ConnTypeOK /\ CountInv
  BY DEF ConnInv
<1> DEFINE p == taken["dec"]
<1>1. rev["dec"] = "read" /\ UNCHANGED <<seen, sent, shut>>
  BY DEF EncodeResponse
<1>2. PICK q \in p + 1 .. sent :
          WriteBack("dec", FrameOf(p, q), "loop") /\ taken' = [taken EXCEPT !["dec"] = q]
  BY DEF EncodeResponse
<1>3. /\ taken \in [Nodes -> Nat] /\ "dec" \in Nodes /\ "enc" \in Nodes
      /\ rev \in [Nodes -> {"none", "pass", "loop", "read", "done", "violation"}]
  BY <1>0 DEF ConnTypeOK, Nodes
<1>4. p \in Nat /\ q \in Nat /\ q - p \in Nat /\ p + (q - p) = q /\ q <= sent
  BY <1>0, TypeParts
<1>5. taken'["dec"] = q /\ taken'["enc"] = taken["enc"]
  BY <1>2, <1>3
<1>6. CASE /\ rev' = [rev EXCEPT !["dec"] = "loop"]
           /\ back' = IF "dec" = "dec" /\ Open(2, "near") THEN back \o FrameOf(p, q) ELSE back
           /\ client' = IF "dec" = "enc" /\ Open(1, "near") THEN client \o FrameOf(p, q)
                                                             ELSE client
  <2>1. EncodedByDec(p, q)
    BY <1>1, <1>3, <1>5, <1>6 DEF EncodedByDec
  <2>2. back' \in Seq(Unit) /\ CountInv' /\ BackInv' /\ ClientInv' /\ StepInv'
    BY <1>1, <2>1, EncodeInv
  <2>3. client' \in Seq(Unit)
    BY <1>0, <1>6, TypeParts
  <2> QED
    BY <2>2, <2>3 DEF StreamsInv, StreamsType
<1>7. CASE rev' = [rev EXCEPT !["dec"] = "done"] /\ UNCHANGED <<back, client>>
  <2>1. FailedIn("dec", "enc", q - p)
    BY <1>1, <1>3, <1>4, <1>5, <1>7 DEF FailedIn
  <2> QED
    BY <1>0, <1>1, <1>4, <1>7, <2>1, FailedInv, TypeParts DEF StreamsInv, StreamsType
<1> QED
  BY <1>2, <1>6, <1>7 DEF WriteBack

\* runDecodeTemplateV1 of the reverse lane.
LEMMA DecodeFrameInv ==
    ASSUME ConnInv, DecodeFrame
    PROVE  StreamsInv' /\ StreamsType'
<1>0. ConnTypeOK /\ CountInv /\ BackInv
  BY DEF ConnInv
<1> DEFINE t == taken["enc"]
           u == back[t + 1]
           k == u[3] - u[2]
           x == [i \in 1..u[3] - u[2] |-> Raw(u[2] + i)]
<1>1. /\ rev["enc"] = "read" /\ UNCHANGED <<seen, sent, shut>> /\ u[1] = "header"
      /\ WriteBack("enc", x, "loop") /\ taken' = [taken EXCEPT !["enc"] = @ + 2]
      /\ Len(back) - t >= 2
  BY DEF DecodeFrame, Pending, Arriving
<1>2. t \in Nat /\ Len(back) \in Nat /\ Total \in Nat
  BY <1>0, TypeParts
<1>3. t + 1 \in 1..Len(back) /\ t + 2 <= Len(back)
  BY ONLY <1>1, <1>2
<1>4. u[2] \in 0..Total /\ u[3] \in 0..Total /\ u[2] < u[3]
  <2> DEFINE j == t + 1
  <2>1. j \in 1..Len(back) /\ back[j][1] = "header"
    BY <1>1, <1>3
  <2> HIDE DEF j
  <2>2. back[j][2] \in 0..Total /\ back[j][3] \in 0..Total /\ back[j][2] < back[j][3]
    BY <1>0, <2>1, HeaderAt
  <2> QED
    BY <2>2 DEF j
<1>5. u[2] \in Nat /\ k \in Nat /\ u[2] + k <= Total
  BY ONLY <1>2, <1>4, SMTT(30)
<1>6. x \in Seq(Unit) /\ Len(x) = k /\ \A i \in 1..k : x[i] = Raw(u[2] + i)
  BY <1>5, RawRun
<1>7. /\ taken \in [Nodes -> Nat] /\ "dec" \in Nodes /\ "enc" \in Nodes
      /\ rev \in [Nodes -> {"none", "pass", "loop", "read", "done", "violation"}]
  BY <1>0 DEF ConnTypeOK, Nodes
<1>8. taken'["enc"] = t + 2 /\ taken'["dec"] = taken["dec"]
  BY <1>1, <1>7
<1> HIDE DEF x
<1>9. CASE /\ rev' = [rev EXCEPT !["enc"] = "loop"]
           /\ back' = IF "enc" = "dec" /\ Open(2, "near") THEN back \o x ELSE back
           /\ client' = IF "enc" = "enc" /\ Open(1, "near") THEN client \o x ELSE client
  <2>1. DecodedByEnc(x) /\ back' = back
    BY <1>1, <1>7, <1>8, <1>9 DEF DecodedByEnc
  <2>2. client' \in Seq(Unit) /\ CountInv' /\ BackInv' /\ ClientInv' /\ StepInv'
    BY <1>1, <1>3, <1>5, <1>6, <2>1, DecodeInv
  <2> QED
    BY <1>0, <2>1, <2>2, TypeParts DEF StreamsInv, StreamsType
<1>10. CASE rev' = [rev EXCEPT !["enc"] = "done"] /\ UNCHANGED <<back, client>>
  <2>1. FailedIn("enc", "dec", 2)
    BY <1>1, <1>7, <1>8, <1>10 DEF FailedIn
  <2> QED
    BY <1>0, <1>1, <1>3, <1>10, <2>1, FailedInv, TypeParts DEF StreamsInv, StreamsType
<1> QED
  BY <1>1, <1>9, <1>10 DEF WriteBack

\* The part of the invariant that is about each node, its sockets and the
\* requests.
LocalType ==
    /\ node \in [Nodes -> {"idle", "peek", "run", "cancelled", "returned"}]
    /\ fwd \in [Nodes -> {"none", "run", "done"}]
    /\ rev \in [Nodes -> {"none", "pass", "loop", "read", "done", "violation"}]
    /\ seen \in [Nodes -> Nat]
    /\ taken \in [Nodes -> Nat]
    /\ inbox \in [Nodes -> 0..MaxRequests]
    /\ shut \subseteq {1, 2, 3} \X {"near", "far"}
    /\ halfShut \in BOOLEAN
    /\ asked \in 0..MaxRequests
    /\ sent \in 0..Total

LEMMA TypeSplit == ConnTypeOK <=> LocalType /\ StreamsType
BY DEF ConnTypeOK, LocalType, StreamsType

\* The listener: Classify and Refuse.
LEMMA ListenerLocal ==
    ASSUME LocalType, LifeInv, InboxInv, NEW n \in Nodes, Classify(n) \/ Refuse(n)
    PROVE  LocalType' /\ LifeInv' /\ InboxInv'
<1>1. CASE Classify(n)
  <2>1. /\ node[n] = "peek"
        /\ node' = [m \in Nodes |-> IF m = n THEN "run"
                                    ELSE IF n = "enc" THEN "peek" ELSE node[m]]
        /\ fwd' = [fwd EXCEPT ![n] = "run"] /\ rev' = [rev EXCEPT ![n] = "pass"]
        /\ UNCHANGED <<seen, taken, inbox, shut, halfShut, asked, sent, back, client>>
    BY <1>1 DEF Classify, netVars
  <2>2. LocalType'
    BY <2>1 DEF LocalType
  <2>3. LifeInv'
    BY <2>1 DEF LifeInv, LocalType, Nodes
  <2> QED
    BY <2>1, <2>2, <2>3 DEF InboxInv
<1>2. CASE Refuse(n)
  <2>1. /\ node[n] = "peek" /\ node' = [node EXCEPT ![n] = "returned"]
        /\ shut' = shut \cup {<<Source(n), "far">>}
        /\ UNCHANGED <<fwd, rev, seen, taken, inbox, halfShut, asked, sent, back, client>>
    BY <1>2 DEF Refuse
  <2>2. LocalType'
    BY <2>1 DEF LocalType, Source
  <2>3. LifeInv'
    BY <2>1 DEF LifeInv, LocalType, Nodes
  <2> QED
    BY <2>1, <2>2, <2>3 DEF InboxInv
<1> QED
  BY <1>1, <1>2

\* The forward lane and the end of Run.
LEMMA RunLocal ==
    ASSUME LocalType, LifeInv, InboxInv, NEW n \in Nodes,
           \/ ForwardRequest(n) \/ ForwardEnds(n)
           \/ CancelRun(n) \/ ReturnRun(n) \/ Collect(n)
    PROVE  LocalType' /\ LifeInv' /\ InboxInv'
<1>1. CASE ForwardRequest(n)
  <2>1. /\ inbox[n] > 0
        /\ inbox' = [m \in Nodes |->
                        IF m = n THEN inbox[m] - 1
                        ELSE IF n = "enc" /\ Open(2, "far") THEN inbox[m] + 1
                        ELSE inbox[m]]
        /\ UNCHANGED <<node, fwd, rev, seen, taken, shut, halfShut, asked, sent, back, client>>
    BY <1>1 DEF ForwardRequest, nodeVars
  <2>2. /\ inbox["enc"] \in Nat /\ inbox["dec"] \in Nat /\ asked \in Nat
        /\ MaxRequests \in Nat /\ asked <= MaxRequests
        /\ inbox["enc"] + inbox["dec"] <= asked
    BY ConnectionAssumption DEF LocalType, InboxInv, Nodes
  <2>3. /\ inbox'["enc"] \in Nat /\ inbox'["dec"] \in Nat
        /\ inbox'["enc"] + inbox'["dec"] <= asked
    BY <2>1, <2>2 DEF Nodes
  <2>4. inbox' \in [Nodes -> 0..MaxRequests]
    <3>1. inbox' = [m \in Nodes |-> inbox'[m]]
      BY <2>1
    <3>2. \A m \in Nodes : inbox'[m] \in 0..MaxRequests
      BY <2>2, <2>3 DEF Nodes
    <3> QED
      BY <3>1, <3>2
  <2>5. LocalType'
    BY <2>1, <2>4 DEF LocalType
  <2>6. LifeInv'
    BY <2>1 DEF LifeInv
  <2> QED
    BY <2>1, <2>3, <2>5, <2>6 DEF InboxInv
<1>2. CASE ForwardEnds(n)
  <2>1. /\ fwd' = [fwd EXCEPT ![n] = "done"]
        /\ UNCHANGED <<node, rev, seen, taken, inbox, shut, halfShut, asked, sent, back, client>>
    BY <1>2 DEF ForwardEnds, netVars
  <2> QED
    BY <2>1 DEF LocalType, LifeInv, InboxInv
<1>3. CASE CancelRun(n) \/ ReturnRun(n)
  <2>1. /\ node[n] \in {"run", "cancelled"}
        /\ \E v \in {"cancelled", "returned"} : node' = [node EXCEPT ![n] = v]
        /\ shut' = shut \/ shut' = shut \cup {<<Source(n), "far">>}
        /\ UNCHANGED <<fwd, rev, seen, taken, inbox, halfShut, asked, sent, back, client>>
    BY <1>3 DEF CancelRun, ReturnRun, netVars
  <2>2. LocalType'
    BY <2>1 DEF LocalType, Source
  <2>3. LifeInv'
    BY <2>1 DEF LifeInv, LocalType, Nodes
  <2> QED
    BY <2>1, <2>2, <2>3 DEF InboxInv
<1>4. CASE Collect(n)
  <2>1. /\ shut' = shut \cup {<<Destination(n), "near">>}
        /\ UNCHANGED <<node, fwd, rev, seen, taken, inbox, halfShut, asked, sent, back, client>>
    BY <1>4 DEF Collect, nodeVars
  <2>2. LocalType'
    BY <2>1 DEF LocalType, Destination
  <2> QED
    BY <2>1, <2>2 DEF LifeInv, InboxInv
<1> QED
  BY <1>1, <1>2, <1>3, <1>4

\* A step of a reverse goroutine that has started.
LEMMA ReverseLocal ==
    ASSUME LocalType, LifeInv, InboxInv, NEW n \in Nodes, rev[n] # "none",
           UNCHANGED <<node, fwd, inbox, shut, halfShut, asked, sent>>,
           NEW v \in {"pass", "loop", "read", "done", "violation"},
           rev' = [rev EXCEPT ![n] = v],
           seen' \in [Nodes -> Nat], \A m \in Nodes : m # n => seen'[m] = seen[m],
           taken' \in [Nodes -> Nat], \A m \in Nodes : m # n => taken'[m] = taken[m],
           n # "dec" => back' = back, n # "enc" => client' = client
    PROVE  LocalType' /\ LifeInv' /\ InboxInv'
<1>1. LocalType'
  BY DEF LocalType
<1>2. LifeInv'
  BY DEF LifeInv, LocalType, Nodes
<1> QED
  BY <1>1, <1>2 DEF InboxInv

\* Client, server and network.
LEMMA EnvironmentLocal ==
    ASSUME LocalType, LifeInv, InboxInv, Environment
    PROVE  LocalType' /\ LifeInv' /\ InboxInv'
<1>1. CASE ClientSends
  <2>1. /\ asked < MaxRequests /\ asked' = asked + 1
        /\ inbox' \in {inbox, [inbox EXCEPT !["enc"] = @ + 1]}
        /\ UNCHANGED <<node, fwd, rev, seen, taken, shut, halfShut, sent, back, client>>
    BY <1>1 DEF ClientSends, nodeVars
  <2>2. /\ inbox["enc"] \in Nat /\ inbox["dec"] \in Nat /\ asked \in Nat
        /\ MaxRequests \in Nat /\ inbox["enc"] + inbox["dec"] <= asked
        /\ "enc" \in Nodes
    BY ConnectionAssumption DEF LocalType, InboxInv, Nodes
  <2>3. inbox["enc"] + 1 \in 0..MaxRequests /\ asked' \in 0..MaxRequests
    BY <2>1, <2>2
  <2>4. LocalType'
    BY <2>1, <2>3 DEF LocalType
  <2>5. InboxInv'
    BY <2>1, <2>2 DEF InboxInv, LocalType, Nodes
  <2> QED
    BY <2>1, <2>4, <2>5 DEF LifeInv
<1>2. CASE ClientShutsWrite
  <2>1. /\ halfShut' = TRUE
        /\ UNCHANGED <<node, fwd, rev, seen, taken, inbox, shut, asked, sent, back, client>>
    BY <1>2 DEF ClientShutsWrite, nodeVars
  <2> QED
    BY <2>1 DEF LocalType, LifeInv, InboxInv
<1>3. CASE ServerSends
  <2>1. /\ sent < Total /\ sent' = sent + 1
        /\ UNCHANGED <<node, fwd, rev, seen, taken, inbox, shut, halfShut, asked, back, client>>
    BY <1>3 DEF ServerSends, nodeVars
  <2>2. sent' \in 0..Total
    BY <2>1, ConnectionAssumption DEF LocalType
  <2> QED
    BY <2>1, <2>2 DEF LocalType, LifeInv, InboxInv
<1>4. CASE ClientLeaves \/ ServerLeaves \/ NetworkBreaks
  <2>1. /\ \E ends \in SUBSET ({1, 2, 3} \X {"near", "far"}) : shut' = shut \cup ends
        /\ UNCHANGED <<node, fwd, rev, seen, taken, inbox, halfShut, asked, sent, back, client>>
    <3>1. ASSUME NEW ends \in SUBSET ({1, 2, 3} \X {"near", "far"}), Leave(ends)
          PROVE  <2>1!1 /\ <2>1!2
      BY <3>1 DEF Leave, nodeVars
    <3>2. CASE ClientLeaves
      BY <3>1, <3>2 DEF ClientLeaves
    <3>3. CASE ServerLeaves
      BY <3>1, <3>3 DEF ServerLeaves
    <3>4. CASE NetworkBreaks
      BY <3>1, <3>4 DEF NetworkBreaks
    <3> QED
      BY <1>4, <3>2, <3>3, <3>4
  <2>2. LocalType'
    BY <2>1 DEF LocalType
  <2> QED
    BY <2>1, <2>2 DEF LifeInv, InboxInv
<1> QED
  BY <1>1, <1>2, <1>3, <1>4 DEF Environment

\* The reverse goroutine, on either node.
LEMMA GoroutineLocal ==
    ASSUME ConnInv, LocalType, LifeInv, InboxInv, NEW n \in Nodes,
           Pass(n) \/ ReverseLoop(n) \/ ReverseEnds(n)
    PROVE  LocalType' /\ LifeInv' /\ InboxInv'
<1>0. seen \in [Nodes -> Nat] /\ taken \in [Nodes -> Nat]
  BY DEF LocalType
<1>1. CASE ReverseLoop(n) \/ ReverseEnds(n)
  <2>1. /\ rev[n] # "none" /\ UNCHANGED <<node, fwd, seen, taken, netVars>>
        /\ \E v \in {"read", "done"} : rev' = [rev EXCEPT ![n] = v]
    BY <1>1 DEF ReverseLoop, ReverseEnds
  <2> QED
    BY <1>0, <2>1, ReverseLocal DEF netVars
<1>2. CASE Pass(n)
  <2>1. rev[n] # "none" /\ UNCHANGED <<node, fwd, inbox, shut, halfShut, asked, sent>>
    BY <1>2 DEF Pass
  <2> DEFINE x(k) == SubSeq(Arriving(n), taken[n] + 1, taken[n] + k)
  <2>2. PICK k \in 1..Pending(n) :
            /\ taken' = [taken EXCEPT ![n] = @ + k]
            /\ \/ /\ rev' = [rev EXCEPT ![n] = AfterPass(n, k)]
                  /\ seen' = [seen EXCEPT ![n] = @ + k]
                  /\ back' = IF n = "dec" /\ Open(2, "near") THEN back \o x(k) ELSE back
                  /\ client' = IF n = "enc" /\ Open(1, "near") THEN client \o x(k)
                                                               ELSE client
               \/ /\ rev' = [rev EXCEPT ![n] = "done"]
                  /\ UNCHANGED <<seen, back, client>>
    BY <1>2, PassCases
  <2> HIDE DEF x
  <2>3. AfterPass(n, k) \in {"pass", "loop"} /\ k \in Nat
    BY DEF AfterPass
  <2>4. /\ taken' \in [Nodes -> Nat] /\ \A m \in Nodes : m # n => taken'[m] = taken[m]
        /\ seen' \in [Nodes -> Nat] /\ \A m \in Nodes : m # n => seen'[m] = seen[m]
    <3>1. taken[n] + k \in Nat /\ seen[n] + k \in Nat
      BY <1>0, <2>3
    <3>2. taken' = [taken EXCEPT ![n] = taken[n] + k]
      BY <2>2
    <3>3. seen' = seen \/ seen' = [seen EXCEPT ![n] = seen[n] + k]
      BY <2>2
    <3> QED
      BY ONLY <1>0, <3>1, <3>2, <3>3
  <2>5. \E v \in {"pass", "loop", "done"} : rev' = [rev EXCEPT ![n] = v]
    BY <2>2, <2>3
  <2>6. (n # "dec" => back' = back) /\ (n # "enc" => client' = client)
    BY <2>2
  <2> QED
    BY <2>1, <2>4, <2>5, <2>6, ReverseLocal
<1> QED
  BY <1>1, <1>2

\* The reverse ENZO lane.
LEMMA ReverseLaneLocal ==
    ASSUME LocalType, LifeInv, InboxInv, CountInv, ReverseLane
    PROVE  LocalType' /\ LifeInv' /\ InboxInv'
<1>0. /\ seen \in [Nodes -> Nat] /\ taken \in [Nodes -> Nat] /\ sent \in Nat
      /\ "enc" \in Nodes /\ "dec" \in Nodes
  BY ConnectionAssumption DEF LocalType, Nodes
<1>1. CASE EncodeResponse
  <2>1. /\ rev["dec"] # "none"
        /\ UNCHANGED <<node, fwd, seen, inbox, shut, halfShut, asked, sent>>
    BY <1>1 DEF EncodeResponse
  <2>2. PICK q \in taken["dec"] + 1 .. sent :
            /\ WriteBack("dec", FrameOf(taken["dec"], q), "loop")
            /\ taken' = [taken EXCEPT !["dec"] = q]
    BY <1>1 DEF EncodeResponse
  <2>3. q \in Nat
    BY <1>0
  <2>4. /\ \E v \in {"loop", "done"} : rev' = [rev EXCEPT !["dec"] = v]
        /\ client' = client
    BY <2>2 DEF WriteBack
  <2>5. taken' \in [Nodes -> Nat] /\ \A m \in Nodes : m # "dec" => taken'[m] = taken[m]
    BY <1>0, <2>2, <2>3
  <2> QED
    BY <1>0, <2>1, <2>4, <2>5, ReverseLocal
<1>2. CASE RefuseResponse
  <2>1. /\ rev["dec"] # "none" /\ rev' = [rev EXCEPT !["dec"] = "done"]
        /\ UNCHANGED <<node, fwd, seen, taken, netVars>>
    BY <1>2 DEF RefuseResponse
  <2> QED
    BY <1>0, <2>1, ReverseLocal DEF netVars
<1>3. CASE DecodeFrame
  <2> DEFINE u == back[taken["enc"] + 1]
             x == [i \in 1..u[3] - u[2] |-> Raw(u[2] + i)]
  <2>1. /\ rev["enc"] # "none" /\ taken' = [taken EXCEPT !["enc"] = @ + 2]
        /\ UNCHANGED <<node, fwd, seen, inbox, shut, halfShut, asked, sent>>
        /\ WriteBack("enc", x, "loop")
    BY <1>3 DEF DecodeFrame
  <2> HIDE DEF x
  <2>2. /\ \E v \in {"loop", "done"} : rev' = [rev EXCEPT !["enc"] = v]
        /\ back' = back
    BY <2>1 DEF WriteBack
  <2>3. taken' \in [Nodes -> Nat] /\ \A m \in Nodes : m # "enc" => taken'[m] = taken[m]
    BY <1>0, <2>1
  <2> QED
    BY <1>0, <2>1, <2>2, <2>3, ReverseLocal
<1>4. CASE BadMagic
  <2>1. /\ rev["enc"] # "none" /\ rev' = [rev EXCEPT !["enc"] = "violation"]
        /\ taken' = [taken EXCEPT !["enc"] = @ + 1]
        /\ UNCHANGED <<node, fwd, seen, netVars>>
    BY <1>4 DEF BadMagic
  <2>2. taken' \in [Nodes -> Nat] /\ \A m \in Nodes : m # "enc" => taken'[m] = taken[m]
    BY <1>0, <2>1
  <2> QED
    BY <1>0, <2>1, <2>2, ReverseLocal DEF netVars
<1> QED
  BY <1>1, <1>2, <1>3, <1>4 DEF ReverseLane

\* Every step of either node, of the client, the server and the network
\* preserves the invariant.
LEMMA ConnInvStep ==
    ASSUME ConnInv, [ConnNext]_connVars
    PROVE  ConnInv'
<1>0. /\ LocalType /\ StreamsType /\ LifeInv /\ InboxInv /\ CountInv
      /\ ConnInv' <=> LocalType' /\ StreamsType' /\ LifeInv' /\ InboxInv' /\ StreamsInv'
      /\ rev \in [Nodes -> {"none", "pass", "loop", "read", "done", "violation"}]
      /\ "enc" \in Nodes /\ "dec" \in Nodes /\ sent \in Nat
  BY TypeSplit, ConnectionAssumption
     DEF ConnInv, StreamsInv, ConnTypeOK, LocalType, StreamsType, Nodes
<1>1. ASSUME UNCHANGED <<seen, taken, back, client>>, shut \subseteq shut',
             sent' \in Nat, sent <= sent', Moves("enc"), Moves("dec")
      PROVE  StreamsInv' /\ StreamsType'
  BY <1>0, <1>1, QuietStep DEF StreamsInv, StreamsType
<1>2. ASSUME NEW n \in Nodes, Classify(n) \/ Refuse(n)
      PROVE  ConnInv'
  <2>1. LocalType' /\ LifeInv' /\ InboxInv'
    BY <1>0, <1>2, ListenerLocal
  <2>2. /\ UNCHANGED <<seen, taken, back, client, sent>> /\ shut \subseteq shut'
        /\ rev' = rev \/ (node[n] = "peek" /\ rev' = [rev EXCEPT ![n] = "pass"])
    BY <1>2 DEF Classify, Refuse, netVars
  <2>3. Moves("enc") /\ Moves("dec")
    BY <1>0, <2>2 DEF Moves, LifeInv, Nodes
  <2> QED
    BY <1>0, <1>1, <2>1, <2>2, <2>3
<1>3. ASSUME NEW n \in Nodes,
             \/ ForwardRequest(n) \/ ForwardEnds(n)
             \/ CancelRun(n) \/ ReturnRun(n) \/ Collect(n)
      PROVE  ConnInv'
  <2>1. LocalType' /\ LifeInv' /\ InboxInv'
    BY <1>0, <1>3, RunLocal
  <2>2. UNCHANGED <<rev, seen, taken, back, client, sent>> /\ shut \subseteq shut'
    BY <1>3 DEF ForwardRequest, ForwardEnds, CancelRun, ReturnRun, Collect, nodeVars, netVars
  <2>3. Moves("enc") /\ Moves("dec")
    BY <2>2 DEF Moves
  <2> QED
    BY <1>0, <1>1, <2>1, <2>2, <2>3
<1>4. ASSUME NEW n \in Nodes, Pass(n) \/ ReverseLoop(n) \/ ReverseEnds(n)
      PROVE  ConnInv'
  <2>1. LocalType' /\ LifeInv' /\ InboxInv'
    BY <1>0, <1>4, GoroutineLocal
  <2>2. CASE Pass(n)
    BY <1>0, <2>1, <2>2, PassInv
  <2>3. CASE ReverseLoop(n) \/ ReverseEnds(n)
    <3>1. /\ UNCHANGED <<seen, taken, back, client, sent, shut>>
          /\ \/ rev[n] = "loop" /\ rev' = [rev EXCEPT ![n] = "read"]
             \/ rev' = [rev EXCEPT ![n] = "done"]
      BY <2>3 DEF ReverseLoop, ReverseEnds, netVars
    <3>2. Moves("enc") /\ Moves("dec")
      BY <1>0, <3>1 DEF Moves, Nodes
    <3> QED
      BY <1>0, <1>1, <2>1, <3>1, <3>2
  <2> QED
    BY <1>4, <2>2, <2>3
<1>5. CASE ReverseLane
  <2>1. LocalType' /\ LifeInv' /\ InboxInv'
    BY <1>0, <1>5, ReverseLaneLocal
  <2>2. CASE RefuseResponse
    <3>1. /\ UNCHANGED <<seen, taken, back, client, sent, shut>>
          /\ rev' = [rev EXCEPT !["dec"] = "done"]
      BY <2>2 DEF RefuseResponse, netVars
    <3>2. Moves("enc") /\ Moves("dec")
      BY <1>0, <3>1 DEF Moves
    <3> QED
      BY <1>0, <1>1, <2>1, <3>1, <3>2
  <2>3. CASE BadMagic
    <3>1. StreamsInv' /\ back' = back /\ client' = client
      BY <2>3, BadMagicInv DEF StreamsInv, BadMagic, netVars
    <3> QED
      BY <1>0, <2>1, <3>1 DEF StreamsType
  <2> QED
    BY <1>0, <1>5, <2>1, <2>2, <2>3, EncodeResponseInv, DecodeFrameInv DEF ReverseLane
<1>6. CASE Environment
  <2>1. LocalType' /\ LifeInv' /\ InboxInv'
    BY <1>0, <1>6, EnvironmentLocal
  <2>2. UNCHANGED <<rev, seen, taken, back, client>> /\ shut \subseteq shut'
        /\ (sent' = sent \/ sent' = sent + 1)
    BY <1>6 DEF Environment, ClientSends, ClientShutsWrite, ServerSends, ClientLeaves,
                ServerLeaves, NetworkBreaks, Leave, nodeVars
  <2>3. Moves("enc") /\ Moves("dec") /\ sent' \in Nat /\ sent <= sent'
    BY <1>0, <2>2 DEF Moves
  <2> QED
    BY <1>0, <1>1, <2>1, <2>2, <2>3
<1>7. CASE UNCHANGED connVars
  <2>1. UNCHANGED <<node, fwd, rev, seen, taken, inbox, shut, halfShut, asked, sent, back,
                    client>>
    BY <1>7 DEF connVars, nodeVars, netVars
  <2>2. LocalType' /\ LifeInv' /\ InboxInv'
    BY <1>0, <2>1 DEF LocalType, LifeInv, InboxInv
  <2>3. Moves("enc") /\ Moves("dec")
    BY <2>1 DEF Moves
  <2> QED
    BY <1>0, <1>1, <2>1, <2>2, <2>3
<1> QED
  BY <1>2, <1>3, <1>4, <1>5, <1>6, <1>7 DEF ConnNext, NodeStep

\* The client has connected and nothing else has happened.
LEMMA ConnInvInit == ConnInit => ConnInv
<1> SUFFICES ASSUME ConnInit PROVE ConnInv
  OBVIOUS
<1>1. ConnTypeOK
  <2>1. LocalType
    <3>1. MaxRequests \in Nat /\ Total \in Nat
      BY ConnectionAssumption
    <3>2. 0 \in 0..MaxRequests /\ 0 \in 0..Total
      BY <3>1
    <3>3. /\ node \in [Nodes -> {"idle", "peek", "run", "cancelled", "returned"}]
          /\ inbox \in [Nodes -> 0..MaxRequests]
      BY <3>2 DEF ConnInit
    <3>4. shut \subseteq {1, 2, 3} \X {"near", "far"}
      BY DEF ConnInit
    <3> QED
      BY <3>2, <3>3, <3>4 DEF ConnInit, LocalType
  <2>2. StreamsType
    BY DEF ConnInit, StreamsType
  <2> QED
    BY <2>1, <2>2, TypeSplit
<1>2. /\ Len(back) = 0 /\ Len(client) = 0 /\ sent = 0
      /\ \A n \in Nodes : rev[n] = "none" /\ seen[n] = 0 /\ taken[n] = 0 /\ inbox[n] = 0
      /\ asked = 0 /\ "enc" \in Nodes /\ "dec" \in Nodes
  BY DEF ConnInit, Nodes
<1>3. LifeInv /\ InboxInv
  BY <1>2 DEF ConnInit, LifeInv, InboxInv, Nodes
<1>4. CountInv /\ BackInv /\ ClientInv /\ StepInv
  BY <1>2 DEF CountInv, BackInv, ClientInv, StepInv
<1> QED
  BY <1>1, <1>3, <1>4 DEF ConnInv

\* The invariant holds throughout.
LEMMA ConnInvariance == ConnSpec => []ConnInv
BY ConnInvInit, ConnInvStep, PTL DEF ConnSpec

\* Every variable of the two nodes and their sockets keeps its type; no more
\* requests wait than the client has sent.
THEOREM ConnTypeCorrect == ConnSpec => []ConnTypeOK
<1>1. ConnInv => ConnTypeOK
  BY DEF ConnInv
<1> QED
  BY <1>1, ConnInvariance, PTL

\* "Reverse traffic is passed through directly until 256 bytes are observed"
\* (REVERSE_FASTPATH.md): the first bytes that reach the client are the
\* server's own, for every threshold, wherever reads end and sockets close.
THEOREM FirstBytesAreDirect == ConnSpec => []FirstBytesDirect
<1>1. ConnInv => FirstBytesDirect
  <2> SUFFICES ASSUME ConnInv, NEW i \in 1..Len(client), i <= reverseFastPathBytes
               PROVE  client[i] = Raw(i)
    BY TypeParts DEF ConnInv, FirstBytesDirect
  <2>0. ConnTypeOK /\ BackInv /\ ClientInv
    BY DEF ConnInv
  <2>1. i <= seen["enc"]
    BY <2>0, TypeParts DEF ClientInv
  <2>2. i \in 1..Len(back) /\ client[i] = back[i]
    BY <2>0, <2>1, TypeParts DEF ClientInv
  <2>3. i <= seen["dec"]
    BY <2>0, <2>2, TypeParts DEF BackInv
  <2> QED
    BY <2>0, <2>2, <2>3 DEF BackInv
<1> QED
  BY <1>1, ConnInvariance, PTL

\* Two nodes that leave the fast path at the same byte never garble a
\* response (reverseForward in machine.go, on both nodes): the client is given
\* something else only by an enc that passed more than dec did, and the
\* decoder of the responses meets a bad frame only when the counts differ.
THEOREM InStepNeverGarbles == ConnSpec => []InStepIsSafe
<1>1. ConnInv => InStepIsSafe
  <2> SUFFICES ASSUME ConnInv PROVE InStepIsSafe
    OBVIOUS
  <2>0. ConnTypeOK /\ ClientInv /\ StepInv
    BY DEF ConnInv
  <2>1. ASSUME NEW i \in 1..Len(client), client[i] # Raw(i)
        PROVE  seen["enc"] > seen["dec"]
    BY <2>0, <2>1, TypeParts DEF ClientInv
  <2>2. DOMAIN client = 1..Len(client)
    BY <2>0, TypeParts
  <2> QED
    BY <2>0, <2>1, <2>2 DEF InStepIsSafe, StepInv
<1> QED
  BY <1>1, ConnInvariance, PTL
=============================================================================
