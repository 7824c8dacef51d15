----------------------------- MODULE JupeProofs -----------------------------
(***************************************************************************)
(* jupe's buffer, for every size of it and whatever servers send.          *)
(***************************************************************************)
EXTENDS Jupe, Induction, SequenceTheorems, TLAPS

(* Only parse_data looks at a read that is not 0 or at the end of a line,  *)
(* except when the program stops in the middle of it.                      *)
JupeInv == JupeTypeOK /\ WithinBuffer

-----------------------------------------------------------------------------
LEMMA JupeInitInv == JupeInit => JupeInv
BY JupeParameters
DEF JupeInit, JupeInv, JupeTypeOK, WithinBuffer, write

(* A read gives at most what there is room for.                            *)
LEMMA ReadSomeInv == ASSUME JupeInv, ReadSome PROVE JupeInv'
<1>1. PICK n \in 1..Len(incoming) :
        /\ n <= Size - Len(buffer)
        /\ buffer' = buffer \o SubSeq(incoming, 1, n)
        /\ received' = received \o SubSeq(incoming, 1, n)
        /\ incoming' = SubSeq(incoming, n + 1, Len(incoming))
  BY DEF ReadSome, write
<1>2. /\ incoming \in Seq(Chars) /\ buffer \in Seq(Chars) /\ received \in Seq(Chars)
      /\ read = 0
  BY DEF JupeInv, JupeTypeOK, WithinBuffer, ReadSome
<1>3. n \in Nat /\ n <= Len(incoming) /\ Len(buffer) \in Nat /\ Size \in Nat
  BY <1>1, <1>2, JupeParameters
<1>4. SubSeq(incoming, 1, n) \in Seq(Chars) /\ Len(SubSeq(incoming, 1, n)) = n
  BY <1>2, <1>3, Front
<1>5. incoming' \in Seq(Chars)
  BY <1>1, <1>2, <1>3, Rest
<1>6. buffer' \in Seq(Chars) /\ Len(buffer') = Len(buffer) + n
  BY <1>1, <1>2, <1>4, ConcatProperties
<1>7. received' \in Seq(Chars)
  BY <1>1, <1>2, <1>4, ConcatProperties
<1>8. /\ jpc' = "parse" /\ read' = 0
      /\ connection' = connection /\ restarts' = restarts /\ replies' = replies
  BY <1>2 DEF ReadSome
<1>9. Len(buffer') \in Nat /\ Len(buffer') <= Size
  BY <1>1, <1>3, <1>6
<1>10. JupeTypeOK'
  BY <1>5, <1>6, <1>7, <1>8, <1>9 DEF JupeInv, JupeTypeOK, write
<1>11. WithinBuffer'
  BY <1>8, <1>9 DEF WithinBuffer, write
<1> QED
  BY <1>10, <1>11 DEF JupeInv

(* What is moved to the front was behind the last end of a line.           *)
LEMMA ParseRestInv == ASSUME JupeInv, ParseRest PROVE JupeInv'
<1>1. /\ buffer \in Seq(Chars) /\ read \in Nat /\ read <= Len(buffer)
      /\ Len(buffer) \in Nat /\ Len(buffer) <= Size /\ Size \in Nat
  BY JupeParameters DEF JupeInv, JupeTypeOK, WithinBuffer, write
<1>2. /\ buffer' = SubSeq(buffer, read + 1, Len(buffer))
      /\ \A k \in read + 1..Len(buffer) : buffer[k] # "eol"
      /\ read' = 0 /\ jpc' = "select"
      /\ incoming' = incoming /\ connection' = connection
      /\ restarts' = restarts /\ received' = received /\ replies' = replies
  BY DEF ParseRest, write, Eol, server, history
<1>3. /\ buffer' \in Seq(Chars) /\ Len(buffer') = Len(buffer) - read
      /\ \A k \in 1..Len(buffer) - read : buffer'[k] = buffer[read + k]
  BY <1>1, <1>2, Rest
<1>4. Len(buffer') \in Nat /\ Len(buffer') <= Size
  BY <1>1, <1>3
<1>5. ASSUME NEW k \in 1..Len(buffer') PROVE buffer'[k] # "eol"
  <2>1. k \in 1..Len(buffer) - read /\ read + k \in read + 1..Len(buffer)
    BY <1>1, <1>3
  <2> QED  BY <1>2, <1>3, <2>1
<1>6. JupeTypeOK'
  BY <1>2, <1>3, <1>4 DEF JupeInv, JupeTypeOK, write
<1>7. WithinBuffer'
  <2>1. 0 <= read' /\ read' <= Len(buffer') /\ Len(buffer') <= Size
    <3>1. read' = 0
      BY <1>2, Zenon
    <3>2. 0 <= Len(buffer') /\ Len(buffer') <= Size
      BY <1>4
    <3> QED  BY <3>1, <3>2
  <2>2. \A k \in 1..Len(buffer') : buffer'[k] # "eol"
    BY <1>5
  <2> QED
    BY <1>2, <2>1, <2>2, Zenon DEF WithinBuffer, write
<1> QED
  BY <1>6, <1>7 DEF JupeInv

LEMMA JupeStepInv == JupeInv /\ [JupeNext]_jupeVars => JupeInv'
<1>0. SUFFICES ASSUME JupeInv, [JupeNext]_jupeVars PROVE JupeInv'
  OBVIOUS
<1>1. CASE ServerSends
  <2>1. PICK c \in Chars : incoming' = Append(incoming, c)
    BY <1>1 DEF ServerSends
  <2>2. incoming' \in Seq(Chars)
    BY <1>0, <2>1 DEF JupeInv, JupeTypeOK
  <2> QED
    BY <1>0, <1>1, <2>2
    DEF ServerSends, JupeInv, JupeTypeOK, WithinBuffer, write, history
<1>2. CASE ServerCloses
  BY <1>0, <1>2 DEF ServerCloses, JupeInv, JupeTypeOK, WithinBuffer, write, history
<1>3. CASE ReadSome
  BY <1>0, <1>3, ReadSomeInv
<1>4. CASE ReadNothing
  BY <1>0, <1>4
  DEF ReadNothing, JupeInv, JupeTypeOK, WithinBuffer, write, history, server
<1>5. CASE ReadFails
  BY <1>0, <1>5
  DEF ReadFails, JupeInv, JupeTypeOK, WithinBuffer, write, history, server
<1>6. CASE Restart
  <2>0. restarts \in 0..MaxRestarts /\ connection \in {"open", "closed", "reset"}
    BY <1>0, Zenon DEF JupeInv, JupeTypeOK
  <2>1. restarts' = restarts + 1 /\ restarts < MaxRestarts
    BY <1>6 DEF Restart, CreateClient
  <2>2. restarts' \in 0..MaxRestarts
    BY <2>0, <2>1, JupeParameters
  <2>3. incoming' = <<>> /\ connection' \in {"open", "closed", "reset"}
    BY <1>6, <2>0 DEF Restart, CreateClient
  <2> QED
    BY <1>0, <1>6, <2>2, <2>3
    DEF Restart, CreateClient, JupeInv, JupeTypeOK, WithinBuffer, write, history
<1>7. CASE SkipEol
  <2>1. read' \in 0..Len(buffer) /\ Len(buffer) \in Nat
    BY <1>0, <1>7 DEF SkipEol, JupeInv, JupeTypeOK, write
  <2> QED
    BY <1>0, <1>7, <2>1
    DEF SkipEol, JupeInv, JupeTypeOK, WithinBuffer, write, history, server
<1>8. CASE ParseLine
  <2>1. read' \in 0..Len(buffer) /\ Len(buffer) \in Nat
    BY <1>0, <1>8 DEF ParseLine, JupeInv, JupeTypeOK, write
  <2>2. replies' \in Nat
    <3>1. \/ replies' = replies + 1
          \/ replies' = replies + 0
      BY <1>8, Zenon DEF ParseLine
    <3> QED
      BY <1>0, <3>1 DEF JupeInv, JupeTypeOK
  <2> QED
    BY <1>0, <1>8, <2>1, <2>2
    DEF ParseLine, JupeInv, JupeTypeOK, WithinBuffer, write, server
<1>9. CASE ParseRest
  BY <1>0, <1>9, ParseRestInv
<1>10. CASE Terminate
  BY <1>0, <1>10
  DEF Terminate, JupeInv, JupeTypeOK, WithinBuffer, write, history, server
<1>11. CASE UNCHANGED jupeVars
  BY <1>0, <1>11
  DEF jupeVars, JupeInv, JupeTypeOK, WithinBuffer, write, history, server
<1> QED
  BY <1>0, <1>1, <1>2, <1>3, <1>4, <1>5, <1>6, <1>7, <1>8, <1>9, <1>10, <1>11
  DEF JupeNext, Client

LEMMA JupeAlwaysInv == JupeSpec => []JupeInv
BY JupeInitInv, JupeStepInv, PTL DEF JupeSpec

-----------------------------------------------------------------------------
(* No read, for any buffer and any server, goes past the end of the        *)
(* buffer, and what waits for more is a part of one line.                  *)
THEOREM BufferIsKept == JupeSpec => []WithinBuffer
BY JupeAlwaysInv, PTL DEF JupeInv

(* The positions in the buffer and the counters have their types.          *)
THEOREM JupeTypes == JupeSpec => []JupeTypeOK
BY JupeAlwaysInv, PTL DEF JupeInv

(* A step from a full buffer, outside parse_data, reads and handles        *)
(* nothing.                                                                *)
FullStep ==
  write = Size /\ jpc # "parse" => UNCHANGED <<buffer, handled, received>>

LEMMA FullBufferStep == JupeInv /\ [JupeNext]_jupeVars => [FullStep]_jupeVars
<1>0. SUFFICES ASSUME JupeInv, [JupeNext]_jupeVars, write = Size, jpc # "parse"
               PROVE  UNCHANGED <<buffer, handled, received>>
  BY DEF FullStep
<1>1. CASE ReadSome
  <2>1. Size - write = 0
    BY <1>0, JupeParameters
  <2>2. PICK n \in 1..Len(incoming) : n <= Size - write
    BY <1>1 DEF ReadSome
  <2> QED
    BY <2>1, <2>2
<1>2. CASE ~ ReadSome
  BY <1>0, <1>2
  DEF JupeNext, Client, jupeVars, history, server, ServerSends, ServerCloses,
      ReadNothing, ReadFails, Restart, CreateClient, SkipEol, ParseLine, ParseRest, Terminate
<1> QED
  BY <1>1, <1>2

(* A line longer than the buffer stops jupe for good, whatever the servers *)
(* send and however often it connects again.                               *)
THEOREM OverlongLineIsTheEnd == JupeSpec => FullBufferIsTheEnd
BY JupeAlwaysInv, FullBufferStep, PTL DEF JupeSpec, FullBufferIsTheEnd, FullStep
-----------------------------------------------------------------------------
(* The lines in a stream.  What Split gives satisfies its recursion, ...   *)
Parts == [lines : Seq(Seq(Chars)), rest : Seq(Chars)]

LEMMA AddCharParts ==
  ASSUME NEW acc \in Parts, NEW c \in Chars PROVE AddChar(acc, c) \in Parts
<1>1. acc.lines \in Seq(Seq(Chars)) /\ acc.rest \in Seq(Chars)
  BY DEF Parts
<1>2. Append(acc.lines, acc.rest) \in Seq(Seq(Chars)) /\ <<>> \in Seq(Chars)
  BY <1>1, AppendProperties
<1>3. Append(acc.rest, c) \in Seq(Chars)
  BY <1>1
<1> QED  BY <1>2, <1>3 DEF AddChar, Parts

LEMMA SplitStep ==
  ASSUME NEW s \in Seq(Chars)
  PROVE  /\ Split(s) \in [0..Len(s) -> Parts]
         /\ Split(s)[0] = NothingYet
         /\ \A n \in 1..Len(s) : Split(s)[n] = AddChar(Split(s)[n - 1], s[n])
<1> DEFINE F == [q \in (1..Len(s)) \X Parts |-> AddChar(q[2], s[q[1]])]
<1>1. NothingYet \in Parts /\ Len(s) \in Nat
  BY DEF NothingYet, Parts
<1>2. \A n \in 1..Len(s), x \in Parts : AddChar(x, s[n]) \in Parts
  BY AddCharParts
<1>3. F \in [(1..Len(s)) \X Parts -> Parts]
  BY <1>2
<1>4. \A n \in 1..Len(s), x \in Parts : F[<<n, x>>] = AddChar(x, s[n])
  OBVIOUS
<1> HIDE DEF F
<1>5. PICK f \in [0..Len(s) -> Parts] :
        f[0] = NothingYet /\ \A n \in 1..Len(s) : f[n] = F[<<n, f[n - 1]>>]
  <2>1. PICK N \in Nat : N = Len(s)
    BY <1>1
  <2>2. \E f \in [0..N -> Parts] : Recursion(f, N, NothingYet, F)
    BY <1>1, <1>3, <2>1, RecursionExists
  <2> QED  BY <2>1, <2>2 DEF Recursion
<1>6. \A n \in 1..Len(s) : n - 1 \in 0..Len(s)
  BY <1>1
<1>7. \A n \in 1..Len(s) : f[n] = AddChar(f[n - 1], s[n])
  BY <1>4, <1>5, <1>6
<1> DEFINE G(g) == [n \in 0..Len(s) |-> IF n = 0 THEN NothingYet ELSE AddChar(g[n - 1], s[n])]
<1>8. f = G(f)
  <2>1. \A n \in 0..Len(s) : f[n] = G(f)[n]
    BY <1>5, <1>7
  <2> QED  BY <1>5, <2>1
<1> DEFINE sp == CHOOSE g : g = G(g)
<1>9. sp = G(sp)
  <2> HIDE DEF G
  <2> QED  BY <1>8
<1>10. Split(s) = sp
  BY DEF Split
<1>11. DOMAIN sp = 0..Len(s)
  BY <1>9
<1>12. \A n \in 0..Len(s) : sp[n] = IF n = 0 THEN NothingYet ELSE AddChar(sp[n - 1], s[n])
  BY <1>9
<1> HIDE DEF sp
<1>13. sp[0] = NothingYet /\ \A n \in 1..Len(s) : sp[n] = AddChar(sp[n - 1], s[n])
  BY <1>1, <1>12
<1> DEFINE T == {n \in Nat : n <= Len(s) => sp[n] \in Parts}
<1>14. 0 \in T
  BY <1>1, <1>13
<1>15. ASSUME NEW n \in Nat, n \in T PROVE n + 1 \in T
  <2>1. SUFFICES ASSUME n + 1 <= Len(s) PROVE sp[n + 1] \in Parts
    OBVIOUS
  <2>2. n + 1 \in 1..Len(s) /\ n + 1 - 1 = n /\ sp[n] \in Parts
    BY <1>1, <1>15, <2>1
  <2>3. s[n + 1] \in Chars
    BY <2>2
  <2> QED  BY <1>13, <2>2, <2>3, AddCharParts
<1> HIDE DEF T
<1>16. Nat \subseteq T
  BY <1>14, <1>15, SetInduction
<1>17. sp = [n \in 0..Len(s) |-> sp[n]]
  BY <1>9, Zenon
<1>18. sp \in [0..Len(s) -> Parts]
  BY <1>16, <1>17, <1>1 DEF T
<1> QED  BY <1>10, <1>13, <1>18

(* ... does not depend on what comes later, ...                            *)
LEMMA SplitExtends ==
  ASSUME NEW s \in Seq(Chars), NEW t \in Seq(Chars), NEW m \in 0..Len(s)
  PROVE  Split(s \o t)[m] = Split(s)[m]
<1>1. /\ s \o t \in Seq(Chars) /\ Len(s \o t) = Len(s) + Len(t)
      /\ Len(s) \in Nat /\ Len(t) \in Nat
      /\ \A n \in 1..Len(s) : (s \o t)[n] = s[n]
  BY ConcatProperties
<1> DEFINE T == {n \in Nat : n <= Len(s) => Split(s \o t)[n] = Split(s)[n]}
<1>2. 0 \in T
  BY <1>1, SplitStep
<1>3. ASSUME NEW n \in Nat, n \in T PROVE n + 1 \in T
  <2>1. SUFFICES ASSUME n + 1 <= Len(s) PROVE Split(s \o t)[n + 1] = Split(s)[n + 1]
    OBVIOUS
  <2>2. n + 1 \in 1..Len(s) /\ n + 1 \in 1..Len(s \o t) /\ n + 1 - 1 = n
    BY <1>1, <2>1
  <2>3. Split(s \o t)[n] = Split(s)[n]
    BY <1>3, <1>1, <2>1
  <2>4. Split(s)[n + 1] = AddChar(Split(s)[n], s[n + 1])
    BY <2>2, SplitStep
  <2>5. Split(s \o t)[n + 1] = AddChar(Split(s \o t)[n], (s \o t)[n + 1])
    <3>1. PICK u \in Seq(Chars) : u = s \o t
      BY <1>1
    <3>2. PICK j \in 1..Len(u) : j = n + 1 /\ j - 1 = n
      BY <2>2, <3>1
    <3>3. Split(u)[j] = AddChar(Split(u)[j - 1], u[j])
      BY SplitStep
    <3> QED  BY <3>1, <3>2, <3>3
  <2> QED  BY <1>1, <2>2, <2>3, <2>4, <2>5
<1> HIDE DEF T
<1>4. m \in T
  BY <1>2, <1>3, SetInduction
<1> QED  BY <1>1, <1>4 DEF T

(* ... and keeps characters that end no line.                              *)
LEMMA SplitPart ==
  ASSUME NEW s \in Seq(Chars), NEW m \in Nat, NEW n \in Nat, m + n <= Len(s),
         NEW h, Split(s)[m] = [lines |-> h, rest |-> <<>>],
         \A k \in 1..n : s[m + k] # "eol"
  PROVE  Split(s)[m + n] = [lines |-> h, rest |-> SubSeq(s, m + 1, m + n)]
<1> DEFINE T == {k \in Nat : k <= n =>
                   Split(s)[m + k] = [lines |-> h, rest |-> SubSeq(s, m + 1, m + k)]}
<1>1. 0 \in T
  <2>1. SubSeq(s, m + 1, m + 0) = <<>>
    BY SubSeqEmpty
  <2> QED  BY <2>1
<1>2. ASSUME NEW k \in Nat, k \in T PROVE k + 1 \in T
  <2>1. SUFFICES ASSUME k + 1 <= n
                 PROVE  Split(s)[m + (k + 1)]
                          = [lines |-> h, rest |-> SubSeq(s, m + 1, m + (k + 1))]
    OBVIOUS
  <2>2. PICK j \in 1..Len(s) : j = m + (k + 1) /\ j - 1 = m + k
    BY <2>1
  <2>3. Split(s)[m + k] = [lines |-> h, rest |-> SubSeq(s, m + 1, m + k)]
    BY <1>2, <2>1
  <2>4. Split(s)[j] = AddChar(Split(s)[m + k], s[j])
    BY <2>2, SplitStep
  <2>5. s[j] # "eol"
    <3> HIDE DEF T
    <3>1. k + 1 \in 1..n
      BY <2>1
    <3>2. s[m + (k + 1)] # "eol"
      BY <3>1
    <3> QED  BY <2>2, <3>2
  <2>6. SubSeq(s, m + 1, j) = Append(SubSeq(s, m + 1, m + k), s[j])
    <3>1. m + 1 \in 1..Len(s) /\ j \in m + 1..Len(s) /\ j - 1 = m + k
      BY <2>1, <2>2
    <3>2. SubSeq(s, m + 1, j) = SubSeq(s, m + 1, j - 1) \o <<s[j]>>
      BY <3>1, SubSeqRecursiveSecond
    <3>3. SubSeq(s, m + 1, m + k) \in Seq(Chars) /\ s[j] \in Chars
      BY <2>2, <3>1, SubSeqProperties
    <3> QED  BY <3>1, <3>2, <3>3, AppendIsConcat
  <2>7. Split(s)[j] = [lines |-> h, rest |-> Append(SubSeq(s, m + 1, m + k), s[j])]
    <3>1. PICK acc : acc = Split(s)[m + k]
      OBVIOUS
    <3>2. AddChar(acc, s[j]) = [acc EXCEPT !.rest = Append(acc.rest, s[j])]
      BY <2>5 DEF AddChar
    <3>3. acc = [lines |-> h, rest |-> SubSeq(s, m + 1, m + k)]
      BY <2>3, <3>1
    <3>4. acc.rest = SubSeq(s, m + 1, m + k)
      BY <3>3
    <3>5. [acc EXCEPT !.rest = Append(acc.rest, s[j])]
            = [lines |-> h, rest |-> Append(acc.rest, s[j])]
      <4>1. \A e : [acc EXCEPT !.rest = e] = [lines |-> h, rest |-> e]
        BY <3>3
      <4> QED  BY <4>1, Zenon
    <3> QED  BY <2>4, <3>1, <3>2, <3>4, <3>5
  <2> QED  BY <2>2, <2>6, <2>7
<1> HIDE DEF T
<1>3. n \in T
  BY <1>1, <1>2, SetInduction
<1> QED  BY <1>3 DEF T

(* The same characters at two places make the same sequence.               *)
LEMMA Stretch ==
  ASSUME NEW s \in Seq(Chars), NEW m \in Nat, NEW n \in Nat, m + n <= Len(s)
  PROVE  /\ SubSeq(s, m + 1, m + n) \in Seq(Chars)
         /\ Len(SubSeq(s, m + 1, m + n)) = n
         /\ \A k \in 1..n : SubSeq(s, m + 1, m + n)[k] = s[m + k]
<1>1. \A k \in m + 1..m + n : s[k] \in Chars
  OBVIOUS
<1>2. m + 1 \in Int /\ m + n \in Int
  OBVIOUS
<1>3. /\ SubSeq(s, m + 1, m + n) \in Seq(Chars)
      /\ Len(SubSeq(s, m + 1, m + n))
           = IF m + 1 <= m + n THEN m + n - (m + 1) + 1 ELSE 0
      /\ \A k \in 1..m + n - (m + 1) + 1 :
           SubSeq(s, m + 1, m + n)[k] = s[m + 1 + k - 1]
  BY <1>1, <1>2, SubSeqProperties
<1>4. \A k \in 1..n : k \in 1..m + n - (m + 1) + 1 /\ m + 1 + k - 1 = m + k
  OBVIOUS
<1>5. (IF m + 1 <= m + n THEN m + n - (m + 1) + 1 ELSE 0) = n
  OBVIOUS
<1> QED  BY <1>3, <1>4, <1>5

Agree(s, m, t, r, n) == \A k \in 1..n : s[m + k] = t[r + k]

LEMMA SameStretch ==
  ASSUME NEW s \in Seq(Chars), NEW t \in Seq(Chars),
         NEW m \in Nat, NEW r \in Nat, NEW n \in Nat,
         m + n <= Len(s), r + n <= Len(t),
         Agree(s, m, t, r, n)
  PROVE  SubSeq(s, m + 1, m + n) = SubSeq(t, r + 1, r + n)
<1> DEFINE u == SubSeq(s, m + 1, m + n)
           v == SubSeq(t, r + 1, r + n)
<1>1. u \in Seq(Chars) /\ Len(u) = n /\ \A k \in 1..n : u[k] = s[m + k]
  BY Stretch
<1>2. v \in Seq(Chars) /\ Len(v) = n /\ \A k \in 1..n : v[k] = t[r + k]
  BY Stretch
<1> HIDE DEF u, v
<1>3. u = v
  BY <1>1, <1>2, SeqEqual DEF Agree
<1> QED  BY <1>3 DEF u, v

-----------------------------------------------------------------------------
(* What is in the buffer from read on is the end of what was received, and *)
(* the lines of all before it were handled.                                *)
Parsed == Len(received) - (write - read)

UnreadInv ==
  /\ Parsed >= 0
  /\ \A k \in 1..write - read : received[Parsed + k] = buffer[read + k]
  /\ Split(received)[Parsed] = [lines |-> handled, rest |-> <<>>]

LEMMA UnreadLines == JupeInv /\ UnreadInv => LinesOfStream
<1>1. SUFFICES ASSUME JupeInv, UnreadInv, jpc = "select"
               PROVE  Split(received)[Len(received)] = [lines |-> handled, rest |-> buffer]
  BY DEF LinesOfStream
<1>2. /\ received \in Seq(Chars) /\ buffer \in Seq(Chars) /\ read = 0
      /\ \A k \in 1..Len(buffer) : buffer[k] # "eol"
  BY <1>1 DEF JupeInv, JupeTypeOK, WithinBuffer, write
<1>3. Len(received) \in Nat /\ Len(buffer) \in Nat
  BY <1>2
<1>4. PICK m \in Nat : m = Len(received) - Len(buffer) /\ m = Parsed
  BY <1>1, <1>2, <1>3 DEF UnreadInv, Parsed, write
<1>5. \A k \in 1..Len(buffer) : received[m + k] = buffer[0 + k]
  <2>1. \A k \in 1..write - read : received[Parsed + k] = buffer[read + k]
    BY <1>1 DEF UnreadInv
  <2>2. write - read = Len(buffer) /\ read = 0
    BY <1>2, <1>3 DEF write
  <2> QED  BY <1>4, <2>1, <2>2
<1>6. Split(received)[m] = [lines |-> handled, rest |-> <<>>]
  BY <1>1, <1>4 DEF UnreadInv
<1>7. \A k \in 1..Len(buffer) : received[m + k] # "eol"
  BY <1>2, <1>3, <1>5
<1>8. PICK n \in Nat : n = Len(buffer) /\ m + n = Len(received)
  BY <1>3, <1>4
<1>9. Split(received)[m + n] = [lines |-> handled, rest |-> SubSeq(received, m + 1, m + n)]
  <2>1. \A k \in 1..n : received[m + k] # "eol"
    BY <1>7, <1>8
  <2>2. m + n <= Len(received)
    BY <1>3, <1>8
  <2> QED  BY <1>2, <1>6, <2>1, <2>2, SplitPart, ZenonT(60)
<1>10. SubSeq(received, m + 1, m + n) = SubSeq(buffer, 0 + 1, 0 + n)
  <2>1. Agree(received, m, buffer, 0, n)
    BY <1>5, <1>8 DEF Agree
  <2>2. m + n <= Len(received) /\ 0 + n <= Len(buffer)
    BY <1>3, <1>8
  <2> QED  BY <1>2, <2>1, <2>2, SameStretch
<1>11. SubSeq(buffer, 0 + 1, 0 + n) = buffer
  BY <1>2, <1>8, SubSeqFull
<1> QED  BY <1>8, <1>9, <1>10, <1>11

(* A read makes both longer by the same characters.                        *)
LEMMA ReadSomeUnread == ASSUME JupeInv, UnreadInv, ReadSome PROVE UnreadInv'
<1>1. PICK n \in 1..Len(incoming) :
        /\ buffer' = buffer \o SubSeq(incoming, 1, n)
        /\ received' = received \o SubSeq(incoming, 1, n)
  BY DEF ReadSome, write
<1>2. /\ incoming \in Seq(Chars) /\ buffer \in Seq(Chars) /\ received \in Seq(Chars)
      /\ read = 0 /\ read' = read /\ handled' = handled
  BY DEF JupeInv, JupeTypeOK, WithinBuffer, ReadSome
<1>3. PICK t \in Seq(Chars) : t = SubSeq(incoming, 1, n)
  <2>1. n \in Nat /\ n <= Len(incoming)
    BY <1>2
  <2> QED  BY <1>2, <2>1, Front
<1>4. /\ Len(buffer) \in Nat /\ Len(received) \in Nat /\ Len(t) \in Nat
  BY <1>2, <1>3
<1>5. /\ buffer' \in Seq(Chars) /\ Len(buffer') = Len(buffer) + Len(t)
      /\ \A k \in 1..Len(buffer) + Len(t) :
           buffer'[k] = IF k <= Len(buffer) THEN buffer[k] ELSE t[k - Len(buffer)]
  BY <1>1, <1>2, <1>3, ConcatProperties
<1>6. /\ received' \in Seq(Chars) /\ Len(received') = Len(received) + Len(t)
      /\ \A k \in 1..Len(received) + Len(t) :
           received'[k] = IF k <= Len(received) THEN received[k] ELSE t[k - Len(received)]
  BY <1>1, <1>2, <1>3, ConcatProperties
<1>7. PICK m \in Nat : m = Parsed /\ m = Parsed' /\ m = Len(received) - Len(buffer)
  <2>1. Parsed = Len(received) - Len(buffer)
    BY <1>2, <1>4 DEF Parsed, write
  <2>2. Parsed' = Len(received') - Len(buffer')
    BY <1>2, <1>4, <1>5, <1>6 DEF Parsed, write
  <2>3. Parsed >= 0
    BY DEF UnreadInv
  <2>4. PICK m \in Nat : m = Len(received) - Len(buffer)
    BY <1>4, <2>1, <2>3
  <2>5. m = Len(received') - Len(buffer')
    BY <1>4, <1>5, <1>6, <2>4
  <2> QED  BY <2>1, <2>2, <2>4, <2>5
<1>8. \A k \in 1..Len(buffer) : received[m + k] = buffer[k]
  BY <1>2, <1>4, <1>7 DEF UnreadInv, write
<1>9. ASSUME NEW k \in 1..Len(buffer') PROVE received'[m + k] = buffer'[k]
  <2>1. PICK j \in 1..Len(received) + Len(t) : j = m + k
    <3>1. m + k \in 1..Len(received) + Len(t)
      BY <1>4, <1>5, <1>7
    <3> QED  BY <3>1
  <2>2. CASE k <= Len(buffer)
    <3>1. k \in 1..Len(buffer) /\ j <= Len(received)
      BY <1>4, <1>5, <1>7, <2>1, <2>2
    <3>2. received'[j] = received[j] /\ buffer'[k] = buffer[k]
      BY <1>4, <1>5, <1>6, <2>1, <3>1
    <3> QED  BY <1>8, <2>1, <3>1, <3>2
  <2>3. CASE ~ (k <= Len(buffer))
    <3>1. ~ (j <= Len(received)) /\ j - Len(received) = k - Len(buffer)
      BY <1>4, <1>5, <1>7, <2>1, <2>3
    <3>2. received'[j] = t[j - Len(received)]
      BY <1>6, <2>1, <3>1
    <3>3. buffer'[k] = t[k - Len(buffer)]
      BY <1>4, <1>5, <2>3
    <3> QED  BY <2>1, <3>1, <3>2, <3>3
  <2> QED  BY <2>2, <2>3
<1>10. Split(received')[m] = [lines |-> handled', rest |-> <<>>]
  <2>1. m \in 0..Len(received)
    BY <1>4, <1>7
  <2>2. Split(received \o t)[m] = Split(received)[m]
    BY <1>2, <2>1, SplitExtends
  <2>3. Split(received)[m] = [lines |-> handled, rest |-> <<>>]
    BY <1>7 DEF UnreadInv
  <2> QED  BY <1>1, <1>2, <1>3, <2>2, <2>3
<1>11. \A k \in 1..Len(buffer') - read' : received'[m + k] = buffer'[read' + k]
  BY <1>2, <1>5, <1>4, <1>9
<1> QED
  BY <1>7, <1>10, <1>11 DEF UnreadInv, write

(* The end of a line that was handled is skipped, or that of an empty one. *)
LEMMA SkipEolUnread == ASSUME JupeInv, UnreadInv, SkipEol PROVE UnreadInv'
<1>1. /\ buffer \in Seq(Chars) /\ received \in Seq(Chars) /\ read \in Nat
      /\ Len(buffer) \in Nat /\ Len(received) \in Nat
  BY DEF JupeInv, JupeTypeOK, write
<1>2. /\ read < Len(buffer) /\ buffer[read + 1] = "eol" /\ read' = read + 1
      /\ buffer' = buffer /\ received' = received /\ handled' = handled
  BY DEF SkipEol, Eol, write, history
<1>3. PICK m \in Nat : m = Parsed /\ m = Len(received) - (Len(buffer) - read)
  <2>1. Parsed = Len(received) - (Len(buffer) - read)
    BY DEF Parsed, write
  <2>2. Parsed >= 0
    BY DEF UnreadInv
  <2> QED  BY <1>1, <2>1, <2>2
<1>4. Parsed' = m + 1
  BY <1>1, <1>2, <1>3 DEF Parsed, write
<1>5. \A k \in 1..Len(buffer) - read : received[m + k] = buffer[read + k]
  BY <1>3 DEF UnreadInv, write
<1>6. ASSUME NEW k \in 1..Len(buffer) - read - 1
      PROVE  received[m + 1 + k] = buffer[read + 1 + k]
  <2>1. PICK j \in 1..Len(buffer) - read :
          j = k + 1 /\ m + j = m + 1 + k /\ read + j = read + 1 + k
    BY <1>1, <1>3
  <2> QED  BY <1>5, <2>1
<1>7. Split(received)[m + 1] = [lines |-> handled, rest |-> <<>>]
  <2>1. PICK j \in 1..Len(received) : j = m + 1 /\ j - 1 = m
    <3>1. m + 1 \in 1..Len(received) /\ m + 1 - 1 = m
      BY <1>1, <1>2, <1>3
    <3> QED  BY <3>1
  <2>2. received[j] = "eol"
    <3>1. 1 \in 1..Len(buffer) - read
      BY <1>1, <1>2
    <3> QED  BY <1>2, <1>5, <2>1, <3>1
  <2>3. Split(received)[j] = AddChar(Split(received)[m], received[j])
    BY <1>1, <2>1, SplitStep
  <2>4. Split(received)[m] = [lines |-> handled, rest |-> <<>>]
    BY <1>3 DEF UnreadInv
  <2>5. Split(received)[m].rest = <<>>
    BY <2>4
  <2> QED  BY <2>1, <2>2, <2>3, <2>4, <2>5 DEF AddChar
<1>8. \A k \in 1..Len(buffer') - read' : received'[m + 1 + k] = buffer'[read' + k]
  <2>1. Len(buffer') - read' = Len(buffer) - read - 1
    BY <1>1, <1>2
  <2> QED  BY <1>2, <1>6, <2>1
<1> QED
  BY <1>2, <1>3, <1>4, <1>7, <1>8 DEF UnreadInv, write

(* The line that is handled is the next of the stream.                     *)
LEMMA ParseLineUnread == ASSUME JupeInv, UnreadInv, ParseLine PROVE UnreadInv'
<1>1. /\ buffer \in Seq(Chars) /\ received \in Seq(Chars) /\ read \in Nat
      /\ Len(buffer) \in Nat /\ Len(received) \in Nat
  BY DEF JupeInv, JupeTypeOK, write
<1>2. PICK next \in read + 2..Len(buffer) :
        /\ buffer[next] = "eol" /\ \A k \in read + 1..next - 1 : buffer[k] # "eol"
        /\ handled' = Append(handled, SubSeq(buffer, read + 1, next - 1))
        /\ read' = next
  BY DEF ParseLine, Eol, write
<1>3. buffer' = buffer /\ received' = received
  BY DEF ParseLine
<1>4. PICK m \in Nat : m = Parsed /\ m = Len(received) - (Len(buffer) - read)
  <2>1. Parsed = Len(received) - (Len(buffer) - read)
    BY DEF Parsed, write
  <2>2. Parsed >= 0
    BY DEF UnreadInv
  <2> QED  BY <1>1, <2>1, <2>2, SMTT(30)
<1>5. \A k \in 1..Len(buffer) - read : received[m + k] = buffer[read + k]
  BY <1>4 DEF UnreadInv, write
<1>6. Split(received)[m] = [lines |-> handled, rest |-> <<>>]
  BY <1>4 DEF UnreadInv
<1>7. PICK n \in Nat :
        /\ n > 0 /\ read + n = next - 1 /\ read + (n + 1) = next
        /\ n + 1 <= Len(buffer) - read /\ m + n + 1 <= Len(received)
  <2>1. next \in Int /\ next - 1 - read > 0 /\ next <= Len(buffer)
    BY <1>1
  <2>2. PICK n \in Nat : n = next - 1 - read
    BY <1>1, <2>1
  <2> QED  BY <1>1, <1>4, <2>1, <2>2
<1> DEFINE line == SubSeq(buffer, read + 1, next - 1)
<1>8. /\ line \in Seq(Chars) /\ Len(line) = n
      /\ line = SubSeq(received, m + 1, m + n)
  <2>1. read + n <= Len(buffer) /\ m + n <= Len(received)
    BY <1>1, <1>7
  <2>2. \A k \in 1..n : received[m + k] = buffer[read + k]
    BY <1>1, <1>5, <1>7
  <2>3. SubSeq(received, m + 1, m + n) = SubSeq(buffer, read + 1, read + n)
    <3>1. received \in Seq(Chars) /\ buffer \in Seq(Chars) /\ read \in Nat
      BY <1>1
    <3>2. Agree(received, m, buffer, read, n)
      BY <2>2 DEF Agree
    <3> QED  BY <2>1, <3>1, <3>2, SameStretch
  <2>4. /\ SubSeq(buffer, read + 1, read + n) \in Seq(Chars)
        /\ Len(SubSeq(buffer, read + 1, read + n)) = n
    BY <1>1, <2>1, Stretch
  <2> QED  BY <1>7, <2>3, <2>4
<1> HIDE DEF line
<1>9. Split(received)[m + n] = [lines |-> handled, rest |-> line]
  <2>1. ASSUME NEW k \in 1..n PROVE received[m + k] # "eol"
    <3>1. k \in 1..Len(buffer) - read /\ read + k \in read + 1..next - 1
      BY <1>1, <1>7
    <3> QED  BY <1>2, <1>5, <3>1
  <2>2. m + n <= Len(received)
    BY <1>1, <1>7
  <2>3. Split(received)[m + n] = [lines |-> handled, rest |-> SubSeq(received, m + 1, m + n)]
    <3>1. received \in Seq(Chars)
      BY <1>1
    <3> QED  BY <1>6, <2>1, <2>2, <3>1, SplitPart
  <2> QED  BY <1>8, <2>3
<1>10. PICK j \in 1..Len(received) : j = m + (n + 1) /\ j - 1 = m + n
  <2>1. m + (n + 1) \in 1..Len(received) /\ m + (n + 1) - 1 = m + n
    BY <1>1, <1>7
  <2> QED  BY <2>1
<1>11. received[j] = "eol"
  <2>1. n + 1 \in 1..Len(buffer) - read
    BY <1>1, <1>7
  <2> QED  BY <1>2, <1>5, <1>7, <1>10, <2>1
<1>12. Split(received)[j] = [lines |-> handled', rest |-> <<>>]
  <2>1. Split(received)[j] = AddChar(Split(received)[m + n], received[j])
    BY <1>1, <1>10, SplitStep
  <2>2. PICK acc : acc = Split(received)[m + n]
    OBVIOUS
  <2>3. acc.rest = line /\ acc.lines = handled
    BY <1>9, <2>2
  <2>4. line # <<>>
    BY <1>7, <1>8
  <2>5. AddChar(acc, "eol") = [lines |-> Append(handled, line), rest |-> <<>>]
    BY <2>3, <2>4 DEF AddChar
  <2>6. handled' = Append(handled, line)
    BY <1>2 DEF line
  <2> QED  BY <1>11, <2>1, <2>2, <2>5, <2>6
<1>13. Parsed' = j
  <2>1. Parsed' = Len(received) - (Len(buffer) - next)
    BY <1>2, <1>3 DEF Parsed, write
  <2> QED  BY <1>1, <1>4, <1>7, <1>10, <2>1
<1>14. ASSUME NEW k \in 1..Len(buffer) - next PROVE received[j + k] = buffer[next + k]
  <2>1. PICK i \in 1..Len(buffer) - read :
          i = n + 1 + k /\ m + i = j + k /\ read + i = next + k
    <3>1. /\ n + 1 + k \in 1..Len(buffer) - read
          /\ m + (n + 1 + k) = j + k /\ read + (n + 1 + k) = next + k
      BY <1>1, <1>7, <1>10
    <3> QED  BY <3>1
  <2> QED  BY <1>5, <2>1
<1> QED
  BY <1>2, <1>3, <1>12, <1>13, <1>14 DEF UnreadInv, write

(* What is moved to the front is still what was not handled.               *)
LEMMA ParseRestUnread == ASSUME JupeInv, UnreadInv, ParseRest PROVE UnreadInv'
<1>1. /\ buffer \in Seq(Chars) /\ received \in Seq(Chars) /\ read \in Nat
      /\ Len(buffer) \in Nat /\ Len(received) \in Nat /\ read <= Len(buffer)
  BY DEF JupeInv, JupeTypeOK, write
<1>2. /\ buffer' = SubSeq(buffer, read + 1, Len(buffer)) /\ read' = 0
      /\ received' = received /\ handled' = handled
  BY DEF ParseRest, write, history
<1>3. /\ Len(buffer') = Len(buffer) - read
      /\ \A k \in 1..Len(buffer) - read : buffer'[k] = buffer[read + k]
  BY <1>1, <1>2, Rest
<1>4. Parsed = Len(received) - (Len(buffer) - read)
  BY DEF Parsed, write
<1>5. Parsed' = Len(received) - (Len(buffer) - read - 0)
  BY <1>2, <1>3 DEF Parsed, write
<1>6. Parsed' = Parsed
  BY <1>1, <1>4, <1>5
<1>7. ASSUME NEW k \in 1..Len(buffer') - read' PROVE received'[Parsed' + k] = buffer'[read' + k]
  <2>1. k \in 1..Len(buffer) - read /\ read' + k = k
    BY <1>1, <1>2, <1>3
  <2>2. received[Parsed + k] = buffer[read + k]
    BY <2>1 DEF UnreadInv, write
  <2> QED  BY <1>2, <1>3, <1>6, <2>1, <2>2
<1>8. Parsed >= 0 /\ Split(received)[Parsed] = [lines |-> handled, rest |-> <<>>]
  BY DEF UnreadInv
<1> QED
  BY <1>2, <1>6, <1>7, <1>8 DEF UnreadInv, write

LEMMA UnreadSame ==
  ASSUME UnreadInv, UNCHANGED <<buffer, read, received, handled>> PROVE UnreadInv'
BY DEF UnreadInv, Parsed, write

LEMMA UnreadStep == ASSUME JupeInv, UnreadInv, [JupeNext]_jupeVars PROVE UnreadInv'
<1>1. CASE ReadSome  BY <1>1, ReadSomeUnread
<1>2. CASE SkipEol   BY <1>2, SkipEolUnread
<1>3. CASE ParseLine BY <1>3, ParseLineUnread
<1>4. CASE ParseRest BY <1>4, ParseRestUnread
<1>5. CASE ServerSends \/ ServerCloses \/ ReadNothing \/ ReadFails \/ Restart \/ Terminate
           \/ UNCHANGED jupeVars
  <2>1. UNCHANGED <<buffer, read, received, handled>>
    BY <1>5 DEF ServerSends, ServerCloses, ReadNothing, ReadFails, Restart, Terminate,
                jupeVars, history, server
  <2> QED  BY <2>1, UnreadSame
<1> QED
  BY <1>1, <1>2, <1>3, <1>4, <1>5 DEF JupeNext, Client

LEMMA UnreadInit == JupeInit => UnreadInv
<1>1. SUFFICES ASSUME JupeInit PROVE UnreadInv
  OBVIOUS
<1>2. buffer = <<>> /\ read = 0 /\ received = <<>> /\ handled = <<>> /\ Len(<<>>) = 0
  BY <1>1 DEF JupeInit
<1>3. Parsed = 0 /\ write - read = 0
  BY <1>2 DEF Parsed, write
<1>4. <<>> \in Seq(Chars)
  OBVIOUS
<1>5. Split(received)[0] = NothingYet
  BY <1>2, <1>4, SplitStep
<1> QED
  BY <1>2, <1>3, <1>5 DEF UnreadInv, NothingYet

(* However the stream of all connections is cut into reads, its lines are  *)
(* handled once each, whole and in order, for any buffer and any stream.   *)
THEOREM LinesComeWhole == JupeSpec => []LinesOfStream
<1>1. JupeInit => UnreadInv
  BY UnreadInit
<1>2. JupeInv /\ UnreadInv /\ [JupeNext]_jupeVars => UnreadInv'
  BY UnreadStep
<1>3. JupeInv /\ UnreadInv => LinesOfStream
  BY UnreadLines
<1> QED
  BY <1>1, <1>2, <1>3, JupeAlwaysInv, PTL DEF JupeSpec

-----------------------------------------------------------------------------
(* The safety half of AllIsRead: what the client still has to do with what *)
(* has been sent to it.                                                    *)
StillToDo ==
  4 * Len(incoming) + 2 * (write - read) + (IF jpc = "parse" THEN 1 ELSE 0)

(* No call of read, and no call of itself that parse_data makes, is in     *)
(* vain: each leaves less to do, whatever the reads return.                *)
CallsCount ==
  [][Client /\ jpc # "restart" /\ jpc' # "restart" => StillToDo' < StillToDo]_jupeVars

(* Between two characters that a server sends, jupe takes at most four     *)
(* steps for every character it has not read and two for every one it has  *)
(* not parsed, and then it waits in select again.                          *)
THEOREM ParsingEnds == JupeSpec => [](StillToDo \in Nat) /\ CallsCount
<1>1. JupeInv => StillToDo \in Nat
  <2> SUFFICES ASSUME JupeInv PROVE StillToDo \in Nat
    OBVIOUS
  <2>1. PICK i, w \in Nat : i = Len(incoming) /\ w = Len(buffer)
    BY DEF JupeInv, JupeTypeOK
  <2>2. read \in 0..w
    BY <2>1 DEF JupeInv, JupeTypeOK, write
  <2> QED
    BY <2>1, <2>2 DEF StillToDo, write
<1>2. JupeInv => (Client /\ jpc # "restart" /\ jpc' # "restart" => StillToDo' < StillToDo)
  <2> SUFFICES ASSUME JupeInv, Client, jpc # "restart", jpc' # "restart"
               PROVE  StillToDo' < StillToDo
    OBVIOUS
  <2>1. /\ incoming \in Seq(Chars) /\ buffer \in Seq(Chars)
        /\ Len(incoming) \in Nat /\ Len(buffer) \in Nat
    BY DEF JupeInv, JupeTypeOK
  <2>2. read \in 0..Len(buffer)
    BY DEF JupeInv, JupeTypeOK, write
  <2>3. CASE ReadSome
    <3>1. PICK n \in 1..Len(incoming) :
            /\ buffer' = buffer \o SubSeq(incoming, 1, n)
            /\ incoming' = SubSeq(incoming, n + 1, Len(incoming))
      BY <2>3 DEF ReadSome
    <3>2. n \in Nat /\ n >= 1 /\ n <= Len(incoming)
      BY <2>1, <3>1
    <3>3. SubSeq(incoming, 1, n) \in Seq(Chars) /\ Len(SubSeq(incoming, 1, n)) = n
      BY <2>1, <3>2, Front
    <3>4. Len(buffer') = Len(buffer) + n
      BY <2>1, <3>1, <3>3, ConcatProperties
    <3>5. Len(incoming') = Len(incoming) - n
      BY <2>1, <3>1, <3>2, Rest
    <3>6. read' = read /\ jpc = "select" /\ jpc' = "parse"
      BY <2>3 DEF ReadSome
    <3> QED
      BY <2>1, <2>2, <3>2, <3>4, <3>5, <3>6 DEF StillToDo, write
  <2>4. CASE SkipEol
    BY <2>1, <2>2, <2>4 DEF SkipEol, StillToDo, write, server
  <2>5. CASE ParseLine
    <3>1. PICK next \in read+2..Len(buffer) : read' = next
      BY <2>5 DEF ParseLine, write
    <3>2. UNCHANGED <<incoming, buffer, jpc>>
      BY <2>5 DEF ParseLine, server
    <3> QED
      BY <2>1, <2>2, <3>1, <3>2 DEF StillToDo, write
  <2>6. CASE ParseRest
    <3>1. Len(buffer') = Len(buffer) - read
      BY <2>1, <2>2, <2>6, Rest DEF ParseRest, write
    <3>2. /\ incoming' = incoming /\ read' = 0
          /\ jpc = "parse" /\ jpc' = "select"
      BY <2>6 DEF ParseRest, server
    <3> QED
      BY <2>1, <2>2, <3>1, <3>2 DEF StillToDo, write
  <2>7. ~ ReadNothing /\ ~ ReadFails /\ ~ Restart
    BY DEF ReadNothing, ReadFails, Restart
  <2> QED
    BY <2>3, <2>4, <2>5, <2>6, <2>7 DEF Client
<1> QED
  BY <1>1, <1>2, JupeAlwaysInv, PTL DEF CallsCount
=============================================================================
