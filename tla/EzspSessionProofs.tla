------------------------- MODULE EzspSessionProofs --------------------------
(***************************************************************************)
(* Theorems about EzspSession, for every set of requests, replies, events  *)
(* and versions.                                                           *)
(***************************************************************************)
EXTENDS EzspSession, WellFoundedInduction, TLAPS

-----------------------------------------------------------------------------
(* The inductive invariant *)

IsSeq(s) == Len(s) \in Nat /\ s = [i \in 1 .. Len(s) |-> s[i]]

\* An optional value is there or not.
IsOption(o) == o = <<>> \/ o = <<o[1]>>

SessionTypes ==
    /\ SessionTypeOK
    /\ IsSeq(line) /\ IsSeq(chunk) /\ IsSeq(owed)
    /\ IsOption(pending) /\ IsOption(response)
    /\ next_sequence_number \in Sequence
    /\ refused \in BOOLEAN /\ issued \in Nat
    /\ ncp_widths \in [status : 0 .. 4, tag : 0 .. 2, flags : 0 .. 1]
    /\ op = "poll" => connecting = "up"
    /\ connecting \in {"start", "failed"} => op = "none"

\* The slot is taken only by a command that waits for its answer.
SlotIsHeld ==
    /\ pending # <<>> => op = "command" /\ response = <<>>
    /\ response # <<>> => op = "command"

\* Every command got the number its token gives it, and the one outstanding is the last.
Numbered(token) == (token - 1) % SEQUENCE_SPACE

CommandsAreNumbered ==
    /\ asked.token = issued /\ next_sequence_number = issued % SEQUENCE_SPACE
    /\ pending # <<>> =>
          /\ pending[1].sequence = Numbered(issued) /\ pending[1].frame_id = asked.command.id
          /\ pending_format = <<IF connecting = "first" THEN "Legacy" ELSE "Extended">>

\* No command is refused for its version.
VersionIsSupported ==
    /\ is_supported(version)
    /\ connecting = "second" => is_supported(asked.values[1])
    /\ initial_version_sent = (connecting # "start")
    /\ connecting = "start" => issued = 0 /\ line = <<>> /\ owed = <<>>
    /\ connecting = "first" => issued = 1

\* An answer is numbered like its command and carries its frame id where the format of that stage of
\* connect has it; a callback is known for one.
ItemOK(item, stage) ==
    IF item.of = 0 THEN from_low_byte(item.bytes[2]) = "Callback"
    ELSE /\ item.of \in Nat /\ item.bytes[1] = Numbered(item.of)
         /\ item.frame_id = IF stage = "first" THEN item.bytes[3]
                            ELSE u16_of(SubSeq(item.bytes, 4, 5))

OwedOK(q, stage) ==
    /\ q.token \in Nat \ {0} /\ q.sequence = Numbered(q.token) /\ q.command \in AllCommands
    /\ q.format = IF stage = "first" THEN "Legacy" ELSE "Extended"
    /\ stage = "first" => q.command = Version

LineOK ==
    connecting # "failed" =>
        /\ \A i \in 1 .. Len(line) : ItemOK(line[i], connecting)
        /\ \A i \in 1 .. Len(chunk) : ItemOK(chunk[i], connecting)
        /\ \A i \in 1 .. Len(owed) : OwedOK(owed[i], connecting)

\* There is one legacy answer, ahead of all else, and it is gone once it is taken.
FirstAnswerLeads ==
    connecting = "first" =>
        /\ owed # <<>> => Len(owed) = 1 /\ line = <<>> /\ chunk = <<>>
        /\ \A i \in 1 .. Len(chunk) : chunk[i].of # 0 => i = 1
        /\ \A i \in 1 .. Len(line) : line[i].of # 0 => i = 1 /\ chunk = <<>>
        /\ response # <<>> \/ result.error = "none" =>
              /\ owed = <<>>
              /\ \A i \in 1 .. Len(chunk) : chunk[i].of = 0
              /\ \A i \in 1 .. Len(line) : line[i].of = 0

\* An answer to a command like the last one, some wraps ago or none.
AnswersAsked(item) ==
    /\ item.of \in Nat
    /\ (asked.token - item.of) % SEQUENCE_SPACE = 0
    /\ item.frame_id = asked.command.id

AnswersMatch ==
    /\ response # <<>> => AnswersAsked(response[1].from)
    /\ result.from.of # 0 => AnswersAsked(result.from)

Orderly ==
    /\ SlotIsHeld /\ CommandsAreNumbered /\ VersionIsSupported
    /\ LineOK /\ FirstAnswerLeads /\ AnswersMatch

SessionInv == SessionTypes /\ (~refused => Orderly)

-----------------------------------------------------------------------------
(* Sequences *)

\* A sequence by its shape is one over some set.
LEMMA SeqOver ==
  ASSUME NEW s, IsSeq(s)
  PROVE  s \in Seq({s[i] : i \in 1 .. Len(s)})
<1> DEFINE U == {s[i] : i \in 1 .. Len(s)}
<1>1. PICK n \in Nat : n = Len(s)
  BY DEF IsSeq
<1>2. s = [i \in 1 .. n |-> s[i]] /\ \A i \in 1 .. n : s[i] \in U
  BY <1>1 DEF IsSeq
<1> HIDE DEF U
<1>3. s \in [1 .. n -> U]
  BY <1>2
<1>4. s \in Seq(U)
  BY <1>3
<1> QED BY <1>4 DEF U

LEMMA IsSeqOf ==
  ASSUME NEW U, NEW s \in Seq(U)
  PROVE  IsSeq(s)
BY DEF IsSeq

LEMMA AppendIsSeq ==
  ASSUME NEW s, NEW e, IsSeq(s)
  PROVE  /\ IsSeq(Append(s, e)) /\ Append(s, e) # <<>>
         /\ Len(Append(s, e)) = Len(s) + 1 /\ Append(s, e)[Len(s) + 1] = e
         /\ \A i \in 1 .. Len(s) : Append(s, e)[i] = s[i]
<1> DEFINE S == {s[i] : i \in 1 .. Len(s)}
<1>1. s \in Seq(S)
  BY SeqOver
<1> HIDE DEF S
<1>2. PICK U : s \in Seq(U) /\ e \in U
  <2>1. s \in Seq(S \cup {e})
    BY <1>1
  <2> QED BY <2>1
<1>3. Append(s, e) \in Seq(U)
  BY <1>2
<1>4. IsSeq(Append(s, e))
  BY <1>3, IsSeqOf
<1>5. /\ Append(s, e) # <<>>
      /\ Len(Append(s, e)) = Len(s) + 1 /\ Append(s, e)[Len(s) + 1] = e
      /\ \A i \in 1 .. Len(s) : Append(s, e)[i] = s[i]
  BY <1>2
<1> QED BY <1>4, <1>5

LEMMA TailIsSeq ==
  ASSUME NEW s, IsSeq(s), s # <<>>
  PROVE  /\ IsSeq(Tail(s)) /\ Head(s) = s[1] /\ Len(s) > 0
         /\ Len(Tail(s)) = Len(s) - 1 /\ \A i \in 1 .. Len(Tail(s)) : Tail(s)[i] = s[i + 1]
<1>1. PICK U : s \in Seq(U)
  BY SeqOver
<1>2. Tail(s) \in Seq(U)
  BY <1>1
<1>3. IsSeq(Tail(s))
  BY <1>2, IsSeqOf
<1>4. /\ Head(s) = s[1] /\ Len(s) > 0
      /\ Len(Tail(s)) = Len(s) - 1 /\ \A i \in 1 .. Len(Tail(s)) : Tail(s)[i] = s[i + 1]
  BY <1>1
<1> QED BY <1>3, <1>4

\* What Read cuts off and what it leaves.
LEMMA CutIsSeq ==
  ASSUME NEW s, IsSeq(s), NEW n \in Nat, n <= Len(s), n > 0
  PROVE  LET front == SubSeq(s, 1, n)
             back == SubSeq(s, n + 1, Len(s))
         IN  /\ IsSeq(front) /\ front # <<>> /\ Len(front) = n
             /\ \A i \in 1 .. n : front[i] = s[i]
             /\ IsSeq(back) /\ Len(back) = Len(s) - n
             /\ \A i \in 1 .. Len(back) : back[i] = s[i + n]
<1> DEFINE front == SubSeq(s, 1, n)
           back == SubSeq(s, n + 1, Len(s))
<1>1. PICK U : s \in Seq(U)
  BY SeqOver
<1>2. front \in Seq(U) /\ Len(front) = n /\ \A i \in 1 .. n : front[i] = s[i]
  BY <1>1
<1>3. PICK k \in Nat : k = Len(s)
  BY <1>1
<1>4. /\ SubSeq(s, n + 1, k) \in Seq(U) /\ Len(SubSeq(s, n + 1, k)) = k - n
      /\ \A i \in 1 .. (k - n) : SubSeq(s, n + 1, k)[i] = s[i + n]
  BY <1>1, <1>3
<1>5. IsSeq(front) /\ IsSeq(back)
  BY <1>2, <1>3, <1>4, IsSeqOf, Zenon
<1>6. front # <<>>
  BY <1>2
<1>7. Len(back) = Len(s) - n /\ \A i \in 1 .. Len(back) : back[i] = s[i + n]
  BY <1>3, <1>4, Zenon
<1> HIDE DEF front, back
<1> QED BY <1>2, <1>5, <1>6, <1>7 DEF front, back

LEMMA EmptyIsSeq == IsSeq(<<>>)
BY DEF IsSeq

LEMMA ConcatIsSeq ==
  ASSUME NEW s, NEW t, IsSeq(s), IsSeq(t)
  PROVE  /\ IsSeq(s \o t)
         /\ Len(s \o t) = Len(s) + Len(t)
         /\ \A i \in 1 .. Len(s) : (s \o t)[i] = s[i]
         /\ \A i \in 1 .. Len(t) : (s \o t)[Len(s) + i] = t[i]
<1> DEFINE S == {s[i] : i \in 1 .. Len(s)}
           T == {t[i] : i \in 1 .. Len(t)}
<1>1. s \in Seq(S) /\ t \in Seq(T)
  BY SeqOver
<1> HIDE DEF S, T
<1>2. PICK U : s \in Seq(U) /\ t \in Seq(U)
  <2>1. s \in Seq(S \cup T) /\ t \in Seq(S \cup T)
    BY <1>1
  <2> QED BY <2>1
<1>3. s \o t \in Seq(U)
  BY <1>2
<1>4. IsSeq(s \o t)
  BY <1>3, IsSeqOf
<1>5. /\ Len(s \o t) = Len(s) + Len(t)
      /\ \A i \in 1 .. Len(s) : (s \o t)[i] = s[i]
  BY <1>2
<1>6. ASSUME NEW i \in 1 .. Len(t)
      PROVE  (s \o t)[Len(s) + i] = t[i]
  BY <1>2
<1> QED BY <1>4, <1>5, <1>6

\* A set of naturals that is not empty has a least element.
LEMMA LeastNatural ==
  ASSUME NEW T, T \subseteq Nat, T # {}
  PROVE  \E x \in T : \A y \in T : x <= y
<1>1. PICK x \in T : \A y \in T : ~(<<y, x>> \in OpToRel(<, Nat))
  BY NatLessThanWellFounded, WFMin
<1>2. ASSUME NEW y \in T
      PROVE  x <= y
  <2>1. x \in Nat /\ y \in Nat
    OBVIOUS
  <2>2. ~(y < x)
    BY <1>1, <2>1 DEF OpToRel
  <2> QED BY <2>1, <2>2
<1> QED BY <1>1, <1>2

\* The joins of the first parts of ss, one after the other.
Joins(ss, n, g) ==
    /\ g = [i \in 1 .. n |-> IF i = 1 THEN ss[i] ELSE g[i - 1] \o ss[i]]
    /\ \A i \in 1 .. n : IsSeq(g[i])

\* One more part.
LEMMA JoinsGoOn ==
  ASSUME NEW ss, NEW n \in Nat, n > 0, NEW g, Joins(ss, n, g), IsSeq(ss[n + 1])
  PROVE  \E h : Joins(ss, n + 1, h)
<1> DEFINE h == [i \in 1 .. (n + 1) |-> IF i <= n THEN g[i] ELSE g[n] \o ss[n + 1]]
<1>1. IsSeq(g[n] \o ss[n + 1])
  BY ConcatIsSeq DEF Joins
<1>2. \A i \in 1 .. (n + 1) : IsSeq(h[i])
  BY <1>1 DEF Joins
<1>3. \A i \in 1 .. n : h[i] = g[i]
  OBVIOUS
<1>4. \A i \in 1 .. n : g[i] = IF i = 1 THEN ss[i] ELSE g[i - 1] \o ss[i]
  BY DEF Joins
<1>5. ASSUME NEW i \in 1 .. (n + 1)
      PROVE  h[i] = IF i = 1 THEN ss[i] ELSE h[i - 1] \o ss[i]
  <2>1. CASE i <= n
    <3>1. CASE i = 1
      BY <1>3, <1>4, <2>1, <3>1
    <3>2. CASE i # 1
      <4>1. i - 1 \in 1 .. n /\ i \in 1 .. n
        BY <2>1, <3>2
      <4>2. h[i] = g[i] /\ h[i - 1] = g[i - 1]
        BY <1>3, <4>1, Zenon
      <4>3. g[i] = g[i - 1] \o ss[i]
        BY <1>4, <3>2, <4>1, Zenon
      <4> QED BY <3>2, <4>2, <4>3, Zenon
    <3> QED BY <3>1, <3>2
  <2>2. CASE ~(i <= n)
    <3>1. i = n + 1 /\ i # 1 /\ i - 1 = n /\ n \in 1 .. n
      BY <2>2
    <3>2. h[i] = g[n] \o ss[n + 1]
      BY <2>2
    <3>3. h[i - 1] = g[n]
      BY <1>3, <3>1, Zenon
    <3> QED BY <3>1, <3>2, <3>3, Zenon
  <2> QED BY <2>1, <2>2
<1>6. h = [i \in 1 .. (n + 1) |-> h[i]]
  OBVIOUS
<1> HIDE DEF h
<1>7. h = [i \in 1 .. (n + 1) |-> IF i = 1 THEN ss[i] ELSE h[i - 1] \o ss[i]]
  BY <1>5, <1>6, Zenon
<1> QED BY <1>2, <1>7 DEF Joins

\* FlattenSeq is the last of the joins, and they exist because there is no first that does not.
LEMMA FlattenIsSeq ==
  ASSUME NEW ss, IsSeq(ss), \A i \in 1 .. Len(ss) : IsSeq(ss[i])
  PROVE  IsSeq(FlattenSeq(ss))
<1>1. CASE Len(ss) = 0
  BY <1>1 DEF FlattenSeq
<1>2. CASE Len(ss) # 0
  <2> DEFINE flatten[i \in 1 .. Len(ss)] == IF i = 1 THEN ss[i] ELSE flatten[i - 1] \o ss[i]
  <2>1. Len(ss) \in Nat /\ Len(ss) > 0
    BY <1>2 DEF IsSeq
  <2>2. FlattenSeq(ss) = flatten[Len(ss)]
    BY <1>2 DEF FlattenSeq
  <2>3. \E g : Joins(ss, Len(ss), g)
    <3> DEFINE Bad == {m \in 1 .. Len(ss) : ~ \E g : Joins(ss, m, g)}
    <3>1. SUFFICES ASSUME Bad # {} PROVE FALSE
      BY <2>1
    <3>2. PICK m \in Bad : \A k \in Bad : m <= k
      <4>1. Bad \subseteq Nat
        BY <2>1
      <4> HIDE DEF Bad
      <4> QED BY <3>1, <4>1, LeastNatural
    <3>3. m \in 1 .. Len(ss) /\ m \in Nat /\ ~ \E g : Joins(ss, m, g)
      BY <2>1
    <3>4. CASE m = 1
      <4> DEFINE g == [i \in 1 .. 1 |-> ss[1]]
      <4>1. \A i \in 1 .. 1 : IsSeq(g[i])
        BY <2>1
      <4>2. g = [i \in 1 .. 1 |-> IF i = 1 THEN ss[i] ELSE g[i - 1] \o ss[i]]
        OBVIOUS
      <4>3. Joins(ss, 1, g)
        BY <4>1, <4>2 DEF Joins
      <4> QED BY <3>3, <3>4, <4>3
    <3>5. CASE m # 1
      <4>1. m - 1 \in Nat /\ m - 1 > 0 /\ m - 1 \in 1 .. Len(ss) /\ (m - 1) + 1 = m
        BY <2>1, <3>3, <3>5
      <4>2. m - 1 \notin Bad
        BY <3>2, <3>3, <4>1
      <4>3. PICK g : Joins(ss, m - 1, g)
        BY <4>1, <4>2
      <4>4. IsSeq(ss[(m - 1) + 1])
        BY <3>3, <4>1, Zenon
      <4>5. \E h : Joins(ss, (m - 1) + 1, h)
        BY <4>1, <4>3, <4>4, JoinsGoOn
      <4> QED BY <3>3, <4>1, <4>5, Zenon
    <3> QED BY <3>4, <3>5
  <2>4. flatten = [i \in 1 .. Len(ss) |-> IF i = 1 THEN ss[i] ELSE flatten[i - 1] \o ss[i]]
    <3>1. \E g : g = [i \in 1 .. Len(ss) |-> IF i = 1 THEN ss[i] ELSE g[i - 1] \o ss[i]]
      BY <2>3 DEF Joins
    <3> QED BY <3>1
  <2> HIDE DEF flatten
  <2>5. \A i \in 1 .. Len(ss) : IsSeq(flatten[i])
    <3> DEFINE Bad == {m \in 1 .. Len(ss) : ~IsSeq(flatten[m])}
    <3>1. SUFFICES ASSUME Bad # {} PROVE FALSE
      OBVIOUS
    <3>2. PICK m \in Bad : \A k \in Bad : m <= k
      <4>1. Bad \subseteq Nat
        BY <2>1
      <4> HIDE DEF Bad
      <4> QED BY <3>1, <4>1, LeastNatural
    <3>3. m \in 1 .. Len(ss) /\ ~IsSeq(flatten[m])
      OBVIOUS
    <3>4. flatten[m] = IF m = 1 THEN ss[m] ELSE flatten[m - 1] \o ss[m]
      BY <2>4, <3>3, Zenon
    <3>5. m # 1
      BY <3>3, <3>4, Zenon
    <3>6. m - 1 \in 1 .. Len(ss) /\ ~(m <= m - 1)
      BY <2>1, <3>3, <3>5
    <3>7. IsSeq(flatten[m - 1])
      BY <3>2, <3>6
    <3>8. IsSeq(flatten[m - 1] \o ss[m])
      BY <3>3, <3>7, ConcatIsSeq
    <3> QED BY <3>3, <3>4, <3>5, <3>8, Zenon
  <2> QED BY <2>1, <2>2, <2>5
<1> QED BY <1>1, <1>2

-----------------------------------------------------------------------------
(* What the NCP writes *)

\* Tuples by their length.
LEMMA TuplesAreSeqs ==
  ASSUME NEW a, NEW b, NEW c
  PROVE  IsSeq(<<a>>) /\ IsSeq(<<a, b>>) /\ IsSeq(<<a, b, c>>)
<1>1. <<a>> \in Seq({a}) /\ <<a, b>> \in Seq({a, b}) /\ <<a, b, c>> \in Seq({a, b, c})
  OBVIOUS
<1> QED BY <1>1, IsSeqOf

\* The kinds of field in an answer or a callback.
AnswerKinds ==
    {"u8", "i8", "u16", "u32", "bool", "eui64", "pan", "key", "status", "tag", "flags", "bytes"}

LEMMA PrefixIsSeq ==
  ASSUME NEW s, IsSeq(s), NEW n \in Nat, n <= Len(s)
  PROVE  IsSeq(SubSeq(s, 1, n))
<1>1. PICK U : s \in Seq(U)
  BY SeqOver
<1>2. SubSeq(s, 1, n) \in Seq(U)
  BY <1>1
<1> QED BY <1>2, IsSeqOf

LEMMA U32IsSeq ==
  ASSUME NEW value
  PROVE  IsSeq(u32_bytes(value)) /\ Len(u32_bytes(value)) = 4
<1> DEFINE low == u16_bytes(value[2])
           high == u16_bytes(value[1])
<1>1. IsSeq(low) /\ IsSeq(high)
  BY TuplesAreSeqs, ZenonT(30) DEF u16_bytes
<1>2. Len(low) = 2 /\ Len(high) = 2
  BY DEF u16_bytes
<1>3. u32_bytes(value) = low \o high
  BY DEF u32_bytes
<1> HIDE DEF low, high
<1>4. IsSeq(low \o high) /\ Len(low \o high) = Len(low) + Len(high)
  BY <1>1, ConcatIsSeq
<1>5. Len(low \o high) = 4
  BY <1>2, <1>4
<1> QED BY <1>3, <1>4, <1>5, Zenon

LEMMA FieldIsSeq ==
  ASSUME ncp_widths \in [status : 0 .. 4, tag : 0 .. 2, flags : 0 .. 1],
         NEW kind \in AnswerKinds, NEW value,
         kind \in {"eui64", "pan", "key", "bytes"} => value \in Seq(0 .. 255)
  PROVE  IsSeq(NcpField(kind, value))
<1>1. CASE kind = "status"
  <2>1. NcpField(kind, value) = SubSeq(u32_bytes(value), 1, ncp_widths.status)
    BY <1>1 DEF NcpField
  <2>2. ncp_widths.status \in Nat /\ ncp_widths.status <= 4
    OBVIOUS
  <2> QED BY <2>1, <2>2, U32IsSeq, PrefixIsSeq
<1>2. CASE kind = "tag"
  <2>1. NcpField(kind, value) = SubSeq(u16_bytes(value), 1, ncp_widths.tag)
    BY <1>2 DEF NcpField
  <2>2. ncp_widths.tag \in Nat /\ ncp_widths.tag <= 2
    OBVIOUS
  <2>3. IsSeq(u16_bytes(value)) /\ Len(u16_bytes(value)) = 2
    BY TuplesAreSeqs DEF u16_bytes
  <2> QED BY <2>1, <2>2, <2>3, PrefixIsSeq
<1>3. CASE kind = "flags"
  <2>1. NcpField(kind, value) = SubSeq(<<value>>, 1, ncp_widths.flags)
    BY <1>3 DEF NcpField
  <2>2. ncp_widths.flags \in Nat /\ ncp_widths.flags <= 1
    OBVIOUS
  <2>3. IsSeq(<<value>>) /\ Len(<<value>>) = 1
    BY TuplesAreSeqs
  <2> QED BY <2>1, <2>2, <2>3, PrefixIsSeq
<1>4. CASE kind = "bool"
  <2>1. NcpField(kind, value) = <<IF value THEN 2 ELSE 0>>
    BY <1>4 DEF NcpField
  <2> QED BY <2>1, TuplesAreSeqs
<1>5. CASE kind = "bytes"
  <2>1. NcpField(kind, value) = <<Len(value)>> \o value
    BY <1>5 DEF NcpField
  <2>2. IsSeq(value)
    BY <1>5, IsSeqOf
  <2>3. IsSeq(<<Len(value)>>)
    BY TuplesAreSeqs
  <2> QED BY <2>1, <2>2, <2>3, ConcatIsSeq
<1>6. CASE kind \in {"u8", "i8", "u16", "u32", "eui64", "pan", "key"}
  <2>1. NcpField(kind, value) = FieldBytes(kind, value, 0)
    BY <1>6 DEF NcpField
  <2>2. CASE kind = "u8"
    BY <2>1, <2>2, TuplesAreSeqs DEF FieldBytes
  <2>3. CASE kind = "i8"
    <3>1. FieldBytes(kind, value, 0) = <<value % 256>>
      BY <2>3 DEF FieldBytes
    <3> QED BY <2>1, <3>1, TuplesAreSeqs
  <2>4. CASE kind = "u16"
    <3>1. FieldBytes(kind, value, 0) = <<value % 256, value \div 256>>
      BY <2>4 DEF FieldBytes, u16_bytes
    <3> QED BY <2>1, <3>1, TuplesAreSeqs, ZenonT(30)
  <2>5. CASE kind = "u32"
    <3>1. FieldBytes(kind, value, 0) = u32_bytes(value)
      BY <2>5 DEF FieldBytes
    <3> QED BY <2>1, <3>1, U32IsSeq
  <2>6. CASE kind = "eui64"
    <3>1. FieldBytes(kind, value, 0) = Reverse(value)
      BY <2>6 DEF FieldBytes, to_wire
    <3>2. Reverse(value) \in Seq(0 .. 255)
      <4>1. value \in Seq(0 .. 255) /\ Len(value) \in Nat
        BY <2>6
      <4>2. PICK n \in Nat : n = Len(value)
        BY <4>1
      <4>3. \A i \in 1 .. n : (n - i) + 1 \in 1 .. n
        OBVIOUS
      <4>4. Reverse(value) = [i \in 1 .. n |-> value[(n - i) + 1]]
        BY <4>2 DEF Reverse
      <4>5. \A j \in 1 .. n : value[j] \in 0 .. 255
        BY <4>1, <4>2
      <4>6. \A i \in 1 .. n : value[(n - i) + 1] \in 0 .. 255
        BY <4>3, <4>5, Zenon
      <4>7. Reverse(value) \in [1 .. n -> 0 .. 255]
        BY <4>4, <4>6, ZenonT(30)
      <4> QED BY <4>7
    <3> QED BY <2>1, <3>1, <3>2, IsSeqOf
  <2>7. CASE kind \in {"pan", "key"}
    <3>1. FieldBytes(kind, value, 0) = value
      BY <2>7 DEF FieldBytes
    <3> QED BY <2>1, <2>7, <3>1, IsSeqOf
  <2> QED BY <1>6, <2>2, <2>3, <2>4, <2>5, <2>6, <2>7
<1> QED BY <1>1, <1>2, <1>3, <1>4, <1>5, <1>6 DEF AnswerKinds

LEMMA ParametersAreSeq ==
  ASSUME ncp_widths \in [status : 0 .. 4, tag : 0 .. 2, flags : 0 .. 1],
         NEW layout \in Seq(AnswerKinds), NEW values, Fits(layout, values)
  PROVE  IsSeq(NcpParameters(layout, values))
<1> DEFINE parts == [i \in 1 .. Len(layout) |-> NcpField(layout[i], values[i])]
<1>1. Len(layout) \in Nat
  OBVIOUS
<1>2. \A i \in 1 .. Len(layout) : IsSeq(parts[i])
  BY FieldIsSeq DEF Fits
<1>3. IsSeq(parts) /\ Len(parts) = Len(layout)
  <2>1. parts \in Seq({parts[i] : i \in 1 .. Len(layout)})
    BY <1>1
  <2>2. Len(parts) = Len(layout)
    BY <1>1
  <2> QED BY <2>1, <2>2, IsSeqOf
<1>4. NcpParameters(layout, values) = FlattenSeq(parts)
  BY DEF NcpParameters
<1> HIDE DEF parts
<1> QED BY <1>2, <1>3, <1>4, FlattenIsSeq

\* The layouts of the answers, one by one.
LEMMA AnswerLayouts ==
  /\ <<>> \in Seq(AnswerKinds) /\ <<"status">> \in Seq(AnswerKinds)
  /\ <<"u8">> \in Seq(AnswerKinds) /\ <<"eui64">> \in Seq(AnswerKinds)
  /\ <<"u32">> \in Seq(AnswerKinds) /\ <<"u8", "u8", "u16">> \in Seq(AnswerKinds)
  /\ <<"status", "u8">> \in Seq(AnswerKinds) /\ <<"status", "u16">> \in Seq(AnswerKinds)
  /\ <<"status", "bytes">> \in Seq(AnswerKinds) /\ <<"key", "u32">> \in Seq(AnswerKinds)
  /\ <<"u32", "bool", "bool", "u8", "u8", "u32">> \in Seq(AnswerKinds)
  /\ <<"status", "u8">> \o NetworkParameters \in Seq(AnswerKinds)
<1>1. /\ "u8" \in AnswerKinds /\ "i8" \in AnswerKinds /\ "u16" \in AnswerKinds
      /\ "u32" \in AnswerKinds /\ "bool" \in AnswerKinds /\ "eui64" \in AnswerKinds
      /\ "pan" \in AnswerKinds /\ "key" \in AnswerKinds /\ "status" \in AnswerKinds
      /\ "bytes" \in AnswerKinds
  BY DEF AnswerKinds
<1>2. <<"status", "u8">> \in Seq(AnswerKinds) /\ NetworkParameters \in Seq(AnswerKinds)
  BY <1>1 DEF NetworkParameters
<1>3. <<"status", "u8">> \o NetworkParameters \in Seq(AnswerKinds)
  BY <1>2
<1>4. /\ <<>> \in Seq(AnswerKinds) /\ <<"status">> \in Seq(AnswerKinds)
      /\ <<"u8">> \in Seq(AnswerKinds) /\ <<"eui64">> \in Seq(AnswerKinds)
      /\ <<"u32">> \in Seq(AnswerKinds) /\ <<"u8", "u8", "u16">> \in Seq(AnswerKinds)
  BY <1>1
<1>5. /\ <<"status", "u16">> \in Seq(AnswerKinds) /\ <<"status", "bytes">> \in Seq(AnswerKinds)
      /\ <<"key", "u32">> \in Seq(AnswerKinds)
      /\ <<"u32", "bool", "bool", "u8", "u8", "u32">> \in Seq(AnswerKinds)
  BY <1>1
<1> QED BY <1>2, <1>3, <1>4, <1>5

LEMMA CommandLayouts ==
  ASSUME NEW c \in AllCommands
  PROVE  c.id \in Nat /\ c.response \in Seq(AnswerKinds)
<1>1. c.id \in Nat
  BY DEF AllCommands, Command, Version, GetEui64, NetworkInit, PermitJoining, SetConfigurationValue,
     SetPolicy, AddEndpoint, SendUnicast, ImportTransientKey, GetConfigurationValue, GetValue,
     SetManufacturerCode, ClearTransientLinkKeys, GetNetworkParameters, SetInitialSecurityState,
     FormNetwork, ExportKey, SendBroadcast, NetworkState, SendMulticast, GetNetworkKeyInfo
<1>2. c \in {Version, GetEui64, NetworkInit, PermitJoining, SetConfigurationValue, SetPolicy, AddEndpoint} => c.response \in Seq(AnswerKinds)
  <2>1. Version.response = <<"u8", "u8", "u16">>
    BY DEF Version, Command
  <2>2. GetEui64.response = <<"eui64">>
    BY DEF GetEui64, Command
  <2>3. NetworkInit.response = <<"status">>
    BY DEF NetworkInit, Command
  <2>4. PermitJoining.response = <<"status">>
    BY DEF PermitJoining, Command
  <2>5. SetConfigurationValue.response = <<"status">>
    BY DEF SetConfigurationValue, Command
  <2>6. SetPolicy.response = <<"status">>
    BY DEF SetPolicy, Command
  <2>7. AddEndpoint.response = <<"status">>
    BY DEF AddEndpoint, Command
  <2> QED BY <2>1, <2>2, <2>3, <2>4, <2>5, <2>6, <2>7, AnswerLayouts
<1>3. c \in {SendUnicast, ImportTransientKey, GetConfigurationValue, GetValue, SetManufacturerCode, ClearTransientLinkKeys} => c.response \in Seq(AnswerKinds)
  <2>1. SendUnicast.response = <<"status", "u8">>
    BY DEF SendUnicast, Command
  <2>2. ImportTransientKey.response = <<"u32">>
    BY DEF ImportTransientKey, Command
  <2>3. GetConfigurationValue.response = <<"status", "u16">>
    BY DEF GetConfigurationValue, Command
  <2>4. GetValue.response = <<"status", "bytes">>
    BY DEF GetValue, Command
  <2>5. SetManufacturerCode.response = <<>>
    BY DEF SetManufacturerCode, Command
  <2>6. ClearTransientLinkKeys.response = <<>>
    BY DEF ClearTransientLinkKeys, Command
  <2> QED BY <2>1, <2>2, <2>3, <2>4, <2>5, <2>6, AnswerLayouts
<1>4. c \in {GetNetworkParameters, SetInitialSecurityState, FormNetwork, ExportKey} => c.response \in Seq(AnswerKinds)
  <2>1. GetNetworkParameters.response = <<"status", "u8">> \o NetworkParameters
    BY DEF GetNetworkParameters, Command
  <2>2. SetInitialSecurityState.response = <<"status">>
    BY DEF SetInitialSecurityState, Command
  <2>3. FormNetwork.response = <<"status">>
    BY DEF FormNetwork, Command
  <2>4. ExportKey.response = <<"key", "u32">>
    BY DEF ExportKey, Command
  <2> QED BY <2>1, <2>2, <2>3, <2>4, AnswerLayouts
<1>5. c \in {SendBroadcast, NetworkState, SendMulticast, GetNetworkKeyInfo} => c.response \in Seq(AnswerKinds)
  <2>1. SendBroadcast.response = <<"status", "u8">>
    BY DEF SendBroadcast, Command
  <2>2. NetworkState.response = <<"u8">>
    BY DEF NetworkState, Command
  <2>3. SendMulticast.response = <<"status", "u8">>
    BY DEF SendMulticast, Command
  <2>4. GetNetworkKeyInfo.response = <<"u32", "bool", "bool", "u8", "u8", "u32">>
    BY DEF GetNetworkKeyInfo, Command
  <2> QED BY <2>1, <2>2, <2>3, <2>4, AnswerLayouts
<1> QED BY <1>1, <1>2, <1>3, <1>4, <1>5 DEF AllCommands

LEMMA CallbackLayouts ==
  ASSUME NEW frame_id \in KnownCallbacks
  PROVE  CallbackLayout(frame_id) \in Seq(AnswerKinds)
<1>1. /\ "u8" \in AnswerKinds /\ "i8" \in AnswerKinds /\ "u16" \in AnswerKinds
      /\ "eui64" \in AnswerKinds /\ "status" \in AnswerKinds
      /\ "tag" \in AnswerKinds /\ "bytes" \in AnswerKinds
  BY DEF AnswerKinds
<1>2. ApsFrame \in Seq(AnswerKinds)
  BY <1>1 DEF ApsFrame
<1> DEFINE sentFront == <<"u8", "u16">>
           sentBack == <<"tag", "status", "bytes">>
           heardFront == <<"u8">>
           heardBack == <<"u8", "i8", "u16", "u8", "u8", "bytes">>
<1>3. /\ sentFront \in Seq(AnswerKinds) /\ sentBack \in Seq(AnswerKinds)
      /\ heardFront \in Seq(AnswerKinds) /\ heardBack \in Seq(AnswerKinds)
      /\ <<"status">> \in Seq(AnswerKinds)
      /\ <<"u16", "eui64", "u8", "u8", "u16">> \in Seq(AnswerKinds)
  BY <1>1
<1>4. /\ frame_id = STACK_STATUS_HANDLER => CallbackLayout(frame_id) = <<"status">>
      /\ frame_id = TRUST_CENTER_JOIN_HANDLER =>
            CallbackLayout(frame_id) = <<"u16", "eui64", "u8", "u8", "u16">>
      /\ frame_id = MESSAGE_SENT_HANDLER => CallbackLayout(frame_id) = sentFront \o ApsFrame \o sentBack
      /\ frame_id = INCOMING_MESSAGE_HANDLER =>
            CallbackLayout(frame_id) = heardFront \o ApsFrame \o heardBack
  BY SMTT(30) DEF CallbackLayout, STACK_STATUS_HANDLER, TRUST_CENTER_JOIN_HANDLER, MESSAGE_SENT_HANDLER,
         INCOMING_MESSAGE_HANDLER
<1> HIDE DEF sentFront, sentBack, heardFront, heardBack
<1>5. /\ sentFront \o ApsFrame \o sentBack \in Seq(AnswerKinds)
      /\ heardFront \o ApsFrame \o heardBack \in Seq(AnswerKinds)
  BY <1>2, <1>3
<1> QED BY <1>3, <1>4, <1>5 DEF KnownCallbacks

-----------------------------------------------------------------------------
(* Wrapping *)

LEMMA Remainder ==
  ASSUME NEW x \in Int, NEW m \in Nat \ {0}, m = SEQUENCE_SPACE
  PROVE  \E q \in Int, r \in 0 .. (m - 1) : r = x % SEQUENCE_SPACE /\ x = m * q + r
<1> DEFINE q == x \div m
           r == x % m
<1>1. r = x - m * q /\ q \in Int /\ r \in 0 .. (m - 1)
  OBVIOUS
<1>2. r = x % SEQUENCE_SPACE
  OBVIOUS
<1> HIDE DEF q, r
<1>3. x = m * q + r
  BY <1>1
<1> QED BY <1>1, <1>2, <1>3

LEMMA RemainderIsUnique ==
  ASSUME NEW q \in Int, NEW r \in 0 .. (SEQUENCE_SPACE - 1), NEW x \in Int,
         x = SEQUENCE_SPACE * q + r
  PROVE  x % SEQUENCE_SPACE = r
<1>1. PICK m \in Nat \ {0} : m = SEQUENCE_SPACE
  BY SequenceSpaceAssumption
<1>2. PICK p \in Int, t \in 0 .. (m - 1) : t = x % SEQUENCE_SPACE /\ x = m * p + t
  BY <1>1, Remainder
<1>3. m * (p - q) = r - t /\ r - t < m /\ t - r < m
  BY <1>1, <1>2
<1>4. CASE p - q >= 1
  <2>1. m * (p - q) >= m
    BY <1>4
  <2> QED BY <1>3, <2>1, <1>1, <1>2
<1>5. CASE p - q <= -1
  <2>1. m * (p - q) <= -m
    BY <1>5
  <2> QED BY <1>3, <2>1, <1>1, <1>2
<1>6. CASE p - q = 0
  <2>1. m * (p - q) = 0
    BY <1>6
  <2> QED BY <1>2, <1>3, <2>1, <1>1
<1> QED BY <1>4, <1>5, <1>6

\* The counter advances with the number of commands.
LEMMA WrapSuccessor ==
  ASSUME NEW n \in Nat
  PROVE  ((n % SEQUENCE_SPACE) + 1) % SEQUENCE_SPACE = (n + 1) % SEQUENCE_SPACE
<1>1. PICK m \in Nat \ {0} : m = SEQUENCE_SPACE
  BY SequenceSpaceAssumption
<1>2. PICK q \in Int, r \in 0 .. (m - 1) : r = n % SEQUENCE_SPACE /\ n = m * q + r
  <2>1. n \in Int
    OBVIOUS
  <2> QED BY <1>1, <2>1, Remainder, Zenon
<1>3. CASE r + 1 < m
  <2>1. r + 1 = m * 0 + (r + 1) /\ n + 1 = m * q + (r + 1) /\ r + 1 \in 0 .. (m - 1)
    BY <1>2, <1>3
  <2>2. (r + 1) % SEQUENCE_SPACE = r + 1 /\ (n + 1) % SEQUENCE_SPACE = r + 1
    BY <1>1, <2>1, RemainderIsUnique
  <2> QED BY <1>2, <2>2
<1>4. CASE ~(r + 1 < m)
  <2>1. r + 1 = m * 1 + 0 /\ n + 1 = m * (q + 1) + 0 /\ 0 \in 0 .. (m - 1) /\ q + 1 \in Int
    BY <1>2, <1>4
  <2>2. (r + 1) % SEQUENCE_SPACE = 0
    BY <1>1, <2>1, RemainderIsUnique
  <2>3. (n + 1) % SEQUENCE_SPACE = 0
    BY <1>1, <2>1, RemainderIsUnique
  <2> QED BY <1>2, <2>2, <2>3
<1> QED BY <1>3, <1>4

\* Commands with one number are whole wraps apart.
LEMMA SameNumberWholeWraps ==
  ASSUME NEW j \in Nat, NEW k \in Nat, Numbered(j) = Numbered(k)
  PROVE  (j - k) % SEQUENCE_SPACE = 0
<1>1. PICK m \in Nat \ {0} : m = SEQUENCE_SPACE
  BY SequenceSpaceAssumption
<1>2. PICK p \in Int : j - 1 = m * p + Numbered(j) /\ Numbered(j) \in Int
  <2>1. j - 1 \in Int
    OBVIOUS
  <2>2. PICK p \in Int, r \in 0 .. (m - 1) : r = (j - 1) % SEQUENCE_SPACE /\ j - 1 = m * p + r
    BY <1>1, <2>1, Remainder
  <2>3. r = Numbered(j) /\ r \in Int
    BY <2>2 DEF Numbered
  <2> QED BY <2>2, <2>3, Zenon
<1>3. PICK q \in Int : k - 1 = m * q + Numbered(k)
  <2>1. k - 1 \in Int
    OBVIOUS
  <2>2. PICK q \in Int, r \in 0 .. (m - 1) : r = (k - 1) % SEQUENCE_SPACE /\ k - 1 = m * q + r
    BY <1>1, <2>1, Remainder
  <2>3. r = Numbered(k)
    BY <2>2, Zenon DEF Numbered
  <2> QED BY <2>2, <2>3, Zenon
<1>4. j - k = m * (p - q) + 0 /\ p - q \in Int /\ j - k \in Int /\ 0 \in 0 .. (m - 1)
  BY <1>2, <1>3
<1> QED BY <1>1, <1>4, RemainderIsUnique

-----------------------------------------------------------------------------
(* A frame on the line *)

LEMMA ShapeOfItem ==
  ASSUME NEW of, NEW format, NEW sequence, NEW control \in Nat, NEW frame_id, NEW values,
         NEW parameters, IsSeq(parameters),
         NEW item, item \in NcpShapes(of, format, sequence, control, frame_id, values, parameters).whole
                \/ item \in NcpShapes(of, format, sequence, control, frame_id, values, parameters).misshapen
  PROVE  /\ item.of = of /\ item.frame_id = frame_id
         /\ item.bytes[1] = sequence /\ item.bytes[2] \in {control, control + 2}
         /\ format = "Legacy" => item.bytes[3] = frame_id
         /\ format # "Legacy" /\ frame_id \in Nat => u16_of(SubSeq(item.bytes, 4, 5)) = frame_id
<1>1. PICK c, p :
        /\ c \in {control, control + 2} /\ IsSeq(p)
        /\ item.of = of /\ item.frame_id = frame_id
        /\ item.bytes = NcpHeader(format, sequence, c, frame_id) \o p
  <2>1. IsSeq(Append(parameters, 7))
    BY AppendIsSeq
  <2>2. \A n \in 0 .. (Len(parameters) - 1) : IsSeq(SubSeq(parameters, 1, n))
    BY PrefixIsSeq DEF IsSeq
  <2> DEFINE Item(shape, c, p) ==
               [bytes |-> NcpHeader(format, sequence, c, frame_id) \o p, of |-> of,
                frame_id |-> frame_id, values |-> values, shape |-> shape]
  <2>3. \/ item = Item("whole", control, parameters)
        \/ item = Item("extra", control, Append(parameters, 7))
        \/ \E n \in 0 .. (Len(parameters) - 1) :
              item = Item("cut", control + 2, SubSeq(parameters, 1, n))
    BY DEF NcpShapes
  <2>4. control \in {control, control + 2} /\ control + 2 \in {control, control + 2}
    OBVIOUS
  <2>5. CASE item = Item("whole", control, parameters)
    <3>1. /\ item.of = of /\ item.frame_id = frame_id
          /\ item.bytes = NcpHeader(format, sequence, control, frame_id) \o parameters
      BY <2>5
    <3> QED BY <2>4, <3>1
  <2>6. CASE item = Item("extra", control, Append(parameters, 7))
    <3>1. /\ item.of = of /\ item.frame_id = frame_id
          /\ item.bytes = NcpHeader(format, sequence, control, frame_id) \o Append(parameters, 7)
      BY <2>6
    <3> QED BY <2>1, <2>4, <3>1
  <2>7. ASSUME NEW n \in 0 .. (Len(parameters) - 1),
               item = Item("cut", control + 2, SubSeq(parameters, 1, n))
        PROVE  \E c, p :
                  /\ c \in {control, control + 2} /\ IsSeq(p)
                  /\ item.of = of /\ item.frame_id = frame_id
                  /\ item.bytes = NcpHeader(format, sequence, c, frame_id) \o p
    <3>1. /\ item.of = of /\ item.frame_id = frame_id
          /\ item.bytes = NcpHeader(format, sequence, control + 2, frame_id) \o SubSeq(parameters, 1, n)
      BY <2>7
    <3> QED BY <2>2, <2>4, <3>1
  <2> HIDE DEF Item
  <2> QED BY <2>3, <2>5, <2>6, <2>7
<1>2. CASE format = "Legacy"
  <2> DEFINE header == <<sequence, c, frame_id>>
  <2>1. IsSeq(header) /\ Len(header) = 3
    BY TuplesAreSeqs
  <2>2. item.bytes = header \o p
    BY <1>1, <1>2 DEF NcpHeader
  <2>3. header[1] = sequence /\ header[2] = c /\ header[3] = frame_id
    OBVIOUS
  <2> HIDE DEF header
  <2>4. \A i \in 1 .. 3 : item.bytes[i] = header[i]
    <3>1. \A i \in 1 .. Len(header) : (header \o p)[i] = header[i]
      BY <1>1, <2>1, ConcatIsSeq, ZenonT(30)
    <3> QED BY <2>1, <2>2, <3>1, Zenon
  <2>5. item.bytes[1] = sequence /\ item.bytes[2] = c /\ item.bytes[3] = frame_id
    BY <2>3, <2>4
  <2> QED BY <1>1, <1>2, <2>5
<1>3. CASE format # "Legacy"
  <2> DEFINE low == frame_id % 256
             high == frame_id \div 256
             front == <<sequence, c, 1>>
             back == <<low, high>>
             header == front \o back
  <2>1. IsSeq(front) /\ IsSeq(back) /\ NcpHeader(format, sequence, c, frame_id) = header
    BY <1>3, TuplesAreSeqs DEF NcpHeader, u16_bytes
  <2>2. /\ Len(front) = 3 /\ front[1] = sequence /\ front[2] = c
        /\ Len(back) = 2 /\ back[1] = low /\ back[2] = high
    OBVIOUS
  <2> HIDE DEF front, back
  <2>3. /\ IsSeq(header)
        /\ Len(header) = 5 /\ header[1] = sequence /\ header[2] = c /\ header[4] = low /\ header[5] = high
    <3>1. /\ IsSeq(header) /\ Len(header) = Len(front) + Len(back)
          /\ \A i \in 1 .. Len(front) : header[i] = front[i]
          /\ \A i \in 1 .. Len(back) : header[Len(front) + i] = back[i]
      <4>1. IsSeq(front) /\ IsSeq(back)
        BY <2>1
      <4> QED BY <4>1, ConcatIsSeq
    <3> HIDE DEF header, low, high
    <3>2. Len(header) = 5 /\ header[1] = front[1] /\ header[2] = front[2]
      BY <2>2, <3>1
    <3>3. header[3 + 1] = back[1] /\ header[3 + 2] = back[2]
      BY <2>2, <3>1
    <3> QED BY <2>2, <3>1, <3>2, <3>3
  <2>4. ASSUME frame_id \in Nat
        PROVE  low + 256 * high = frame_id
    <3>1. (frame_id % 256) + 256 * (frame_id \div 256) = frame_id
      BY <2>4
    <3> QED BY <3>1
  <2> HIDE DEF header, low, high
  <2>5. IsSeq(header) /\ item.bytes = header \o p
    BY <1>1, <2>1, <2>3
  <2>6. IsSeq(item.bytes) /\ Len(item.bytes) >= 5 /\ \A i \in 1 .. 5 : item.bytes[i] = header[i]
    <3>1. Len(p) \in Nat
      BY <1>1 DEF IsSeq
    <3>2. /\ IsSeq(header \o p) /\ Len(header \o p) = Len(header) + Len(p)
          /\ \A i \in 1 .. Len(header) : (header \o p)[i] = header[i]
      BY <1>1, <2>5, ConcatIsSeq, Zenon
    <3>3. Len(header \o p) >= 5
      BY <2>3, <3>1, <3>2
    <3> QED BY <2>3, <2>5, <3>2, <3>3, Zenon
  <2>7. u16_of(SubSeq(item.bytes, 4, 5)) = item.bytes[4] + 256 * item.bytes[5]
    <3>1. PICK b, U : b = item.bytes /\ b \in Seq(U)
      BY <2>6, SeqOver
    <3>2. SubSeq(b, 4, 5)[1] = b[4] /\ SubSeq(b, 4, 5)[2] = b[5]
      BY <2>6, <3>1
    <3> QED BY <3>1, <3>2, Zenon DEF u16_of
  <2>8. u16_of(SubSeq(item.bytes, 4, 5)) = low + 256 * high
    BY <2>3, <2>6, <2>7
  <2> QED BY <1>1, <1>3, <2>3, <2>4, <2>6, <2>8
<1> QED BY <1>2, <1>3

\* Whatever it costs, one frame is written.
LEMMA SendsAnItem ==
  ASSUME NEW shapes, NEW cost, NcpSends(shapes, cost)
  PROVE  \E item : (item \in shapes.whole \/ item \in shapes.misshapen) /\ line' = Append(line, item)
BY DEF NcpSends

-----------------------------------------------------------------------------
(* The NCP's steps *)

\* What the NCP answers fits the layout of the answer.
LEMMA AnswerFits ==
  ASSUME NEW c \in AllCommands, NEW values \in NcpValues(c)
  PROVE  Fits(c.response, values)
<1>1. CASE c = Version
  <2>1. Version.response = <<"u8", "u8", "u16">>
    BY DEF Version, Command
  <2>2. values = <<ncp_version, ncp_stack_type, 29760>>
    BY <1>1 DEF NcpValues
  <2> DEFINE layout == <<"u8", "u8", "u16">>
  <2>3. Len(layout) = 3 /\ \A i \in 1 .. 3 : layout[i] \in {"u8", "u16"}
    OBVIOUS
  <2>4. Len(values) = 3
    BY <2>2
  <2>5. c.response = layout
    BY <1>1, <2>1
  <2> HIDE DEF layout
  <2> QED BY <2>3, <2>4, <2>5 DEF Fits
<1>2. CASE c # Version
  BY <1>2, SessionAssumption DEF NcpValues
<1> QED BY <1>1, <1>2

\* What a step of the NCP leaves alone.
NcpLeaves ==
    UNCHANGED <<corrVars, connecting, version, taskVars, hostVars, ncp_version, ncp_stack_type,
                ncp_widths, historyVars, issued>>

\* A frame more on the line, and a command fewer or as many to answer.
LEMMA NcpKeepsTypes ==
  ASSUME SessionTypes, NcpLeaves, NEW item, line' = Append(line, item), IsSeq(owed')
  PROVE  SessionTypes' /\ IsSeq(line')
<1>1. IsSeq(line')
  BY AppendIsSeq DEF SessionTypes
<1>2. UNCHANGED <<pending, next_sequence_number, connecting, pc, op, chunk, response, refused, issued,
                  ncp_widths>>
  BY DEF NcpLeaves, corrVars, taskVars, hostVars, historyVars
<1>3. SessionTypeOK'
  BY <1>2 DEF SessionTypes, SessionTypeOK
<1> QED BY <1>1, <1>2, <1>3 DEF SessionTypes, IsOption, IsSeq

\* The parts that do not look at the line.
LEMMA NcpKeepsRest ==
  ASSUME Orderly, NcpLeaves
  PROVE  SlotIsHeld' /\ CommandsAreNumbered' /\ AnswersMatch'
BY DEF Orderly, NcpLeaves, corrVars, taskVars, hostVars, historyVars, SlotIsHeld,
       CommandsAreNumbered, AnswersMatch, AnswersAsked, Numbered

\* A frame more at the end of a line whose frames are in order.
LEMMA LongerLineOK ==
  ASSUME NEW s, IsSeq(s), NEW stage, NEW item, NEW t, t = Append(s, item),
         \A i \in 1 .. Len(s) : ItemOK(s[i], stage), ItemOK(item, stage)
  PROVE  \A i \in 1 .. Len(t) : ItemOK(t[i], stage)
<1>1. /\ Len(s) \in Nat /\ Len(t) = Len(s) + 1 /\ t[Len(s) + 1] = item
      /\ \A i \in 1 .. Len(s) : t[i] = s[i]
  BY AppendIsSeq DEF IsSeq
<1>2. PICK n \in Nat : n = Len(s)
  BY <1>1
<1>3. SUFFICES ASSUME NEW i \in 1 .. (n + 1)
               PROVE  ItemOK(t[i], stage)
  BY <1>1, <1>2
<1>4. CASE i = n + 1
  BY <1>1, <1>2, <1>4
<1>5. CASE i \in 1 .. n
  BY <1>1, <1>2, <1>5
<1>6. i = n + 1 \/ i \in 1 .. n
  OBVIOUS
<1> QED BY <1>4, <1>5, <1>6, Zenon

\* The answer to a command of this stage of connect.
LEMMA AnswerItemOK ==
  ASSUME NEW stage, NEW q, OwedOK(q, stage), NEW values, NEW parameters, IsSeq(parameters), NEW item,
         item \in NcpShapes(q.token, q.format, q.sequence, 128, q.command.id, values, parameters).whole
         \/ item \in NcpShapes(q.token, q.format, q.sequence, 128, q.command.id, values,
                               parameters).misshapen
  PROVE  ItemOK(item, stage) /\ item.of # 0
<1>1. q.command.id \in Nat
  BY CommandLayouts DEF OwedOK
<1>2. /\ item.of = q.token /\ item.frame_id = q.command.id /\ item.bytes[1] = q.sequence
      /\ q.format = "Legacy" => item.bytes[3] = q.command.id
      /\ q.format # "Legacy" => u16_of(SubSeq(item.bytes, 4, 5)) = q.command.id
  BY <1>1, ShapeOfItem
<1> QED BY <1>2 DEF OwedOK, ItemOK

LEMMA CallbackItemOK ==
  ASSUME NEW stage, NEW sequence, NEW frame_id, NEW values, NEW parameters, IsSeq(parameters), NEW item,
         item \in NcpShapes(0, "Extended", sequence, 144, frame_id, values, parameters).whole
         \/ item \in NcpShapes(0, "Extended", sequence, 144, frame_id, values, parameters).misshapen
  PROVE  ItemOK(item, stage) /\ item.of = 0
<1>1. item.of = 0 /\ item.bytes[2] \in {144, 144 + 2}
  BY ShapeOfItem
<1>2. from_low_byte(144) = "Callback" /\ from_low_byte(144 + 2) = "Callback"
  BY DEF from_low_byte
<1> QED BY <1>1, <1>2 DEF ItemOK

LEMMA NcpAnswersInv ==
  ASSUME SessionInv, NcpAnswers
  PROVE  SessionInv'
<1> DEFINE q == Head(owed)
           Shapes(values) == NcpShapes(q.token, q.format, q.sequence, 128, q.command.id, values,
                                       NcpParameters(q.command.response, values))
<1>1. /\ SessionTypes /\ (~refused => Orderly) /\ owed # <<>> /\ owed' = Tail(owed) /\ NcpLeaves
  BY DEF SessionInv, NcpAnswers, NcpLeaves
<1>2. PICK values, item :
        /\ values \in NcpValues(q.command)
        /\ item \in Shapes(values).whole \/ item \in Shapes(values).misshapen
        /\ line' = Append(line, item)
  <2>1. PICK values \in NcpValues(q.command) : NcpSends(Shapes(values), 0)
    BY DEF NcpAnswers
  <2> HIDE DEF Shapes
  <2> QED BY <2>1, SendsAnItem
<1>3. /\ IsSeq(owed') /\ q = owed[1] /\ Len(owed) > 0 /\ Len(owed') = Len(owed) - 1
      /\ \A i \in 1 .. Len(owed') : owed'[i] = owed[i + 1]
  BY <1>1, TailIsSeq DEF SessionTypes
<1> HIDE DEF q
<1>4. SessionTypes' /\ IsSeq(line')
  BY <1>1, <1>2, <1>3, NcpKeepsTypes
<1>5. ASSUME ~refused'
      PROVE  Orderly'
  <2>1. Orderly /\ Len(owed) \in Nat /\ Len(line) \in Nat
    BY <1>1, <1>5 DEF NcpLeaves, historyVars, SessionTypes, IsSeq
  <2>2. SlotIsHeld' /\ CommandsAreNumbered' /\ AnswersMatch'
    BY <1>1, <2>1, NcpKeepsRest
  <2>3. UNCHANGED <<connecting, version, asked, initial_version_sent, issued, chunk, response, result>>
    BY <1>1 DEF NcpLeaves, taskVars, hostVars
  <2>4. connecting # "start"
    BY <1>1, <2>1 DEF Orderly, VersionIsSupported
  <2>5. VersionIsSupported'
    BY <2>1, <2>3, <2>4 DEF Orderly, VersionIsSupported
  <2>6. CASE connecting = "failed"
    BY <2>2, <2>3, <2>5, <2>6 DEF Orderly, LineOK, FirstAnswerLeads
  <2>7. CASE connecting # "failed"
    <3>1. OwedOK(q, connecting)
      BY <1>3, <2>1, <2>7 DEF Orderly, LineOK
    <3>2. IsSeq(NcpParameters(q.command.response, values))
      BY <1>1, <1>2, <3>1, AnswerFits, CommandLayouts, ParametersAreSeq DEF OwedOK, SessionTypes
    <3>3. ItemOK(item, connecting)
      BY <1>2, <3>1, <3>2, AnswerItemOK
    <3>4. \A i \in 1 .. Len(line') : ItemOK(line'[i], connecting)
      <4>1. IsSeq(line) /\ \A i \in 1 .. Len(line) : ItemOK(line[i], connecting)
        BY <1>1, <2>1, <2>7 DEF Orderly, LineOK, SessionTypes
      <4> QED BY <1>2, <3>3, <4>1, LongerLineOK
    <3>5. LineOK'
      <4>1. \A i \in 1 .. Len(owed') : OwedOK(owed'[i], connecting)
        BY <1>3, <2>1, <2>7 DEF Orderly, LineOK
      <4> QED BY <2>1, <2>3, <2>7, <3>4, <4>1 DEF Orderly, LineOK
    <3>6. FirstAnswerLeads'
      <4> SUFFICES ASSUME connecting = "first" PROVE FirstAnswerLeads'
        BY <2>3 DEF FirstAnswerLeads
      <4>1. /\ Len(owed) = 1 /\ line = <<>> /\ chunk = <<>> /\ response = <<>>
            /\ result.error # "none"
        BY <1>1, <2>1 DEF Orderly, FirstAnswerLeads
      <4>2. owed' = <<>>
        BY <1>3, <4>1 DEF IsSeq
      <4>3. Len(line') = 1
        BY <1>2, <4>1
      <4> QED BY <2>3, <4>1, <4>2, <4>3 DEF FirstAnswerLeads
    <3> QED BY <2>2, <2>5, <3>5, <3>6 DEF Orderly
  <2> QED BY <2>6, <2>7
<1> QED BY <1>4, <1>5 DEF SessionInv

LEMMA NcpCallsBackInv ==
  ASSUME SessionInv, NcpCallsBack
  PROVE  SessionInv'
<1> DEFINE sequence == IF pending # <<>> THEN pending[1].sequence ELSE 0
           Parameters(e) == IF e.frame_id \in KnownCallbacks
                            THEN NcpParameters(CallbackLayout(e.frame_id), e.values) ELSE e.values
           Shapes(e) == NcpShapes(0, "Extended", sequence, 144, e.frame_id, e.values, Parameters(e))
<1>1. /\ SessionTypes /\ (~refused => Orderly) /\ owed' = owed /\ NcpLeaves
      /\ issued > 0 /\ ~\E i \in 1 .. Len(owed) : owed[i].command = Version
  BY DEF SessionInv, NcpCallsBack, NcpLeaves
<1>2. PICK e, item :
        /\ e \in Events
        /\ item \in Shapes(e).whole \/ item \in Shapes(e).misshapen
        /\ line' = Append(line, item)
  <2>1. PICK e \in Events : NcpSends(Shapes(e), 1)
    BY DEF NcpCallsBack
  <2> HIDE DEF Shapes
  <2> QED BY <2>1, SendsAnItem
<1>3. IsSeq(Parameters(e))
  <2>1. CASE e.frame_id \in KnownCallbacks
    BY <1>1, <1>2, <2>1, SessionAssumption, CallbackLayouts, ParametersAreSeq DEF SessionTypes
  <2>2. CASE e.frame_id \notin KnownCallbacks
    BY <1>2, <2>2, SessionAssumption, IsSeqOf
  <2> QED BY <2>1, <2>2
<1> HIDE DEF sequence, Parameters
<1>4. \A stage : ItemOK(item, stage) /\ item.of = 0
  BY <1>2, <1>3, CallbackItemOK
<1>5. SessionTypes' /\ IsSeq(line')
  BY <1>1, <1>2, NcpKeepsTypes DEF SessionTypes
<1>6. ASSUME ~refused'
      PROVE  Orderly'
  <2>1. Orderly /\ IsSeq(owed) /\ IsSeq(line)
    BY <1>1, <1>6 DEF NcpLeaves, historyVars, SessionTypes
  <2>2. SlotIsHeld' /\ CommandsAreNumbered' /\ AnswersMatch'
    BY <1>1, <2>1, NcpKeepsRest
  <2>3. UNCHANGED <<connecting, version, asked, initial_version_sent, issued, chunk, response, result>>
    BY <1>1 DEF NcpLeaves, taskVars, hostVars
  <2>4. connecting # "start"
    BY <1>1, <2>1 DEF Orderly, VersionIsSupported
  <2>5. VersionIsSupported'
    BY <2>1, <2>3, <2>4 DEF Orderly, VersionIsSupported
  <2>6. LineOK'
    <3> SUFFICES ASSUME connecting # "failed" PROVE LineOK'
      BY <2>3 DEF LineOK
    <3>1. \A i \in 1 .. Len(line) : ItemOK(line[i], connecting)
      BY <2>1 DEF Orderly, LineOK
    <3>2. \A i \in 1 .. Len(line') : ItemOK(line'[i], connecting)
      BY <1>2, <1>4, <2>1, <3>1, LongerLineOK
    <3> QED BY <1>1, <2>1, <2>3, <3>2 DEF Orderly, LineOK
  <2>7. FirstAnswerLeads'
    <3> SUFFICES ASSUME connecting = "first" PROVE FirstAnswerLeads'
      BY <2>3 DEF FirstAnswerLeads
    <3>1. owed = <<>>
      <4>1. \A i \in 1 .. Len(owed) : owed[i].command = Version
        BY <2>1 DEF Orderly, LineOK, OwedOK
      <4>2. Len(owed) \in Nat /\ ~(Len(owed) > 0)
        BY <1>1, <2>1, <4>1 DEF IsSeq
      <4> QED BY <2>1, <4>2, TailIsSeq
    <3>2. PICK n \in Nat : n = Len(line)
      BY <2>1 DEF IsSeq
    <3>3. /\ Len(line') = n + 1 /\ line'[n + 1] = item
          /\ \A i \in 1 .. n : line'[i] = line[i]
      BY <1>2, <2>1, <3>2, AppendIsSeq
    <3>4. \A i \in 1 .. Len(line') : line'[i].of = 0 \/ (i \in 1 .. n /\ line'[i] = line[i])
      BY <1>4, <3>3
    <3> QED BY <1>1, <2>1, <2>3, <3>1, <3>2, <3>4 DEF Orderly, FirstAnswerLeads
  <2> QED BY <2>2, <2>5, <2>6, <2>7 DEF Orderly
<1> QED BY <1>5, <1>6 DEF SessionInv

-----------------------------------------------------------------------------
(* The host's steps *)

LEMMA NextNumberInRange ==
  ASSUME NEW n \in Sequence
  PROVE  (n + 1) % SEQUENCE_SPACE \in Sequence
BY SequenceSpaceAssumption DEF Sequence

\* A command keeps the types however it goes.
LEMMA SendTypes ==
  ASSUME SessionTypes, NEW command, NEW values, Send(command, values),
         connecting' \in {"first", "second", "up"}
  PROVE  SessionTypes'
<1>1. /\ pc = "idle" /\ op = "none" /\ chunk = <<>>
      /\ UNCHANGED <<chunk, response, line, ncp_widths>> /\ issued' = issued + 1
  BY DEF Send, SessionTypes, SessionTypeOK
<1>2. /\ (pc' = "idle" /\ op' = "none") \/ (pc' = "pump" /\ op' = "command")
      /\ IsSeq(owed') /\ refused' \in BOOLEAN
  <2>1. (pc' = "idle" /\ op' = "none") \/ (pc' = "pump" /\ op' = "command")
    <3>1. (\E r : Return(r)) \/ (pc' = "pump" /\ op' = "command")
      BY DEF Send
    <3> QED BY <3>1 DEF Return
  <2>2. refused' \in BOOLEAN
    BY DEF Send, SessionTypes
  <2>3. IsSeq(owed')
    <3>1. owed' = owed \/ \E q : owed' = Append(owed, q)
      BY DEF Send
    <3> QED BY <3>1, AppendIsSeq DEF SessionTypes
  <2> QED BY <2>1, <2>2, <2>3
<1>3. /\ IsOption(pending') /\ Len(pending') <= 1 /\ next_sequence_number' \in Sequence
      /\ \A i \in 1 .. Len(pending') : pending'[i].sequence \in 0 .. (SEQUENCE_SPACE - 1)
  <2>1. CASE UNCHANGED corrVars
    BY <2>1 DEF corrVars, SessionTypes, SessionTypeOK, IsOption
  <2>2. CASE begin(command.id)
    <3> DEFINE p == [sequence |-> next_sequence_number, frame_id |-> command.id]
    <3>1. pending' = <<p>> /\ next_sequence_number' = (next_sequence_number + 1) % SEQUENCE_SPACE
      BY <2>2 DEF begin
    <3>2. p.sequence \in 0 .. (SEQUENCE_SPACE - 1)
      BY DEF SessionTypes, Sequence
    <3> HIDE DEF p
    <3>3. next_sequence_number' \in Sequence
      BY <3>1, NextNumberInRange DEF SessionTypes
    <3>4. pending'[1] = p /\ Len(pending') = 1
      BY <3>1
    <3> QED BY <3>1, <3>2, <3>3, <3>4 DEF IsOption
  <2> QED BY <2>1, <2>2 DEF Send
<1>4. SessionTypeOK'
  BY <1>1, <1>2, <1>3 DEF SessionTypes, SessionTypeOK
<1> QED BY <1>1, <1>2, <1>3, <1>4 DEF SessionTypes, IsOption, IsSeq

\* A command that was not refused after begin was sent: no other refusal is left.
LEMMA SendEffect ==
  ASSUME SessionTypes, Orderly, NEW command \in AllCommands, NEW values, Send(command, values), ~refused'
  PROVE  /\ pending = <<>> /\ response = <<>> /\ chunk = <<>>
         /\ pending' = <<[sequence |-> next_sequence_number, frame_id |-> command.id]>>
         /\ next_sequence_number' = (next_sequence_number + 1) % SEQUENCE_SPACE
         /\ pending_format' = <<HeaderFormat(command)>>
         /\ initial_version_sent' = (initial_version_sent \/ HeaderFormat(command) = "Legacy")
         /\ op' = "command" /\ result' = Returned("Pending")
         /\ owed' = Append(owed, [command |-> command, token |-> issued + 1,
                                  format |-> HeaderFormat(command), sequence |-> next_sequence_number])
         /\ issued' = issued + 1
         /\ asked' = [command |-> command, values |-> values, token |-> issued + 1]
         /\ UNCHANGED <<version, chunk, response, line>>
<1>1. pending = <<>> /\ response = <<>> /\ chunk = <<>>
  BY DEF Send, SessionTypes, SessionTypeOK, Orderly, SlotIsHeld
<1>2. ~begin_refused /\ is_available(command, version)
  BY <1>1 DEF begin_refused, is_available, Orderly, VersionIsSupported
<1> QED BY <1>1, <1>2 DEF Send, begin

\* A command that is sent, at each of the places that send one.
LEMMA SendOrderly ==
  ASSUME SessionTypes, Orderly, NEW command \in AllCommands, NEW values, Send(command, values), ~refused',
         \/ connecting = "start" /\ connecting' = "first" /\ command = Version
         \/ /\ connecting = "first" /\ connecting' = "second" /\ result.error = "none"
            /\ is_supported(values[1])
         \/ connecting = "up" /\ connecting' = "up"
  PROVE  Orderly'
<1> DEFINE q == [command |-> command, token |-> issued + 1, format |-> HeaderFormat(command),
                 sequence |-> next_sequence_number]
           p == [sequence |-> next_sequence_number, frame_id |-> command.id]
           a == [command |-> command, values |-> values, token |-> issued + 1]
<1>1. /\ pending' = <<p>> /\ next_sequence_number' = (next_sequence_number + 1) % SEQUENCE_SPACE
      /\ pending_format' = <<HeaderFormat(command)>>
      /\ initial_version_sent' = (initial_version_sent \/ HeaderFormat(command) = "Legacy")
      /\ op' = "command" /\ result' = Returned("Pending") /\ owed' = Append(owed, q)
      /\ issued' = issued + 1 /\ asked' = a
      /\ version' = version /\ chunk = <<>> /\ chunk' = <<>> /\ response' = <<>> /\ line' = line
  BY SendEffect
<1>2. /\ q.command = command /\ q.token = issued + 1 /\ q.format = HeaderFormat(command)
      /\ q.sequence = next_sequence_number
      /\ p.sequence = next_sequence_number /\ p.frame_id = command.id
      /\ a.command = command /\ a.values = values /\ a.token = issued + 1
  OBVIOUS
<1> HIDE DEF q, p, a
<1>3. HeaderFormat(command) = IF connecting' = "first" THEN "Legacy" ELSE "Extended"
  BY DEF HeaderFormat, Orderly, VersionIsSupported
<1>4. /\ issued \in Nat /\ next_sequence_number = issued % SEQUENCE_SPACE
      /\ IsSeq(owed) /\ IsSeq(line)
  BY DEF SessionTypes, Orderly, CommandsAreNumbered
<1>5. next_sequence_number = Numbered(issued + 1)
  <2>1. (issued + 1) - 1 = issued
    BY <1>4
  <2> QED BY <1>4, <2>1 DEF Numbered
<1>6. SlotIsHeld'
  BY <1>1 DEF SlotIsHeld
<1>7. CommandsAreNumbered'
  <2>1. next_sequence_number' = issued' % SEQUENCE_SPACE
    BY <1>1, <1>4, WrapSuccessor, Zenon
  <2>2. pending'[1] = p
    BY <1>1
  <2>3. asked'.token = issued' /\ pending'[1].sequence = Numbered(issued')
    BY <1>1, <1>2, <1>5, <2>2, Zenon
  <2>4. pending'[1].frame_id = asked'.command.id
    BY <1>1, <1>2, <2>2, Zenon
  <2>5. pending_format' = <<IF connecting' = "first" THEN "Legacy" ELSE "Extended">>
    BY <1>1, <1>3
  <2>6. Numbered(issued)' = Numbered(issued')
    BY DEF Numbered
  <2> QED BY <2>1, <2>3, <2>4, <2>5, <2>6 DEF CommandsAreNumbered
<1>8. VersionIsSupported'
  <2>1. is_supported(version) /\ is_supported(version)' = is_supported(version)
    BY <1>1 DEF Orderly, VersionIsSupported, is_supported
  <2>2. initial_version_sent' = TRUE
    BY <1>1, <1>3 DEF Orderly, VersionIsSupported
  <2>3. connecting' = "second" => is_supported(asked.values[1])'
    BY <1>1, <1>2 DEF is_supported
  <2>4. connecting' = "first" => issued' = 1
    BY <1>1, <1>4 DEF Orderly, VersionIsSupported
  <2> QED BY <2>1, <2>2, <2>3, <2>4 DEF VersionIsSupported
<1>9. OwedOK(q, connecting')
  BY <1>2, <1>3, <1>4, <1>5 DEF OwedOK
<1>10. /\ Len(owed) \in Nat /\ Len(owed') = Len(owed) + 1 /\ owed'[Len(owed) + 1] = q
       /\ \A i \in 1 .. Len(owed) : owed'[i] = owed[i]
  BY <1>1, <1>4, AppendIsSeq DEF IsSeq
<1>11. LineOK'
  <2>1. \A i \in 1 .. Len(line) : ItemOK(line[i], connecting')
    <3>1. CASE connecting = "start"
      <4>1. Len(line) = 0
        BY <3>1 DEF Orderly, VersionIsSupported
      <4> QED BY <4>1
    <3>2. CASE connecting = "first"
      BY <3>2 DEF Orderly, FirstAnswerLeads, LineOK, ItemOK
    <3>3. CASE connecting = "up"
      BY <3>3 DEF Orderly, LineOK
    <3> QED BY <3>1, <3>2, <3>3
  <2>2. \A i \in 1 .. Len(owed) : OwedOK(owed[i], connecting')
    <3>1. CASE connecting \in {"start", "first"}
      <4>1. Len(owed) = 0
        BY <3>1 DEF Orderly, VersionIsSupported, FirstAnswerLeads
      <4> QED BY <4>1
    <3>2. CASE connecting = "up"
      BY <3>2 DEF Orderly, LineOK
    <3> QED BY <3>1, <3>2
  <2>3. \A i \in 1 .. Len(owed') : OwedOK(owed'[i], connecting')
    <3>1. PICK n \in Nat : n = Len(owed)
      BY <1>10
    <3>2. \A i \in 1 .. (n + 1) : i \in 1 .. n \/ i = n + 1
      OBVIOUS
    <3> QED BY <1>9, <1>10, <2>2, <3>1, <3>2, Zenon
  <2>4. Len(chunk') = 0
    BY <1>1
  <2> QED BY <1>1, <2>1, <2>3, <2>4 DEF LineOK
<1>12. FirstAnswerLeads'
  <2> SUFFICES ASSUME connecting' = "first" PROVE FirstAnswerLeads'
    BY DEF FirstAnswerLeads
  <2>1. line = <<>> /\ Len(owed) = 0
    BY DEF Orderly, VersionIsSupported
  <2>2. Len(owed') = 1 /\ Len(line') = 0 /\ Len(chunk') = 0
    BY <1>1, <1>10, <2>1
  <2>3. result'.error = "Pending"
    BY <1>1 DEF Returned
  <2> QED BY <1>1, <2>1, <2>2, <2>3 DEF FirstAnswerLeads
<1>13. AnswersMatch'
  <2>1. result'.from.of = 0
    BY <1>1 DEF Returned, NoItem
  <2> QED BY <1>1, <2>1 DEF AnswersMatch
<1> QED BY <1>6, <1>7, <1>8, <1>11, <1>12, <1>13 DEF Orderly

LEMMA SendersInv ==
  ASSUME SessionInv, ConnectOffers \/ ConnectAgrees \/ AppCommands
  PROVE  SessionInv'
<1>1. SessionTypes /\ (~refused => Orderly) /\ Version \in AllCommands
  BY DEF SessionInv, AllCommands
<1>2. \A command, values : Send(command, values) => (~refused' => ~refused)
  BY ZenonT(30) DEF Send
<1>3. CASE ConnectOffers
  BY <1>1, <1>2, <1>3, SendTypes, SendOrderly DEF ConnectOffers, SessionInv
<1>4. CASE ConnectAgrees
  <2> DEFINE values == <<result.values[1]>>
  <2>1. /\ Send(Version, values) /\ connecting = "first" /\ connecting' = "second"
        /\ result.error = "none" /\ is_supported(values[1])
    BY <1>4 DEF ConnectAgrees, Offered
  <2> HIDE DEF values
  <2> QED BY <1>1, <1>2, <2>1, SendTypes, SendOrderly DEF SessionInv
<1>5. CASE AppCommands
  <2>1. PICK r \in Requests : Send(r.command, r.values)
    BY <1>5, SessionAssumption DEF AppCommands
  <2>2. r.command \in AllCommands
    BY SessionAssumption
  <2> QED BY <1>1, <1>2, <1>5, <2>1, <2>2, SendTypes, SendOrderly DEF AppCommands, SessionInv
<1> QED BY <1>3, <1>4, <1>5

LEMMA ConnectReturnsInv ==
  ASSUME SessionInv, ConnectReturns
  PROVE  SessionInv'
<1>1. /\ SessionTypes /\ (~refused => Orderly) /\ pc = "idle" /\ op = "none"
      /\ UNCHANGED <<corrVars, taskVars, hostVars, ncpVars, historyVars, boundVars>>
  BY DEF SessionInv, ConnectReturns, SessionTypes, SessionTypeOK
<1>2. /\ UNCHANGED <<pending, next_sequence_number, pc, op, chunk, asked, result, response,
                     initial_version_sent, pending_format>>
      /\ UNCHANGED <<line, owed, ncp_widths, refused, issued>>
  BY <1>1 DEF corrVars, taskVars, hostVars, ncpVars, historyVars, boundVars
<1>3. \/ /\ connecting' = "up" /\ version' = result.values[1] /\ result.error = "none"
         /\ \/ connecting = "first" /\ version' = PREFERRED
            \/ connecting = "second" /\ version' = asked.values[1]
      \/ connecting \in {"first", "second"} /\ connecting' = "failed" /\ version' = version
  BY DEF ConnectReturns, Offered
<1>4. SessionTypes'
  <2>1. SessionTypeOK'
    BY <1>1, <1>2, <1>3 DEF SessionTypes, SessionTypeOK
  <2> QED BY <1>1, <1>2, <1>3, <2>1 DEF SessionTypes, IsSeq, IsOption
<1>5. ASSUME ~refused'
      PROVE  Orderly'
  <2>1. Orderly /\ pending = <<>>
    BY <1>1, <1>2, <1>5 DEF Orderly, SlotIsHeld
  <2>2. SlotIsHeld' /\ CommandsAreNumbered' /\ AnswersMatch'
    BY <1>2, <2>1 DEF Orderly, SlotIsHeld, CommandsAreNumbered, AnswersMatch, AnswersAsked
  <2>3. VersionIsSupported'
    BY <1>2, <1>3, <2>1 DEF Orderly, VersionIsSupported, is_supported, PREFERRED, MIN_SUPPORTED,
                            MAX_SUPPORTED
  <2>4. LineOK'
    <3> SUFFICES ASSUME connecting' = "up" PROVE LineOK'
      BY <1>3 DEF LineOK
    <3>1. CASE connecting = "first"
      <4>1. /\ \A i \in 1 .. Len(line) : ItemOK(line[i], "up")
            /\ \A i \in 1 .. Len(chunk) : ItemOK(chunk[i], "up")
        BY <1>3, <2>1, <3>1 DEF Orderly, LineOK, FirstAnswerLeads, ItemOK
      <4>2. Len(owed) = 0
        BY <1>3, <2>1, <3>1 DEF Orderly, FirstAnswerLeads
      <4> QED BY <1>2, <4>1, <4>2 DEF LineOK
    <3>2. CASE connecting = "second"
      <4>1. /\ \A item : ItemOK(item, "second") => ItemOK(item, "up")
            /\ \A q : OwedOK(q, "second") => OwedOK(q, "up")
        BY DEF ItemOK, OwedOK
      <4>2. /\ \A i \in 1 .. Len(line) : ItemOK(line[i], "second")
            /\ \A i \in 1 .. Len(chunk) : ItemOK(chunk[i], "second")
            /\ \A i \in 1 .. Len(owed) : OwedOK(owed[i], "second")
        BY <2>1, <3>2 DEF Orderly, LineOK
      <4> QED BY <1>2, <4>1, <4>2 DEF LineOK
    <3> QED BY <1>3, <3>1, <3>2
  <2>5. FirstAnswerLeads'
    BY <1>3 DEF FirstAnswerLeads
  <2> QED BY <2>2, <2>3, <2>4, <2>5 DEF Orderly
<1> QED BY <1>4, <1>5 DEF SessionInv

LEMMA AppPollsInv ==
  ASSUME SessionInv, AppPolls
  PROVE  SessionInv'
<1>1. /\ SessionTypes /\ (~refused => Orderly) /\ pc = "idle" /\ op = "none" /\ connecting = "up"
      /\ pc' = "pump" /\ op' = "poll"
      /\ UNCHANGED <<pending, next_sequence_number, connecting, version, chunk, asked, result, response,
                     initial_version_sent, pending_format>>
      /\ UNCHANGED <<line, owed, ncp_widths, refused, issued>>
  BY DEF SessionInv, AppPolls, SessionTypes, SessionTypeOK, corrVars, hostVars, ncpVars, historyVars,
         boundVars
<1>2. SessionTypes'
  <2>1. SessionTypeOK'
    BY <1>1 DEF SessionTypes, SessionTypeOK
  <2> QED BY <1>1, <2>1 DEF SessionTypes, IsSeq, IsOption
<1>3. ASSUME ~refused'
      PROVE  Orderly'
  <2>1. Orderly
    BY <1>1, <1>3
  <2>2. SlotIsHeld' /\ CommandsAreNumbered' /\ AnswersMatch' /\ VersionIsSupported'
    BY <1>1, <2>1 DEF Orderly, SlotIsHeld, CommandsAreNumbered, AnswersMatch, AnswersAsked,
                      VersionIsSupported
  <2>3. LineOK' /\ FirstAnswerLeads'
    BY <1>1, <2>1 DEF Orderly, LineOK, FirstAnswerLeads
  <2> QED BY <2>2, <2>3 DEF Orderly
<1> QED BY <1>2, <1>3 DEF SessionInv

LEMMA ReadInv ==
  ASSUME SessionInv, Read
  PROVE  SessionInv'
<1>1. /\ SessionTypes /\ (~refused => Orderly) /\ pc = "pump" /\ chunk = <<>> /\ IsSeq(line)
      /\ pc' = "dispatch"
      /\ UNCHANGED <<pending, next_sequence_number, connecting, version, op, asked, result, response,
                     initial_version_sent, pending_format>>
      /\ UNCHANGED <<owed, ncp_widths, refused, issued>>
  BY DEF SessionInv, Read, SessionTypes, SessionTypeOK, corrVars, hostVars, historyVars, boundVars
<1>2. PICK n \in Nat : /\ n > 0 /\ n <= Len(line)
                       /\ chunk' = SubSeq(line, 1, n) /\ line' = SubSeq(line, n + 1, Len(line))
  BY SessionAssumption DEF Read
<1>3. /\ IsSeq(chunk') /\ chunk' # <<>> /\ Len(chunk') = n
      /\ \A i \in 1 .. n : chunk'[i] = line[i]
      /\ IsSeq(line') /\ Len(line') = Len(line) - n
      /\ \A i \in 1 .. Len(line') : line'[i] = line[i + n]
  BY <1>1, <1>2, CutIsSeq
<1>4. PICK k \in Nat : k = Len(line)
  BY <1>1 DEF IsSeq
<1>5. /\ \A i \in 1 .. Len(chunk') : i \in 1 .. k /\ chunk'[i] = line[i]
      /\ \A i \in 1 .. Len(line') : i + n \in 1 .. k /\ i + n # 1 /\ line'[i] = line[i + n]
  BY <1>2, <1>3, <1>4
<1>6. SessionTypes'
  <2>1. SessionTypeOK'
    BY <1>1, <1>3 DEF SessionTypes, SessionTypeOK
  <2> QED BY <1>1, <1>3, <2>1 DEF SessionTypes, IsSeq, IsOption
<1>7. ASSUME ~refused'
      PROVE  Orderly'
  <2>1. Orderly
    BY <1>1, <1>7
  <2>2. connecting # "start" /\ connecting # "failed"
    BY <1>1 DEF SessionTypes, SessionTypeOK
  <2>3. SlotIsHeld' /\ CommandsAreNumbered' /\ AnswersMatch' /\ VersionIsSupported'
    BY <1>1, <2>1, <2>2 DEF Orderly, SlotIsHeld, CommandsAreNumbered, AnswersMatch, AnswersAsked,
                            VersionIsSupported
  <2>4. LineOK'
    <3>1. /\ \A i \in 1 .. k : ItemOK(line[i], connecting)
          /\ \A i \in 1 .. Len(owed) : OwedOK(owed[i], connecting)
      BY <1>4, <2>1, <2>2 DEF Orderly, LineOK
    <3>2. /\ \A i \in 1 .. Len(line') : ItemOK(line'[i], connecting)
          /\ \A i \in 1 .. Len(chunk') : ItemOK(chunk'[i], connecting)
      BY <1>5, <3>1, Zenon
    <3> QED BY <1>1, <3>1, <3>2 DEF LineOK
  <2>5. FirstAnswerLeads'
    <3> SUFFICES ASSUME connecting = "first" PROVE FirstAnswerLeads'
      BY <1>1 DEF FirstAnswerLeads
    <3>1. owed = <<>>
      <4>1. line # <<>>
        BY DEF Read
      <4> QED BY <2>1, <4>1 DEF Orderly, FirstAnswerLeads
    <3>2. \A i \in 1 .. k : line[i].of # 0 => i = 1
      BY <1>4, <2>1 DEF Orderly, FirstAnswerLeads
    <3>3. \A i \in 1 .. Len(chunk') : chunk'[i].of # 0 => i = 1
      BY <1>5, <3>2
    <3>4. \A i \in 1 .. Len(line') : line'[i].of = 0
      BY <1>5, <3>2
    <3>5. response # <<>> \/ result.error = "none" => \A i \in 1 .. k : line[i].of = 0
      BY <1>4, <2>1 DEF Orderly, FirstAnswerLeads
    <3>6. response # <<>> \/ result.error = "none" => \A i \in 1 .. Len(chunk') : chunk'[i].of = 0
      BY <1>5, <3>5
    <3> QED BY <1>1, <3>1, <3>3, <3>4, <3>6 DEF FirstAnswerLeads
  <2> QED BY <2>3, <2>4, <2>5 DEF Orderly
<1> QED BY <1>6, <1>7 DEF SessionInv

\* The frame that classify takes for the answer is one, to a command like the last.
LEMMA ResponseAnswers ==
  ASSUME SessionTypes, Orderly, connecting # "failed", NEW item, ItemOK(item, connecting), NEW frame,
         frame = parse(item.bytes, IF pending_format = <<>> THEN "Extended" ELSE pending_format[1]),
         frame.error = "none", Classified(frame) = "Response"
  PROVE  pending # <<>> /\ AnswersAsked(item)
<1> DEFINE p == [sequence |-> frame.sequence, frame_id |-> frame.frame_id]
           format == IF connecting = "first" THEN "Legacy" ELSE "Extended"
<1>1. frame.kind = "Response" /\ pending = <<p>>
  BY DEF Classified
<1>2. p.sequence = frame.sequence /\ p.frame_id = frame.frame_id
  OBVIOUS
<1> HIDE DEF p
<1>3. pending # <<>> /\ pending[1] = p
  BY <1>1
<1>4. pending_format = <<format>> /\ pending_format # <<>> /\ pending_format[1] = format
  <2>1. pending_format = <<format>>
    BY <1>3, Zenon DEF Orderly, CommandsAreNumbered
  <2> HIDE DEF format
  <2> QED BY <2>1
<1>5. frame = parse(item.bytes, format)
  BY <1>4
<1>6. /\ frame.sequence = item.bytes[1] /\ frame.kind = from_low_byte(item.bytes[2])
      /\ frame.frame_id = IF connecting = "first" THEN item.bytes[3]
                          ELSE u16_of(SubSeq(item.bytes, 4, 5))
  <2> HIDE DEF format
  <2>1. /\ frame.sequence = item.bytes[1] /\ frame.kind = from_low_byte(item.bytes[2])
        /\ frame.frame_id = IF format = "Legacy" THEN item.bytes[3]
                            ELSE u16_of(SubSeq(item.bytes, 4, 5))
    BY <1>5 DEF parse
  <2> QED BY <2>1 DEF format
<1>7. item.of \in Nat /\ item.bytes[1] = Numbered(item.of) /\ item.frame_id = frame.frame_id
  BY <1>1, <1>6 DEF ItemOK
<1>8. /\ issued \in Nat /\ asked.token = issued
      /\ p.sequence = Numbered(issued) /\ p.frame_id = asked.command.id
  BY <1>3 DEF Orderly, CommandsAreNumbered, SessionTypes
<1>9. Numbered(issued) = Numbered(item.of)
  BY <1>2, <1>6, <1>7, <1>8
<1>10. (issued - item.of) % SEQUENCE_SPACE = 0
  BY <1>7, <1>8, <1>9, SameNumberWholeWraps
<1> QED BY <1>2, <1>3, <1>7, <1>8, <1>10 DEF AnswersAsked

LEMMA DispatchInv ==
  ASSUME SessionInv, dispatch
  PROVE  SessionInv'
<1> DEFINE item == Head(chunk)
           frame == parse(item.bytes, IF pending_format = <<>> THEN "Extended" ELSE pending_format[1])
           answered == frame.error = "none" /\ Classified(frame) = "Response"
<1>1. /\ SessionTypes /\ (~refused => Orderly) /\ pc = "dispatch" /\ chunk # <<>> /\ IsSeq(chunk)
      /\ op # "none" /\ connecting # "start" /\ connecting # "failed"
      /\ chunk' = Tail(chunk) /\ pc' = IF chunk' = <<>> THEN "pump" ELSE "dispatch"
      /\ UNCHANGED <<next_sequence_number, connecting, version, op, asked, result,
                     initial_version_sent>>
      /\ UNCHANGED <<line, owed, ncp_widths, refused, issued>>
  BY DEF SessionInv, dispatch, SessionTypes, SessionTypeOK, classify, corrVars, ncpVars, boundVars
<1>2. \/ /\ answered /\ pending' = <<>> /\ pending_format' = <<>>
         /\ response' = <<[parameters |-> frame.parameters, from |-> item]>>
      \/ UNCHANGED <<pending, response, pending_format>>
  BY DEF dispatch, classify, FileCallback, corrVars
<1> HIDE DEF item, frame, answered
<1>3. \/ /\ answered /\ pending' = <<>> /\ pending_format' = <<>>
         /\ response' # <<>> /\ Len(response') = 1 /\ response' = <<response'[1]>>
         /\ response'[1].from = item
      \/ UNCHANGED <<pending, response, pending_format>>
  BY <1>2
<1>4. /\ IsSeq(chunk') /\ item = chunk[1] /\ Len(chunk) > 0 /\ Len(chunk') = Len(chunk) - 1
      /\ \A i \in 1 .. Len(chunk') : chunk'[i] = chunk[i + 1]
  BY <1>1, TailIsSeq DEF item
<1>5. PICK n \in Nat : n = Len(chunk)
  BY <1>1 DEF IsSeq
<1>6. 1 \in 1 .. n /\ \A i \in 1 .. Len(chunk') : i + 1 \in 1 .. n /\ i + 1 # 1 /\ chunk'[i] = chunk[i + 1]
  BY <1>4, <1>5
<1>7. SessionTypes'
  <2>1. /\ Len(response') <= 1 /\ Len(pending') <= 1 /\ IsOption(response') /\ IsOption(pending')
        /\ \A i \in 1 .. Len(pending') : pending'[i].sequence \in 0 .. (SEQUENCE_SPACE - 1)
    <3>1. CASE UNCHANGED <<pending, response, pending_format>>
      BY <1>1, <3>1 DEF SessionTypes, SessionTypeOK, IsOption
    <3>2. CASE /\ pending' = <<>> /\ Len(response') = 1 /\ response' = <<response'[1]>>
      <4>1. Len(pending') = 0
        BY <3>2
      <4>2. IsOption(response') /\ IsOption(pending')
        BY <3>2, Zenon DEF IsOption
      <4> QED BY <3>2, <4>1, <4>2
    <3> QED BY <1>3, <3>1, <3>2
  <2>2. SessionTypeOK'
    BY <1>1, <2>1 DEF SessionTypes, SessionTypeOK
  <2> QED BY <1>1, <1>4, <2>1, <2>2 DEF SessionTypes, IsSeq
<1>8. ASSUME ~refused'
      PROVE  Orderly'
  <2>1. Orderly
    BY <1>1, <1>8
  <2>2. /\ \A i \in 1 .. n : ItemOK(chunk[i], connecting)
        /\ \A i \in 1 .. Len(line) : ItemOK(line[i], connecting)
        /\ \A i \in 1 .. Len(owed) : OwedOK(owed[i], connecting)
    BY <1>1, <1>5, <2>1 DEF Orderly, LineOK
  <2>3. answered => pending # <<>> /\ AnswersAsked(item)
    <3>1. ItemOK(item, connecting)
      BY <1>4, <1>6, <2>2
    <3> QED BY <1>1, <2>1, <3>1, ResponseAnswers DEF answered, frame
  <2>4. SlotIsHeld'
    BY <1>1, <1>3, <2>1, <2>3 DEF Orderly, SlotIsHeld
  <2>5. CommandsAreNumbered' /\ VersionIsSupported'
    BY <1>1, <1>3, <2>1 DEF Orderly, CommandsAreNumbered, VersionIsSupported
  <2>6. AnswersMatch'
    BY <1>1, <1>3, <2>1, <2>3 DEF Orderly, AnswersMatch, AnswersAsked
  <2>7. LineOK'
    <3>1. \A i \in 1 .. Len(chunk') : ItemOK(chunk'[i], connecting)
      BY <1>6, <2>2, Zenon
    <3> QED BY <1>1, <2>2, <3>1 DEF LineOK
  <2>8. FirstAnswerLeads'
    <3> SUFFICES ASSUME connecting = "first" PROVE FirstAnswerLeads'
      BY <1>1 DEF FirstAnswerLeads
    <3>1. /\ owed = <<>> /\ \A i \in 1 .. Len(line) : line[i].of = 0
          /\ \A i \in 1 .. n : chunk[i].of # 0 => i = 1
      BY <1>1, <1>5, <2>1 DEF Orderly, FirstAnswerLeads
    <3>2. \A i \in 1 .. Len(chunk') : chunk'[i].of = 0
      BY <1>6, <3>1
    <3> QED BY <1>1, <3>1, <3>2 DEF FirstAnswerLeads
  <2> QED BY <2>4, <2>5, <2>6, <2>7, <2>8 DEF Orderly
<1> QED BY <1>7, <1>8 DEF SessionInv

LEMMA AnsweredInv ==
  ASSUME SessionInv, Answered
  PROVE  SessionInv'
<1>1. /\ SessionTypes /\ (~refused => Orderly) /\ pc = "pump" /\ op = "command" /\ response # <<>>
      /\ pc' = "idle" /\ op' = "none" /\ response' = <<>>
      /\ UNCHANGED <<pending, next_sequence_number, connecting, version, chunk, asked,
                     initial_version_sent, pending_format>>
      /\ UNCHANGED <<line, owed, ncp_widths, refused, issued>>
  BY DEF SessionInv, Answered, Return, corrVars, ncpVars, historyVars, boundVars
<1>2. result'.from = response[1].from \/ result'.from.of = 0
  BY DEF Answered, Return, Returned, NoItem
<1>3. SessionTypes'
  <2>1. Len(response') = 0 /\ IsOption(response')
    BY <1>1 DEF IsOption
  <2>2. SessionTypeOK'
    BY <1>1, <2>1 DEF SessionTypes, SessionTypeOK
  <2> QED BY <1>1, <2>1, <2>2 DEF SessionTypes, IsSeq, IsOption
<1>4. ASSUME ~refused'
      PROVE  Orderly'
  <2>1. Orderly
    BY <1>1, <1>4
  <2>2. pending = <<>>
    BY <1>1, <2>1 DEF Orderly, SlotIsHeld
  <2>3. SlotIsHeld' /\ CommandsAreNumbered' /\ VersionIsSupported'
    BY <1>1, <2>1, <2>2 DEF Orderly, SlotIsHeld, CommandsAreNumbered, VersionIsSupported
  <2>4. AnswersMatch'
    BY <1>1, <1>2, <2>1 DEF Orderly, AnswersMatch, AnswersAsked
  <2>5. LineOK' /\ FirstAnswerLeads'
    BY <1>1, <2>1 DEF Orderly, LineOK, FirstAnswerLeads
  <2> QED BY <2>3, <2>4, <2>5 DEF Orderly
<1> QED BY <1>3, <1>4 DEF SessionInv

\* A poll that returns, with callbacks or in vain, and a command given up.
LEMMA GivesUpInv ==
  ASSUME SessionInv, PollDone \/ TimeOut
  PROVE  SessionInv'
<1>1. /\ SessionTypes /\ (~refused => Orderly) /\ pc = "pump" /\ op # "none"
      /\ pc' = "idle" /\ op' = "none" /\ result'.from.of = 0
      /\ UNCHANGED <<next_sequence_number, connecting, version, chunk, asked, response,
                     initial_version_sent, pending_format>>
      /\ UNCHANGED <<line, owed, ncp_widths, refused, issued>>
  BY DEF SessionInv, SessionTypes, SessionTypeOK, PollDone, TimeOut, Return, Returned, NoItem, time_out,
         corrVars, hostVars, ncpVars, historyVars, boundVars
<1>2. \/ op = "command" /\ pending' = <<>> /\ response = <<>> /\ result'.error = "Timeout"
      \/ op = "poll" /\ pending' = pending
  BY DEF PollDone, TimeOut, PumpDone, Return, Returned, time_out, corrVars
<1>3. SessionTypes'
  <2>1. /\ Len(pending') <= 1 /\ IsOption(pending')
        /\ \A i \in 1 .. Len(pending') : pending'[i].sequence \in 0 .. (SEQUENCE_SPACE - 1)
    <3>1. CASE pending' = pending
      BY <1>1, <3>1 DEF SessionTypes, SessionTypeOK, IsOption
    <3>2. CASE pending' = <<>>
      BY <3>2 DEF IsOption
    <3> QED BY <1>2, <3>1, <3>2
  <2>2. SessionTypeOK'
    BY <1>1, <2>1 DEF SessionTypes, SessionTypeOK
  <2> QED BY <1>1, <2>1, <2>2 DEF SessionTypes, IsSeq, IsOption
<1>4. ASSUME ~refused'
      PROVE  Orderly'
  <2>1. Orderly
    BY <1>1, <1>4
  <2>2. pending' = <<>> /\ response = <<>>
    BY <1>2, <2>1 DEF Orderly, SlotIsHeld
  <2>3. SlotIsHeld' /\ CommandsAreNumbered' /\ VersionIsSupported' /\ AnswersMatch'
    BY <1>1, <2>1, <2>2 DEF Orderly, SlotIsHeld, CommandsAreNumbered, VersionIsSupported, AnswersMatch
  <2>4. LineOK'
    BY <1>1, <2>1 DEF Orderly, LineOK
  <2>5. FirstAnswerLeads'
    <3> SUFFICES ASSUME connecting = "first" PROVE FirstAnswerLeads'
      BY <1>1 DEF FirstAnswerLeads
    <3>1. result'.error = "Timeout"
      BY <1>2, <1>1 DEF SessionTypes
    <3> QED BY <1>1, <2>1, <2>2, <3>1 DEF Orderly, FirstAnswerLeads
  <2> QED BY <2>3, <2>4, <2>5 DEF Orderly
<1> QED BY <1>3, <1>4 DEF SessionInv

-----------------------------------------------------------------------------
(* The theorems *)

LEMMA InitSessionInv ==
  ASSUME SessionInit
  PROVE  SessionInv
<1>1. /\ pending = <<>> /\ next_sequence_number = 0 /\ connecting = "start" /\ version = PREFERRED
      /\ pc = "idle" /\ op = "none" /\ chunk = <<>> /\ asked.token = 0 /\ response = <<>>
      /\ result.from.of = 0 /\ initial_version_sent = FALSE /\ line = <<>> /\ owed = <<>>
      /\ ncp_widths = NcpWidths(ncp_version) /\ refused = FALSE /\ issued = 0
  BY DEF SessionInit, CorrInit, NothingAsked, Returned, NoItem
<1>2. 0 \in Sequence /\ 0 % SEQUENCE_SPACE = 0
  BY SequenceSpaceAssumption DEF Sequence
<1>3. ncp_widths \in [status : 0 .. 4, tag : 0 .. 2, flags : 0 .. 1]
  BY <1>1 DEF NcpWidths
<1>4. Len(pending) = 0 /\ Len(response) = 0 /\ Len(line) = 0 /\ Len(chunk) = 0 /\ Len(owed) = 0
  BY <1>1
<1>5. SessionTypes
  <2>1. SessionTypeOK
    BY <1>1, <1>4 DEF SessionTypeOK
  <2>2. IsOption(pending) /\ IsOption(response) /\ IsSeq(line) /\ IsSeq(chunk) /\ IsSeq(owed)
    BY <1>1, EmptyIsSeq, Zenon DEF IsOption
  <2> QED BY <1>1, <1>2, <1>3, <2>1, <2>2 DEF SessionTypes
<1>6. SlotIsHeld /\ CommandsAreNumbered /\ AnswersMatch
  BY <1>1, <1>2 DEF SlotIsHeld, CommandsAreNumbered, AnswersMatch
<1>7. VersionIsSupported
  <2>1. is_supported(version)
    BY <1>1 DEF is_supported, PREFERRED, MIN_SUPPORTED, MAX_SUPPORTED
  <2>2. connecting # "second" /\ connecting # "first"
    BY <1>1
  <2>3. initial_version_sent = (connecting # "start")
    BY <1>1, Zenon
  <2> QED BY <1>1, <2>1, <2>2, <2>3, Zenon DEF VersionIsSupported
<1>8. LineOK /\ FirstAnswerLeads
  BY <1>1, <1>4 DEF LineOK, FirstAnswerLeads
<1> QED BY <1>5, <1>6, <1>7, <1>8 DEF SessionInv, Orderly

LEMMA StutterSessionInv ==
  ASSUME SessionInv, UNCHANGED sessionVars
  PROVE  SessionInv'
<1>1. /\ UNCHANGED <<pending, next_sequence_number, connecting, version, pc, op, chunk, asked, result,
                     response, initial_version_sent, pending_format>>
      /\ UNCHANGED <<line, owed, ncp_widths, refused, issued>>
  BY DEF sessionVars, corrVars, taskVars, hostVars, ncpVars, historyVars, boundVars
<1>2. SessionTypes'
  BY <1>1 DEF SessionInv, SessionTypes, SessionTypeOK, IsSeq, IsOption
<1>3. ~refused' => Orderly'
  BY <1>1 DEF SessionInv, Orderly, SlotIsHeld, CommandsAreNumbered, VersionIsSupported, LineOK,
              FirstAnswerLeads, AnswersMatch, AnswersAsked
<1> QED BY <1>2, <1>3 DEF SessionInv

\* Every step of Ncp and of the NCP keeps the slot, the numbering and what is on the line in order.
THEOREM SessionInvHolds == SessionSpec => []SessionInv
<1>1. SessionInit => SessionInv
  BY InitSessionInv
<1>2. SessionInv /\ [SessionNext]_sessionVars => SessionInv'
  <2> SUFFICES ASSUME SessionInv, [SessionNext]_sessionVars
               PROVE  SessionInv'
    OBVIOUS
  <2>1. CASE ConnectOffers \/ ConnectAgrees \/ AppCommands
    BY <2>1, SendersInv
  <2>2. CASE ConnectReturns
    BY <2>2, ConnectReturnsInv
  <2>3. CASE AppPolls
    BY <2>3, AppPollsInv
  <2>4. CASE Read
    BY <2>4, ReadInv
  <2>5. CASE dispatch
    BY <2>5, DispatchInv
  <2>6. CASE Answered
    BY <2>6, AnsweredInv
  <2>7. CASE PollDone \/ TimeOut
    BY <2>7, GivesUpInv
  <2>8. CASE NcpAnswers
    BY <2>8, NcpAnswersInv
  <2>9. CASE NcpCallsBack
    BY <2>9, NcpCallsBackInv
  <2>10. CASE UNCHANGED sessionVars
    BY <2>10, StutterSessionInv
  <2> QED BY <2>1, <2>2, <2>3, <2>4, <2>5, <2>6, <2>7, <2>8, <2>9, <2>10 DEF SessionNext
<1> QED BY <1>1, <1>2, PTL DEF SessionSpec

\* What Ncp keeps while a method runs has its type: one method at a time (&mut self, ncp.rs:261),
\* at most one response parked and one command outstanding, its number within a byte.
THEOREM SessionAlwaysTyped == SessionSpec => []SessionTypeOK
<1>1. SessionInv => SessionTypeOK
  BY DEF SessionInv, SessionTypes
<1> QED BY <1>1, SessionInvHolds, PTL

\* Whatever arrives in whatever chunks, cut short or with bytes too many, and however often a command
\* times out, a method that returns leaves the correlator's slot free (ncp.rs:276-288), unless a
\* command has failed between begin and the write.
THEOREM SlotAlwaysFreeUnlessRefused == SessionSpec => []SlotIsFreeUnlessRefused
<1>1. SessionInv => SlotIsFreeUnlessRefused
  BY DEF SessionInv, SessionTypes, SessionTypeOK, Orderly, SlotIsHeld, SlotIsFreeUnlessRefused
<1> QED BY <1>1, SessionInvHolds, PTL

\* For any run of commands, any delays and any length of the sequence byte: what a command returns
\* is read from an answer to a command of the same id issued a whole number of wraps before it, zero
\* when the answer is its own (correlation.rs:156).
THEOREM ForeignAnswersAlwaysWholeWrapsOld == SessionSpec => []ForeignAnswersAreWholeWrapsOld
<1>1. SessionInv => ForeignAnswersAreWholeWrapsOld
  BY DEF SessionInv, Orderly, AnswersMatch, AnswersAsked, ForeignAnswersAreWholeWrapsOld
<1> QED BY <1>1, SessionInvHolds, PTL
=============================================================================
