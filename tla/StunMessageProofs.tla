------------------------- MODULE StunMessageProofs -------------------------
(***************************************************************************)
(* Theorems about a message between its builder and its reader.            *)
(*                                                                         *)
(* The builder keeps its stream sound (Sound), and every method adds to it *)
(* exactly one attribute (Grown, Carries): so what was added lies in the   *)
(* message one attribute after the other (LaidOut).  The reader's loop     *)
(* over the body is a sequence of passes (IsPasses); after n of them the   *)
(* reader covers n attributes, whatever the bytes are (UpTo), and lists    *)
(* the first n that were added when the bytes are those of the builder     *)
(* (Passed).                                                               *)
(*                                                                         *)
(* MessageInv says that the builder is sound, that what travels is what    *)
(* was built, and that the reader covers what it validated; KeptInv says   *)
(* how far the reader is in a message that was not altered.                *)
(***************************************************************************)
EXTENDS StunMessage, WellFoundedInduction, SequenceTheorems, TLAPS

Streams == [data : Seq(Nat), allocated : Nat, pos : Nat, attached : BOOLEAN, behind : Seq(Nat)]

(* One sequence is another with these words at its end.                    *)
Joined(new, old, words) ==
    /\ Len(new) = Len(old) + Len(words)
    /\ \A i \in 1..Len(old) : new[i] = old[i]
    /\ \A j \in 1..Len(words) : new[Len(old) + j] = words[j]

(* -------- numbers and sequences ------------------------------------------ *)

(* The first of a set of places.                                           *)
LEMMA FirstPlace ==
    ASSUME NEW I \in SUBSET Nat, I # {}
    PROVE  \E x \in I : \A y \in I : x =< y
  <1> DEFINE R == OpToRel(<, Nat)
  <1>1. IsWellFoundedOn(R, Nat)
    BY NatLessThanWellFounded
  <1>2. \A x, y \in Nat : y < x => <<y, x>> \in R
    BY DEF OpToRel
  <1> HIDE DEF R
  <1>3. PICK x \in I : \A y \in I : ~(<<y, x>> \in R)
    BY <1>1, WFMin
  <1>4. \A y \in I : ~(y < x)
    BY <1>2, <1>3
  <1>5. QED
    BY <1>4

(* Counting up reaches every number.                                       *)
LEMMA CountUp ==
    ASSUME NEW Good \in SUBSET Nat, 0 \in Good, \A n \in Good : n + 1 \in Good
    PROVE  Good = Nat
  <1> DEFINE Bad == Nat \ Good
  <1> SUFFICES ASSUME Bad # {} PROVE FALSE
    OBVIOUS
  <1>1. PICK x \in Bad : \A y \in Bad : x =< y
    BY FirstPlace
  <1>2. x # 0 /\ x \in Nat
    OBVIOUS
  <1>3. x - 1 \in Nat /\ x - 1 \notin Bad /\ (x - 1) + 1 = x
    BY <1>1, <1>2
  <1>4. QED
    BY <1>3

(* Padding completes a size to a multiple of four.                         *)
LEMMA PaddingCompletes ==
    ASSUME NEW size \in Nat
    PROVE  Padding(size) \in 0..3 /\ (size + Padding(size)) % 4 = 0
  BY DEF Padding

LEMMA Half == \A n \in Nat : (2 * n) \div 2 = n
  OBVIOUS

LEMMA EvenPadding ==
    ASSUME NEW n \in Nat
    PROVE  Padding(2 * n) \in {0, 2} /\ (2 * n + Padding(2 * n)) % 4 = 0
  BY DEF Padding

LEMMA ZerosAre ==
    ASSUME NEW size \in Nat
    PROVE  /\ Zeros(size) \in Seq(Nat) /\ Len(Zeros(size)) = size \div 2
           /\ \A i \in 1..(size \div 2) : Zeros(size)[i] = 0
  <1>1. size \div 2 \in Nat
    OBVIOUS
  <1>2. QED
    BY <1>1 DEF Zeros

LEMMA JoinedIs ==
    ASSUME NEW old \in Seq(Nat), NEW words \in Seq(Nat)
    PROVE  old \o words \in Seq(Nat) /\ Joined(old \o words, old, words)
  BY DEF Joined

LEMMA WholeSequence == \A seq \in Seq(Nat) : SubSeq(seq, 1, Len(seq)) = seq
  BY SubSeqFull

LEMMA NothingLeft == \A seq \in Seq(Nat) : \A m, n \in Nat : n < m => SubSeq(seq, m, n) = <<>>
  BY SubSeqEmpty

(* The part of a sequence from one place to another.                       *)
LEMMA PartIs ==
    ASSUME NEW seq \in Seq(Nat), NEW m \in Nat, NEW n \in Nat, 1 <= m, m <= n + 1, n <= Len(seq)
    PROVE  /\ SubSeq(seq, m, n) \in Seq(Nat)
           /\ Len(SubSeq(seq, m, n)) = (n - m) + 1
           /\ \A i \in 1..((n - m) + 1) : SubSeq(seq, m, n)[i] = seq[(m + i) - 1]
  <1>1. \A i \in m..n : seq[i] \in Nat
    OBVIOUS
  <1>2. /\ SubSeq(seq, m, n) \in Seq(Nat)
        /\ Len(SubSeq(seq, m, n)) = IF m <= n THEN n - m + 1 ELSE 0
        /\ \A i \in 1..(n - m + 1) : SubSeq(seq, m, n)[i] = seq[m + i - 1]
    BY <1>1, SubSeqProperties
  <1>3. QED
    BY <1>2

(* -------- the stream ------------------------------------------------------ *)

LEMMA GrowKeeps ==
    ASSUME NEW s \in Streams, NEW size \in Nat
    PROVE  LET g == Grow(s, size)
           IN  /\ g \in Streams /\ g.data = s.data /\ g.pos = s.pos
               /\ size <= g.allocated /\ s.allocated <= g.allocated
               /\ size <= s.allocated => g = s
               /\ size > s.allocated => ~g.attached
  <1>1. CASE size <= s.allocated
    BY <1>1 DEF Grow, Streams
  <1>2. CASE ~(size <= s.allocated)
    <2> DEFINE room == IF size > 2 * s.allocated THEN size ELSE 2 * s.allocated
               rest == IF s.attached THEN s.data ELSE s.behind
    <2>1. Grow(s, size) = [s EXCEPT !.allocated = room, !.attached = FALSE, !.behind = rest]
      BY <1>2 DEF Grow
    <2>2. room \in Nat /\ size <= room /\ s.allocated <= room /\ rest \in Seq(Nat)
      BY <1>2 DEF Streams
    <2> HIDE DEF room, rest
    <2>3. QED
      BY <1>2, <2>1, <2>2 DEF Streams
  <1>3. QED
    BY <1>1, <1>2

(* Writing at the end of the stream appends.                               *)
LEMMA WriteAtEnd ==
    ASSUME NEW s \in Streams, s.pos = GetSize(s), NEW words \in Seq(Nat)
    PROVE  LET w == Write(s, words)
           IN  /\ w \in Streams /\ Joined(w.data, s.data, words)
               /\ w.pos = GetSize(w)
               /\ words = <<>> => w = s
               /\ words # <<>> => GetSize(w) <= w.allocated
               /\ GetSize(w) <= s.allocated => w.attached = s.attached /\ w.allocated = s.allocated
               /\ words # <<>> /\ GetSize(w) > s.allocated => ~w.attached
  <1>1. s.data \in Seq(Nat) /\ Len(s.data) \in Nat /\ Len(words) \in Nat
    BY DEF Streams
  <1>2. CASE words = <<>>
    <2>1. Write(s, words) = s
      BY <1>2 DEF Write
    <2>2. QED
      BY <1>1, <1>2, <2>1 DEF Joined
  <1>3. CASE words # <<>>
    <2> DEFINE after == Len(s.data) + Len(words)
               g == Grow(s, 2 * after)
               d == s.data \o words
               w == Write(s, words)
    <2>1. s.pos = 2 * Len(s.data) /\ 2 * after \in Nat
      BY <1>1 DEF GetSize
    <2>2. s.pos \div 2 = Len(s.data)
      BY <1>1, <2>1, Half
    <2> HIDE DEF after
    <2>3. /\ g \in Streams /\ g.data = s.data /\ 2 * after <= g.allocated
          /\ 2 * after <= s.allocated => g = s
          /\ 2 * after > s.allocated => ~g.attached
      BY <2>1, GrowKeeps
    <2>4. SubSeq(s.data, 1, Len(s.data)) = s.data
      BY <1>1, WholeSequence
    <2>5. SubSeq(s.data, after + 1, Len(s.data)) = <<>>
      <3>1. Len(s.data) < after + 1 /\ after + 1 \in Nat
        BY <1>1 DEF after
      <3>2. QED
        BY <1>1, <3>1, NothingLeft
    <2>6. d \in Seq(Nat) /\ Joined(d, s.data, words)
      BY <1>1, JoinedIs
    <2>7. d \o <<>> = d
      BY <2>6, ConcatEmptySeq
    <2>8. w = [g EXCEPT !.data = d, !.pos = 2 * after]
      BY <1>3, <2>2, <2>3, <2>4, <2>5, <2>7 DEF Write, after
    <2>9. Len(d) = after
      BY <2>6 DEF Joined, after
    <2> HIDE DEF g, d, w
    <2>10. /\ w \in Streams /\ w.data = d /\ w.pos = 2 * after
           /\ w.allocated = g.allocated /\ w.attached = g.attached
      BY <2>1, <2>3, <2>6, <2>8 DEF Streams
    <2>11. GetSize(w) = 2 * after
      BY <2>9, <2>10 DEF GetSize
    <2>12. QED
      BY <1>3, <2>1, <2>3, <2>6, <2>10, <2>11 DEF w
  <1>4. QED
    BY <1>2, <1>3

LEMMA ThreeParts ==
    ASSUME NEW front \in Seq(Nat), NEW one \in Seq(Nat), Len(one) = 1, NEW back \in Seq(Nat)
    PROVE  LET d == front \o one \o back
           IN  /\ d \in Seq(Nat) /\ Len(d) = Len(front) + 1 + Len(back)
               /\ \A i \in 1..Len(front) : d[i] = front[i]
               /\ d[Len(front) + 1] = one[1]
               /\ \A j \in 1..Len(back) : d[Len(front) + 1 + j] = back[j]
  <1>1. PICK two \in Seq(Nat) : two = front \o one /\ Joined(two, front, one)
    BY JoinedIs
  <1>2. PICK d \in Seq(Nat) : d = two \o back /\ Joined(d, two, back)
    BY JoinedIs
  <1>3. Len(two) = Len(front) + 1 /\ two[Len(front) + 1] = one[1]
        /\ \A i \in 1..Len(front) : two[i] = front[i]
    BY <1>1 DEF Joined
  <1>4. Len(d) = Len(front) + 1 + Len(back) /\ d[Len(front) + 1] = one[1]
        /\ (\A i \in 1..Len(front) : d[i] = front[i])
        /\ \A j \in 1..Len(back) : d[Len(front) + 1 + j] = back[j]
    BY <1>2, <1>3, SMTT(20) DEF Joined
  <1>5. QED
    BY <1>1, <1>2, <1>4

(* A sequence with one word replaced.                                      *)
LEMMA OneReplaced ==
    ASSUME NEW data \in Seq(Nat), NEW k \in Nat, k < Len(data),
           NEW one \in Seq(Nat), Len(one) = 1
    PROVE  LET d == SubSeq(data, 1, k) \o one \o SubSeq(data, k + 2, Len(data))
           IN  /\ d \in Seq(Nat) /\ Len(d) = Len(data) /\ d[k + 1] = one[1]
               /\ \A i \in 1..Len(data) : i # k + 1 => d[i] = data[i]
  <1> DEFINE front == SubSeq(data, 1, k)
             back == SubSeq(data, k + 2, Len(data))
             d == front \o one \o back
  <1>1. Len(data) \in Nat /\ k + 2 \in Nat /\ 1 <= k + 2 /\ k + 2 <= Len(data) + 1
    OBVIOUS
  <1>2. front \in Seq(Nat) /\ Len(front) = (k - 1) + 1
        /\ \A i \in 1..((k - 1) + 1) : front[i] = data[(1 + i) - 1]
    BY <1>1, PartIs
  <1>3. back \in Seq(Nat) /\ Len(back) = (Len(data) - (k + 2)) + 1
        /\ \A i \in 1..((Len(data) - (k + 2)) + 1) : back[i] = data[((k + 2) + i) - 1]
    BY <1>1, PartIs
  <1> HIDE DEF front, back
  <1>4. /\ d \in Seq(Nat) /\ Len(d) = Len(front) + 1 + Len(back)
        /\ \A i \in 1..Len(front) : d[i] = front[i]
        /\ d[Len(front) + 1] = one[1]
        /\ \A j \in 1..Len(back) : d[Len(front) + 1 + j] = back[j]
    BY <1>2, <1>3, ThreeParts, ZenonT(40)
  <1> HIDE DEF d
  <1>5. Len(front) = k /\ \A i \in 1..k : front[i] = data[i]
    BY <1>2
  <1>6. Len(back) = Len(data) - (k + 1)
    BY <1>1, <1>3
  <1>7. Len(d) = Len(data) /\ d[k + 1] = one[1]
    BY <1>1, <1>4, <1>5, <1>6
  <1>8. ASSUME NEW i \in 1..Len(data), i # k + 1 PROVE d[i] = data[i]
    <2>1. CASE i < k + 1
      BY <1>4, <1>5, <2>1, SMTT(20)
    <2>2. CASE i > k + 1
      <3>1. i - (k + 1) \in 1..Len(back) /\ k + 1 + (i - (k + 1)) = i
            /\ ((k + 2) + (i - (k + 1))) - 1 = i
        BY <1>1, <1>6, <2>2
      <3>2. d[k + 1 + (i - (k + 1))] = back[i - (k + 1)]
        BY <1>4, <1>5, <3>1
      <3>3. i - (k + 1) \in 1..((Len(data) - (k + 2)) + 1)
        BY <1>3, <3>1
      <3>4. back[i - (k + 1)] = data[((k + 2) + (i - (k + 1))) - 1]
        BY <1>3, <3>3
      <3>5. QED
        BY <3>1, <3>2, <3>4
    <2>3. QED
      BY <1>8, <2>1, <2>2
  <1>9. QED
    BY <1>4, <1>7, <1>8 DEF d, front, back

(* Writing one word inside the stream changes this word.                   *)
LEMMA WriteInside ==
    ASSUME NEW s \in Streams, NEW k \in Nat, k < Len(s.data), s.pos = 2 * k,
           GetSize(s) <= s.allocated, NEW one \in Seq(Nat), Len(one) = 1
    PROVE  LET w == Write(s, one)
           IN  /\ w \in Streams /\ Len(w.data) = Len(s.data)
               /\ w.data[k + 1] = one[1]
               /\ \A i \in 1..Len(s.data) : i # k + 1 => w.data[i] = s.data[i]
               /\ w.pos = 2 * (k + 1)
               /\ w.allocated = s.allocated /\ w.attached = s.attached
  <1> DEFINE d == SubSeq(s.data, 1, k) \o one \o SubSeq(s.data, k + 2, Len(s.data))
             w == Write(s, one)
  <1>1. s.data \in Seq(Nat) /\ Len(s.data) \in Nat /\ s.pos \div 2 = k
        /\ one # <<>> /\ 2 * (k + 1) \in Nat /\ ~(2 * (k + 1) > s.allocated)
        /\ s.allocated \in Nat
    <2>1. s.data \in Seq(Nat) /\ s.allocated \in Nat
      BY DEF Streams
    <2>2. (2 * k) \div 2 = k
      BY Half
    <2>3. one # <<>> /\ Len(s.data) \in Nat
      <3>1. Len(s.data) \in Nat
        BY <2>1, LenProperties
      <3>2. one # <<>>
        <4>1. Len(<<>>) # 1
          OBVIOUS
        <4>2. QED
          BY <4>1, Zenon
      <3>3. QED
        BY <3>1, <3>2
    <2>4. k + 1 <= Len(s.data) /\ 2 * Len(s.data) <= s.allocated
      BY <2>3 DEF GetSize
    <2>5. ~(2 * (k + 1) > s.allocated)
      BY <2>1, <2>3, <2>4
    <2>6. QED
      BY <2>1, <2>2, <2>3, <2>5
  <1>2. Grow(s, 2 * (k + 1)) = s
    BY <1>1 DEF Grow
  <1>3. d \in Seq(Nat) /\ Len(d) = Len(s.data) /\ d[k + 1] = one[1]
        /\ \A i \in 1..Len(s.data) : i # k + 1 => d[i] = s.data[i]
    BY <1>1, OneReplaced
  <1>4. (k + 1) + 1 = k + 2
    OBVIOUS
  <1>5. w = [s EXCEPT !.data = d, !.pos = 2 * (k + 1)]
    BY <1>1, <1>2, <1>4 DEF Write
  <1> HIDE DEF d, w
  <1>6. /\ w \in Streams /\ w.data = d /\ w.pos = 2 * (k + 1)
        /\ w.allocated = s.allocated /\ w.attached = s.attached
    BY <1>1, <1>3, <1>5 DEF Streams
  <1>7. QED
    BY <1>3, <1>6 DEF w

LEMMA SeekKeeps ==
    ASSUME NEW s \in Streams, NEW pos \in Nat
    PROVE  LET t == SeekDirect(s, pos)
           IN  /\ t \in Streams /\ t.data = s.data /\ t.pos = pos
               /\ t.allocated = s.allocated /\ t.attached = s.attached
  BY DEF SeekDirect, Streams

(* -------- the builder ----------------------------------------------------- *)

Builders == [stream : Streams, transid : [1..8 -> Nat], legacy : BOOLEAN]

(* The cursor is at the end, the header is written, and the stream is in   *)
(* the buffer attached to it as long as its size allows.                   *)
Sound(b) ==
    /\ b \in Builders
    /\ b.stream.pos = GetSize(b.stream)
    /\ GetSize(b.stream) <= b.stream.allocated
    /\ Len(b.stream.data) >= 10
    /\ IF GetSize(b.stream) <= MAX_STUN_MESSAGE_SIZE
       THEN b.stream.attached /\ b.stream.allocated = MAX_STUN_MESSAGE_SIZE
       ELSE ~b.stream.attached

(* These words were added to a message; of the others only the length in   *)
(* the header may have changed.                                            *)
Grown(c, b, words) ==
    /\ Sound(c) /\ c.transid = b.transid /\ c.legacy = b.legacy
    /\ Len(c.stream.data) = Len(b.stream.data) + Len(words)
    /\ \A i \in 1..Len(b.stream.data) : i # 2 => c.stream.data[i] = b.stream.data[i]
    /\ \A j \in 1..Len(words) : c.stream.data[Len(b.stream.data) + j] = words[j]

LEMMA StreamReplaced ==
    ASSUME NEW b \in Builders, NEW s \in Streams
    PROVE  LET c == [b EXCEPT !.stream = s]
           IN  c \in Builders /\ c.stream = s /\ c.transid = b.transid /\ c.legacy = b.legacy
  BY DEF Builders

LEMMA SoundIs ==
    ASSUME NEW b, Sound(b)
    PROVE  /\ b.stream \in Streams /\ b.stream.data \in Seq(Nat) /\ b.stream.allocated \in Nat
           /\ b.transid \in [1..8 -> Nat] /\ b.legacy \in BOOLEAN
           /\ Len(b.stream.data) \in Nat /\ Len(b.stream.data) >= 10
           /\ GetSize(b.stream) = 2 * Len(b.stream.data) /\ b.stream.pos = 2 * Len(b.stream.data)
  <1>1. b \in Builders /\ b.stream.pos = GetSize(b.stream) /\ Len(b.stream.data) >= 10
    BY DEF Sound
  <1>2. b.stream \in Streams /\ b.transid \in [1..8 -> Nat] /\ b.legacy \in BOOLEAN
    BY <1>1 DEF Builders
  <1>3. b.stream.data \in Seq(Nat) /\ b.stream.allocated \in Nat
    BY <1>2 DEF Streams
  <1>4. Len(b.stream.data) \in Nat
    BY <1>3, LenProperties
  <1>5. GetSize(b.stream) = 2 * Len(b.stream.data)
    BY DEF GetSize
  <1>6. QED
    BY <1>1, <1>2, <1>3, <1>4, <1>5

LEMMA PutGrows ==
    ASSUME NEW b, Sound(b), NEW words \in Seq(Nat)
    PROVE  Grown(Put(b, words), b, words)
  <1> DEFINE s == b.stream
             w == Write(s, words)
             c == [b EXCEPT !.stream = w]
  <1>1. b \in Builders /\ s \in Streams /\ s.data \in Seq(Nat) /\ s.pos = GetSize(s)
        /\ GetSize(s) <= s.allocated /\ s.allocated \in Nat /\ Len(s.data) >= 10
        /\ MAX_STUN_MESSAGE_SIZE \in Nat
    BY ReaderAssumption DEF Sound, Builders, Streams
  <1>2. /\ w \in Streams /\ Joined(w.data, s.data, words)
        /\ w.pos = GetSize(w)
        /\ words = <<>> => w = s
        /\ words # <<>> => GetSize(w) <= w.allocated
        /\ GetSize(w) <= s.allocated => w.attached = s.attached /\ w.allocated = s.allocated
        /\ words # <<>> /\ GetSize(w) > s.allocated => ~w.attached
    <2> HIDE DEF s
    <2>1. QED
      BY <1>1, WriteAtEnd
  <1> HIDE DEF w
  <1>3. c \in Builders /\ c.stream = w /\ c.transid = b.transid /\ c.legacy = b.legacy
    BY <1>1, <1>2, StreamReplaced
  <1>4. /\ Len(w.data) = Len(s.data) + Len(words) /\ Len(w.data) \in Nat
        /\ GetSize(w) = 2 * Len(w.data) /\ GetSize(s) = 2 * Len(s.data)
        /\ Len(s.data) \in Nat /\ Len(words) \in Nat
    <2>1. w.data \in Seq(Nat) /\ s.data \in Seq(Nat)
      BY <1>1, <1>2 DEF Streams
    <2>2. Len(w.data) = Len(s.data) + Len(words)
      BY <1>2 DEF Joined
    <2> HIDE DEF s
    <2>3. QED
      BY <2>1, <2>2 DEF GetSize
  <1>5. GetSize(w) <= w.allocated
    BY <1>1, <1>2
  <1>6. IF GetSize(w) <= MAX_STUN_MESSAGE_SIZE
        THEN w.attached /\ w.allocated = MAX_STUN_MESSAGE_SIZE ELSE ~w.attached
    <2>1. CASE words = <<>>
      BY <1>2, <2>1 DEF Sound
    <2>2. CASE words # <<>>
      <3>1. CASE GetSize(s) <= MAX_STUN_MESSAGE_SIZE
        <4>1. s.attached /\ s.allocated = MAX_STUN_MESSAGE_SIZE
          BY <3>1 DEF Sound
        <4>2. QED
          <5>1. CASE GetSize(w) <= MAX_STUN_MESSAGE_SIZE
            <6>1. w.attached = s.attached /\ w.allocated = s.allocated
              BY <1>2, <4>1, <5>1
            <6>2. w.attached /\ w.allocated = MAX_STUN_MESSAGE_SIZE
              BY <4>1, <6>1, Zenon
            <6>3. QED
              BY <5>1, <6>2
          <5>2. CASE ~(GetSize(w) <= MAX_STUN_MESSAGE_SIZE)
            <6>1. GetSize(w) > s.allocated
              BY <1>1, <1>4, <4>1, <5>2
            <6>2. ~w.attached
              BY <1>2, <2>2, <6>1
            <6>3. QED
              BY <5>2, <6>2
          <5>3. QED
            BY <5>1, <5>2
      <3>2. CASE ~(GetSize(s) <= MAX_STUN_MESSAGE_SIZE)
        <4>1. ~s.attached
          BY <3>2 DEF Sound
        <4>2. ~(GetSize(w) <= MAX_STUN_MESSAGE_SIZE)
          BY <1>1, <1>4, <3>2
        <4>3. ~w.attached
          BY <1>1, <1>2, <1>4, <2>2, <4>1, SMTT(20)
        <4>4. QED
          BY <4>2, <4>3
      <3>3. QED
        BY <3>1, <3>2
    <2>3. QED
      BY <2>1, <2>2
  <1>7. Sound(c)
    <2>1. Len(w.data) >= 10
      <3> HIDE DEF s
      <3>1. QED
        BY <1>1, <1>4
    <2>2. c.stream = w /\ c \in Builders /\ w.pos = GetSize(w)
      BY <1>2, <1>3
    <2> HIDE DEF c
    <2>3. QED
      BY <1>5, <1>6, <2>1, <2>2, Zenon DEF Sound
  <1>8. Put(b, words) = c
    BY DEF Put, w
  <1> HIDE DEF c
  <1>9. QED
    BY <1>2, <1>3, <1>7, <1>8 DEF Grown, Joined

(* What is added in two parts.                                             *)
LEMMA GrownTwice ==
    ASSUME NEW b, NEW c, NEW d, Sound(b), NEW x \in Seq(Nat), NEW y \in Seq(Nat),
           Grown(c, b, x), Grown(d, c, y)
    PROVE  Grown(d, b, x \o y)
  <1> DEFINE B == b.stream.data
             C == c.stream.data
             D == d.stream.data
             z == x \o y
  <1>1. Len(B) \in Nat /\ Len(x) \in Nat /\ Len(y) \in Nat /\ Len(B) >= 10
    BY SoundIs
  <1>2. z \in Seq(Nat) /\ Joined(z, x, y)
    BY JoinedIs
  <1>3. /\ Len(C) = Len(B) + Len(x) /\ Len(D) = Len(C) + Len(y)
        /\ \A i \in 1..Len(B) : i # 2 => C[i] = B[i]
        /\ \A j \in 1..Len(x) : C[Len(B) + j] = x[j]
        /\ \A i \in 1..Len(C) : i # 2 => D[i] = C[i]
        /\ \A j \in 1..Len(y) : D[Len(C) + j] = y[j]
    BY DEF Grown
  <1>4. /\ Len(z) = Len(x) + Len(y)
        /\ \A i \in 1..Len(x) : z[i] = x[i]
        /\ \A j \in 1..Len(y) : z[Len(x) + j] = y[j]
    BY <1>2 DEF Joined
  <1>5. Sound(d) /\ d.transid = b.transid /\ d.legacy = b.legacy
    BY DEF Grown
  <1> HIDE DEF B, C, D, z
  <1>6. Len(D) = Len(B) + Len(z)
    BY <1>1, <1>3, <1>4
  <1>7. \A i \in 1..Len(B) : i # 2 => D[i] = B[i]
    BY <1>1, <1>3
  <1>8. ASSUME NEW j \in 1..Len(z) PROVE D[Len(B) + j] = z[j]
    <2>1. CASE j <= Len(x)
      <3>1. j \in 1..Len(x) /\ Len(B) + j \in 1..Len(C) /\ Len(B) + j # 2
        BY <1>1, <1>3, <2>1
      <3>2. QED
        BY <1>3, <1>4, <3>1
    <2>2. CASE ~(j <= Len(x))
      <3>1. j - Len(x) \in 1..Len(y) /\ Len(C) + (j - Len(x)) = Len(B) + j
            /\ Len(x) + (j - Len(x)) = j
        BY <1>1, <1>3, <1>4, <2>2
      <3>2. D[Len(C) + (j - Len(x))] = y[j - Len(x)] /\ z[Len(x) + (j - Len(x))] = y[j - Len(x)]
        BY <1>3, <1>4, <3>1
      <3>3. QED
        BY <3>1, <3>2
    <2>3. QED
      BY <2>1, <2>2
  <1>9. QED
    BY <1>5, <1>6, <1>7, <1>8 DEF Grown, B, D, z

(* A word of the message is written over and the cursor put back.          *)
LEMMA WordReplaced ==
    ASSUME NEW b, Sound(b), NEW k \in Nat, k < Len(b.stream.data),
           NEW one \in Seq(Nat), Len(one) = 1,
           NEW c, c \in Builders, c.transid = b.transid, c.legacy = b.legacy,
           c.stream = SeekDirect(Write(SeekDirect(b.stream, 2 * k), one), b.stream.pos)
    PROVE  /\ Sound(c)
           /\ Len(c.stream.data) = Len(b.stream.data)
           /\ c.stream.data[k + 1] = one[1]
           /\ \A i \in 1..Len(b.stream.data) :
                 i # k + 1 => c.stream.data[i] = b.stream.data[i]
  <1> DEFINE s == b.stream
             t == SeekDirect(s, 2 * k)
             w == Write(t, one)
             u == SeekDirect(w, s.pos)
  <1>1. b \in Builders /\ s \in Streams /\ Len(s.data) \in Nat /\ s.pos \in Nat
        /\ s.pos = GetSize(s) /\ GetSize(s) <= s.allocated /\ 2 * k \in Nat
    <2>1. s \in Streams /\ Len(s.data) \in Nat /\ s.pos = 2 * Len(s.data)
      BY SoundIs
    <2>2. b \in Builders /\ s.pos = GetSize(s) /\ GetSize(s) <= s.allocated
      BY DEF Sound
    <2> HIDE DEF s
    <2>3. QED
      BY <2>1, <2>2
  <1> HIDE DEF s
  <1>2. t \in Streams /\ t.data = s.data /\ t.pos = 2 * k
        /\ t.allocated = s.allocated /\ t.attached = s.attached
    BY <1>1, SeekKeeps
  <1> HIDE DEF t
  <1>3. k < Len(t.data) /\ GetSize(t) <= t.allocated
    BY <1>1, <1>2 DEF GetSize, s
  <1>4. /\ w \in Streams /\ Len(w.data) = Len(t.data)
        /\ w.data[k + 1] = one[1]
        /\ \A i \in 1..Len(t.data) : i # k + 1 => w.data[i] = t.data[i]
        /\ w.allocated = t.allocated /\ w.attached = t.attached
    BY <1>2, <1>3, WriteInside
  <1> HIDE DEF w
  <1>5. u \in Streams /\ u.data = w.data /\ u.pos = s.pos
        /\ u.allocated = w.allocated /\ u.attached = w.attached
    BY <1>1, <1>4, SeekKeeps
  <1> HIDE DEF u
  <1>6. c.stream = u
    BY DEF u, w, t, s
  <1>7. Len(u.data) = Len(s.data) /\ GetSize(u) = GetSize(s)
    BY <1>2, <1>4, <1>5 DEF GetSize
  <1>8. u.allocated = s.allocated /\ u.attached = s.attached
    BY <1>2, <1>4, <1>5
  <1>9. Sound(c)
    BY <1>1, <1>5, <1>6, <1>7, <1>8, Zenon DEF Sound, s
  <1>10. QED
    BY <1>2, <1>4, <1>5, <1>6, <1>7, <1>9 DEF s

(* The length is written over.                                             *)
LEMMA FixKeeps ==
    ASSUME NEW b, Sound(b)
    PROVE  LET c == FixLengthField(b)
           IN  /\ Grown(c, b, <<>>)
               /\ Len(c.stream.data) = Len(b.stream.data)
               /\ c.stream.data[2] = 2 * Len(b.stream.data) - 20
  <1> DEFINE c == FixLengthField(b)
             one == <<GetSize(b.stream) - 20>>
             k == 1
  <1>1. Len(b.stream.data) \in Nat /\ Len(b.stream.data) >= 10
        /\ GetSize(b.stream) = 2 * Len(b.stream.data)
    BY SoundIs
  <1>2. one \in Seq(Nat) /\ Len(one) = 1 /\ one[1] = 2 * Len(b.stream.data) - 20
    BY <1>1
  <1> DEFINE u == SeekDirect(Write(SeekDirect(b.stream, 2 * k), one), b.stream.pos)
  <1>3. c = [b EXCEPT !.stream = u]
    <2>1. b.stream \in Streams /\ 2 * k = 2
      BY SoundIs
    <2>2. QED
      BY <2>1 DEF FixLengthField, STUN_HEADER_SIZE
  <1>4. k \in Nat /\ k = 1
    OBVIOUS
  <1> HIDE DEF c, one, k
  <1>5. /\ Sound(c) /\ c.transid = b.transid /\ c.legacy = b.legacy
        /\ Len(c.stream.data) = Len(b.stream.data)
        /\ c.stream.data[k + 1] = one[1]
        /\ \A i \in 1..Len(b.stream.data) :
              i # k + 1 => c.stream.data[i] = b.stream.data[i]
    <2>1. k \in Nat /\ k < Len(b.stream.data)
      BY <1>4, <1>1
    <2>2. b \in Builders /\ u \in Streams
      <3>1. b \in Builders /\ b.stream \in Streams /\ b.stream.pos \in Nat /\ 2 * k \in Nat
            /\ Len(b.stream.data) \in Nat /\ GetSize(b.stream) <= b.stream.allocated
        BY <1>4, <1>1, SoundIs DEF Sound, Builders, Streams
      <3> DEFINE t == SeekDirect(b.stream, 2 * k)
      <3>2. t \in Streams /\ t.data = b.stream.data /\ t.pos = 2 * k
            /\ t.allocated = b.stream.allocated
        BY <3>1, SeekKeeps
      <3> HIDE DEF t
      <3>3. Write(t, one) \in Streams
        BY <1>2, <2>1, <3>1, <3>2, WriteInside DEF GetSize
      <3>4. SeekDirect(Write(t, one), b.stream.pos) \in Streams
        BY <3>1, <3>3, SeekKeeps
      <3>5. QED
        BY <3>1, <3>4 DEF t
    <2> HIDE DEF u
    <2>3. /\ c \in Builders /\ c.transid = b.transid /\ c.legacy = b.legacy
          /\ c.stream = SeekDirect(Write(SeekDirect(b.stream, 2 * k), one), b.stream.pos)
      <3>1. c \in Builders /\ c.transid = b.transid /\ c.legacy = b.legacy /\ c.stream = u
        BY <1>3, <2>2 DEF Builders
      <3>2. QED
        BY <3>1 DEF u
    <2>4. QED
      BY <1>2, <2>1, <2>3, WordReplaced, SMTT(20)
  <1>6. QED
    BY <1>4, <1>1, <1>2, <1>5 DEF Grown, c

(* An attribute as it stands in a message, after the first `at' words.     *)
Holds(data, at, type, size, value) ==
    /\ data[at + 1] = type
    /\ data[at + 2] = size
    /\ \A j \in 1..Len(value) : data[at + 2 + j] = value[j]

(* The words of an attribute with its padding, its header included.        *)
Extent(size) == 2 + ((size + Padding(size)) \div 2)

(* This attribute was added to a message.                                  *)
Carries(c, b, type, size, value) ==
    /\ Sound(c) /\ c.transid = b.transid /\ c.legacy = b.legacy
    /\ Len(c.stream.data) = Len(b.stream.data) + Extent(size)
    /\ \A i \in 1..Len(b.stream.data) : i # 2 => c.stream.data[i] = b.stream.data[i]
    /\ Holds(c.stream.data, Len(b.stream.data), type, size, value)

LEMMA HeaderAndValue ==
    ASSUME NEW b, Sound(b), NEW type \in Nat, NEW size \in Nat, NEW words \in Seq(Nat),
           2 * Len(words) = size + Padding(size),
           NEW c, Grown(c, AddAttributeHeader(b, type, size), words)
    PROVE  Carries(c, b, type, size, words)
  <1> DEFINE head == <<type, size>>
  <1>1. head \in Seq(Nat) /\ Len(head) = 2 /\ head[1] = type /\ head[2] = size
    OBVIOUS
  <1>2. Grown(AddAttributeHeader(b, type, size), b, head)
    BY <1>1, PutGrows DEF AddAttributeHeader
  <1> HIDE DEF head
  <1>3. Grown(c, b, head \o words)
    BY <1>1, <1>2, GrownTwice
  <1>4. head \o words \in Seq(Nat) /\ Joined(head \o words, head, words)
    BY <1>1, JoinedIs
  <1> DEFINE all == head \o words
  <1> HIDE DEF all
  <1>5. /\ Len(all) = 2 + Len(words) /\ all[1] = type /\ all[2] = size
        /\ \A j \in 1..Len(words) : all[2 + j] = words[j]
    BY <1>1, <1>4 DEF Joined, all
  <1>6. Len(words) = (size + Padding(size)) \div 2 /\ Len(words) \in Nat
    BY Half
  <1>7. Grown(c, b, all) /\ Len(b.stream.data) \in Nat
    BY <1>3, SoundIs DEF all
  <1>8. Holds(c.stream.data, Len(b.stream.data), type, size, words)
    <2> DEFINE n == Len(b.stream.data)
               D == c.stream.data
    <2>1. \A j \in 1..(2 + Len(words)) : D[n + j] = all[j]
      BY <1>5, <1>7 DEF Grown
    <2>2. n \in Nat
      BY <1>7
    <2> HIDE DEF n, D
    <2>3. D[n + 1] = type /\ D[n + 2] = size
      <3>1. 1 \in 1..(2 + Len(words)) /\ 2 \in 1..(2 + Len(words))
        BY <1>6
      <3>2. D[n + 1] = all[1] /\ D[n + 2] = all[2]
        BY <2>1, <3>1
      <3>3. QED
        BY <1>5, <3>2
    <2>4. ASSUME NEW j \in 1..Len(words) PROVE D[n + 2 + j] = words[j]
      <3>1. 2 + j \in 1..(2 + Len(words)) /\ n + (2 + j) = n + 2 + j
        BY <1>6, <2>2
      <3>2. QED
        BY <1>5, <2>1, <3>1
    <2>5. QED
      BY <2>3, <2>4 DEF Holds, n, D
  <1>9. QED
    BY <1>5, <1>6, <1>7, <1>8 DEF Carries, Grown, Extent

(* What AddAttribute writes as value and size.                             *)
Padded(words) == words \o Zeros(Padding(2 * Len(words)))

SizeWritten(legacy, words) ==
    IF legacy THEN 2 * Len(words) + Padding(2 * Len(words)) ELSE 2 * Len(words)

LEMMA PaddedIs ==
    ASSUME NEW words \in Seq(Nat), NEW legacy \in BOOLEAN
    PROVE  /\ Padded(words) \in Seq(Nat) /\ SizeWritten(legacy, words) \in Nat
           /\ 2 * Len(Padded(words)) = 2 * Len(words) + Padding(2 * Len(words))
           /\ 2 * Len(Padded(words)) = SizeWritten(legacy, words) + Padding(SizeWritten(legacy, words))
           /\ \A i \in 1..Len(words) : Padded(words)[i] = words[i]
           /\ \A i \in (Len(words) + 1)..Len(Padded(words)) : Padded(words)[i] = 0
           /\ Padding(2 * Len(words)) \in {0, 2}
  <1> DEFINE n == Len(words)
             pad == Padding(2 * n)
             zeros == Zeros(pad)
  <1>1. n \in Nat
    OBVIOUS
  <1>2. pad \in {0, 2} /\ (2 * n + pad) % 4 = 0
    BY <1>1, EvenPadding
  <1>3. Padding(2 * n + pad) = 0
    BY <1>2 DEF Padding
  <1>4. zeros \in Seq(Nat) /\ 2 * Len(zeros) = pad /\ \A i \in 1..Len(zeros) : zeros[i] = 0
    <2> HIDE DEF pad
    <2>1. pad \in Nat
      BY <1>2
    <2>2. zeros \in Seq(Nat) /\ Len(zeros) = pad \div 2 /\ \A i \in 1..(pad \div 2) : zeros[i] = 0
      BY <2>1, ZerosAre
    <2>3. pad \div 2 \in Nat /\ 2 * (pad \div 2) = pad
      BY <1>2
    <2> HIDE DEF zeros
    <2>4. QED
      BY <2>2, <2>3
  <1> HIDE DEF n, pad, zeros
  <1>5. Padded(words) = words \o zeros
    BY DEF Padded, n, pad, zeros
  <1>6. Padded(words) \in Seq(Nat) /\ Joined(Padded(words), words, zeros)
    BY <1>4, <1>5, JoinedIs
  <1>7. SizeWritten(legacy, words) = IF legacy THEN 2 * n + pad ELSE 2 * n
    BY DEF SizeWritten, n, pad
  <1>8. Len(Padded(words)) = n + Len(zeros) /\ Len(zeros) \in Nat
    BY <1>4, <1>6 DEF Joined, n
  <1>9. 2 * Len(Padded(words)) = 2 * n + pad
    BY <1>1, <1>2, <1>4, <1>8
  <1>10. SizeWritten(legacy, words) \in Nat
         /\ 2 * n + pad = SizeWritten(legacy, words) + Padding(SizeWritten(legacy, words))
    <2>1. CASE legacy
      BY <1>1, <1>2, <1>3, <1>7, <2>1
    <2>2. CASE ~legacy
      BY <1>1, <1>2, <1>7, <2>2 DEF pad
    <2>3. QED
      BY <2>1, <2>2
  <1>11. ASSUME NEW i \in (n + 1)..Len(Padded(words)) PROVE Padded(words)[i] = 0
    <2>1. i - n \in 1..Len(zeros) /\ n + (i - n) = i
      BY <1>1, <1>8
    <2>2. Padded(words)[n + (i - n)] = zeros[i - n]
      BY <1>6, <2>1 DEF Joined, n
    <2>3. QED
      BY <1>4, <2>1, <2>2
  <1>12. \A i \in 1..n : Padded(words)[i] = words[i]
    BY <1>6 DEF Joined, n
  <1>13. QED
    BY <1>2, <1>6, <1>9, <1>10, <1>11, <1>12 DEF n, pad

LEMMA AttributeAdded ==
    ASSUME NEW b, Sound(b), NEW type \in Nat, NEW words \in Seq(Nat)
    PROVE  Carries(AddAttribute(b, type, words), b, type,
                   SizeWritten(b.legacy, words), Padded(words))
  <1> DEFINE zeros == Zeros(Padding(2 * Len(words)))
             size == SizeWritten(b.legacy, words)
             h == AddAttributeHeader(b, type, size)
             p == Put(h, words)
             c == Put(p, zeros)
  <1>1. c = AddAttribute(b, type, words)
    BY DEF AddAttribute, SizeWritten
  <1>2. b.legacy \in BOOLEAN /\ Len(words) \in Nat
    BY SoundIs
  <1>3. size \in Nat /\ 2 * Len(Padded(words)) = size + Padding(size) /\ Padded(words) \in Seq(Nat)
    BY <1>2, PaddedIs
  <1>4. zeros \in Seq(Nat)
    <2>1. 2 * Len(words) \in Nat
      BY <1>2
    <2>2. Padding(2 * Len(words)) \in Nat
      BY <2>1, PaddingCompletes
    <2>3. QED
      BY <2>2, ZerosAre
  <1> HIDE DEF size
  <1>5. Sound(h)
    <2>1. <<type, size>> \in Seq(Nat)
      BY <1>3
    <2>2. QED
      BY <2>1, PutGrows DEF AddAttributeHeader, Grown
  <1>6. Padded(words) = words \o zeros
    BY DEF Padded
  <1> HIDE DEF zeros, h
  <1>7. Grown(p, h, words)
    BY <1>5, PutGrows
  <1>8. Grown(c, p, zeros)
    <2>1. Sound(p)
      BY <1>7 DEF Grown
    <2> HIDE DEF p
    <2>2. QED
      BY <1>4, <2>1, PutGrows
  <1> HIDE DEF p, c
  <1>9. Grown(c, h, Padded(words))
    BY <1>4, <1>5, <1>6, <1>7, <1>8, GrownTwice
  <1>10. Carries(c, b, type, size, Padded(words))
    BY <1>3, <1>9, HeaderAndValue DEF h
  <1>11. QED
    BY <1>1, <1>10 DEF size

(* -------- checksums ------------------------------------------------------- *)

SumStep(seed, words, f, i) ==
    IF i = 0 THEN seed ELSE ((f[i - 1] * 31) + words[i]) % 65521

IsSum(seed, words, f) == f = [i \in 0..Len(words) |-> SumStep(seed, words, f, i)]

(* The function Checksum is defined with exists.                           *)
LEMMA SumExists ==
    ASSUME NEW seed \in Nat, NEW words \in Seq(Nat)
    PROVE  \E f : IsSum(seed, words, f)
  <1> DEFINE Upto(n, f) == f = [i \in 0..n |-> SumStep(seed, words, f, i)]
             Good == {n \in Nat : \E f : Upto(n, f)}
  <1>1. 0 \in Good
    <2> DEFINE f == [i \in 0..0 |-> seed]
    <2>1. \A i \in 0..0 : SumStep(seed, words, f, i) = seed
      BY DEF SumStep
    <2>2. Upto(0, f)
      BY <2>1
    <2>3. \E g : Upto(0, g)
      <3> HIDE DEF Upto, f
      <3>1. QED
        BY <2>2
    <2>4. QED
      <3> HIDE DEF Upto
      <3>1. QED
        BY <2>3
  <1>2. ASSUME NEW n \in Good PROVE n + 1 \in Good
    <2>1. PICK f : Upto(n, f)
      OBVIOUS
    <2>2. n \in Nat /\ n + 1 \in Nat
      OBVIOUS
    <2> DEFINE last == SumStep(seed, words, f, n + 1)
               g == [i \in 0..(n + 1) |-> IF i <= n THEN f[i] ELSE last]
    <2>3. ASSUME NEW i \in 0..(n + 1) PROVE g[i] = SumStep(seed, words, g, i)
      <3>1. CASE i <= n
        <4>1. i \in 0..n /\ g[i] = f[i] /\ (i # 0 => g[i - 1] = f[i - 1])
          BY <2>2, <2>3, <3>1
        <4>2. f[i] = SumStep(seed, words, f, i)
          BY <2>1, <4>1
        <4>3. SumStep(seed, words, f, i) = SumStep(seed, words, g, i)
          <5> HIDE DEF g
          <5>1. QED
            BY <4>1 DEF SumStep
        <4>4. QED
          BY <4>1, <4>2, <4>3
      <3>2. CASE ~(i <= n)
        <4>1. i = n + 1 /\ g[i] = last /\ i # 0 /\ g[i - 1] = f[i - 1]
          BY <2>2, <2>3, <3>2
        <4>2. SumStep(seed, words, f, i) = SumStep(seed, words, g, i)
          <5> HIDE DEF g
          <5>1. QED
            BY <4>1 DEF SumStep
        <4>3. QED
          BY <4>1, <4>2
      <3>3. QED
        BY <3>1, <3>2
    <2> HIDE DEF last
    <2>4. g = [i \in 0..(n + 1) |-> g[i]]
      OBVIOUS
    <2>5. Upto(n + 1, g)
      <3> HIDE DEF g
      <3>1. QED
        BY <2>3, <2>4
    <2>6. \E h : Upto(n + 1, h)
      <3> HIDE DEF Upto, g
      <3>1. QED
        BY <2>5
    <2>7. QED
      <3> HIDE DEF Upto
      <3>1. QED
        BY <2>2, <2>6
  <1>3. Good = Nat
    <2>1. Good \in SUBSET Nat
      OBVIOUS
    <2> HIDE DEF Good
    <2>2. QED
      BY <1>1, <1>2, <2>1, CountUp
  <1>4. Len(words) \in Good
    BY <1>3
  <1>5. QED
    BY <1>4 DEF IsSum

LEMMA ChecksumIsWord ==
    ASSUME NEW seed \in Nat, NEW words \in Seq(Nat)
    PROVE  Checksum(seed, words) \in Nat
  <1> DEFINE f == CHOOSE f : IsSum(seed, words, f)
             Good == {n \in Nat : n <= Len(words) => f[n] \in Nat}
  <1>1. IsSum(seed, words, f)
    BY SumExists
  <1>2. Checksum(seed, words) = f[Len(words)]
    BY DEF Checksum, IsSum, SumStep
  <1> HIDE DEF f
  <1>3. \A n \in 0..Len(words) : f[n] = SumStep(seed, words, f, n)
    BY <1>1 DEF IsSum
  <1>4. 0 \in Good
    BY <1>3 DEF SumStep
  <1>5. ASSUME NEW n \in Good PROVE n + 1 \in Good
    <2>1. SUFFICES ASSUME n + 1 <= Len(words) PROVE f[n + 1] \in Nat
      OBVIOUS
    <2>2. f[n] \in Nat /\ words[n + 1] \in Nat /\ n + 1 \in 0..Len(words) /\ n + 1 # 0
          /\ (n + 1) - 1 = n
      BY <2>1
    <2>3. f[n + 1] = ((f[n] * 31) + words[n + 1]) % 65521
      BY <1>3, <2>2 DEF SumStep
    <2> DEFINE x == f[n]
               y == words[n + 1]
    <2> HIDE DEF x, y
    <2>4. x \in Nat /\ y \in Nat => ((x * 31) + y) % 65521 \in Nat
      OBVIOUS
    <2>5. QED
      BY <2>2, <2>3, <2>4 DEF x, y
  <1>6. Good = Nat
    <2>1. Good \in SUBSET Nat
      OBVIOUS
    <2> HIDE DEF Good
    <2>2. QED
      BY <1>4, <1>5, <2>1, CountUp
  <1>7. QED
    BY <1>2, <1>6

(* -------- seals ----------------------------------------------------------- *)

(* What a seal signs: all that precedes it, with the length the message    *)
(* has when it ends with the seal.                                         *)
Signed(data, at, words) == [SubSeq(data, 1, at) EXCEPT ![2] = 2 * (at + 2 + words) - 20]

(* The value of a seal after the first `at' words: the checksum of what it *)
(* signs, whatever followed it later.                                      *)
SealAt(data, at, words, seed) ==
    /\ data[at + 3] = Checksum(seed, Signed(data, at, words))
    /\ \A j \in 2..words : data[at + 2 + j] = 0

LEMMA SignedIs ==
    ASSUME NEW data \in Seq(Nat), NEW at \in Nat, at >= 10, at <= Len(data), NEW words \in Nat
    PROVE  LET signed == Signed(data, at, words)
           IN  /\ signed \in Seq(Nat) /\ Len(signed) = at
               /\ signed[2] = 2 * (at + 2 + words) - 20
               /\ \A i \in 1..at : i # 2 => signed[i] = data[i]
  <1> DEFINE part == SubSeq(data, 1, at)
             length == 2 * (at + 2 + words) - 20
             signed == [part EXCEPT ![2] = length]
  <1>1. (at - 1) + 1 = at /\ length \in Nat /\ 2 \in 1..at
    OBVIOUS
  <1>2. part \in Seq(Nat) /\ Len(part) = at /\ \A i \in 1..at : part[i] = data[i]
    <2> DEFINE from == 1
    <2>1. from \in Nat /\ 1 <= from /\ from <= at + 1 /\ (at - from) + 1 = at
          /\ part = SubSeq(data, from, at)
      BY <1>1
    <2>2. \A i \in 1..at : (from + i) - 1 = i
      OBVIOUS
    <2> HIDE DEF from, part
    <2>3. /\ part \in Seq(Nat) /\ Len(part) = (at - from) + 1
          /\ \A i \in 1..((at - from) + 1) : part[i] = data[(from + i) - 1]
      BY <2>1, PartIs
    <2>4. QED
      BY <2>1, <2>2, <2>3
  <1>3. Signed(data, at, words) = signed
    BY DEF Signed
  <1> HIDE DEF part, length
  <1>4. /\ signed \in Seq(Nat) /\ Len(signed) = at /\ signed[2] = length
        /\ \A i \in 1..at : i # 2 => signed[i] = part[i]
    BY <1>1, <1>2
  <1> HIDE DEF signed
  <1>5. \A i \in 1..at : i # 2 => signed[i] = data[i]
    BY <1>2, <1>4
  <1>6. QED
    BY <1>3, <1>4, <1>5 DEF length

LEMMA SignedAsIs ==
    ASSUME NEW data \in Seq(Nat), NEW at \in Nat, at >= 10, at <= Len(data), NEW words \in Nat,
           data[2] = 2 * (at + 2 + words) - 20
    PROVE  SubSeq(data, 1, at) = Signed(data, at, words)
  <1> DEFINE part == SubSeq(data, 1, at)
             signed == Signed(data, at, words)
             from == 1
  <1>1. from \in Nat /\ 1 <= from /\ from <= at + 1 /\ (at - from) + 1 = at
        /\ part = SubSeq(data, from, at)
    OBVIOUS
  <1>2. \A i \in 1..at : (from + i) - 1 = i
    OBVIOUS
  <1>3. signed \in Seq(Nat) /\ Len(signed) = at /\ signed[2] = data[2]
        /\ \A i \in 1..at : i # 2 => signed[i] = data[i]
    BY SignedIs
  <1> HIDE DEF from, part, signed
  <1>4. /\ part \in Seq(Nat) /\ Len(part) = (at - from) + 1
        /\ \A i \in 1..((at - from) + 1) : part[i] = data[(from + i) - 1]
    BY <1>1, PartIs
  <1>5. Len(part) = at /\ \A i \in 1..at : part[i] = data[i]
    BY <1>1, <1>2, <1>4
  <1>6. \A i \in 1..Len(part) : part[i] = signed[i]
    BY <1>3, <1>5
  <1>7. part = signed
    BY <1>3, <1>4, <1>5, <1>6, SeqEqual
  <1>8. QED
    BY <1>7 DEF part, signed

(* It does not depend on the length that is in the header.                 *)
LEMMA SignedIsSame ==
    ASSUME NEW old \in Seq(Nat), NEW new \in Seq(Nat), NEW at \in Nat, at >= 10,
           at <= Len(old), at <= Len(new), NEW words \in Nat,
           \A i \in 1..at : i # 2 => new[i] = old[i]
    PROVE  Signed(new, at, words) = Signed(old, at, words)
  <1> DEFINE s == Signed(new, at, words)
             t == Signed(old, at, words)
             length == 2 * (at + 2 + words) - 20
  <1>1. s \in Seq(Nat) /\ Len(s) = at /\ s[2] = length
        /\ \A i \in 1..at : i # 2 => s[i] = new[i]
    BY SignedIs
  <1>2. t \in Seq(Nat) /\ Len(t) = at /\ t[2] = length
        /\ \A i \in 1..at : i # 2 => t[i] = old[i]
    BY SignedIs
  <1> HIDE DEF s, t, length
  <1>3. \A i \in 1..Len(s) : s[i] = t[i]
    BY <1>1, <1>2
  <1>4. s = t
    BY <1>1, <1>2, <1>3, SeqEqual
  <1>5. QED
    BY <1>4 DEF s, t

LEMMA SealStays ==
    ASSUME NEW old \in Seq(Nat), NEW new \in Seq(Nat), NEW at \in Nat, at >= 10,
           NEW words \in {2, 10}, NEW seed, SealAt(old, at, words, seed),
           at + 2 + words <= Len(old), Len(old) <= Len(new),
           \A i \in 1..Len(old) : i # 2 => new[i] = old[i]
    PROVE  SealAt(new, at, words, seed)
  <1> DEFINE m == Len(old)
             n == Len(new)
  <1>1. words \in Nat /\ words >= 2 /\ m \in Nat /\ n \in Nat /\ at + 2 + words <= m /\ m <= n
    OBVIOUS
  <1>2. Signed(new, at, words) = Signed(old, at, words)
    <2>1. at <= Len(old) /\ at <= Len(new)
      <3> HIDE DEF m, n
      <3>1. at <= m /\ at <= n
        BY <1>1
      <3>2. QED
        BY <3>1 DEF m, n
    <2>2. \A i \in 1..at : i # 2 => new[i] = old[i]
      BY <1>1, <2>1
    <2>3. QED
      BY <1>1, <2>1, <2>2, SignedIsSame
  <1>3. new[at + 3] = old[at + 3]
    BY <1>1
  <1>4. ASSUME NEW j \in 2..words PROVE new[at + 2 + j] = old[at + 2 + j]
    <2>1. at + 2 + j \in 1..Len(old) /\ at + 2 + j # 2
      BY <1>1
    <2>2. QED
      BY <2>1
  <1>5. QED
    BY <1>2, <1>3, <1>4 DEF SealAt

LEMMA SealCarries ==
    ASSUME NEW b, Sound(b), NEW type \in Nat, NEW words \in {2, 10}, NEW seed \in Nat
    PROVE  /\ Carries(Seal(b, type, words, seed), b, type, 2 * words, <<>>)
           /\ SealAt(Seal(b, type, words, seed).stream.data, Len(b.stream.data), words, seed)
  <1> DEFINE zeros == Zeros(2 * words)
             a == AddAttribute(b, type, zeros)
             dummy == FixLengthField(a)
             end == GetSize(dummy.stream)
             value == end - 2 * words
             sum == Checksum(seed, Bytes(dummy.stream, 0, value - 4))
             u == SeekDirect(Write(SeekDirect(dummy.stream, value), <<sum>>), end)
             c == [dummy EXCEPT !.stream = u]
             n == Len(b.stream.data)
  <1>1. c = Seal(b, type, words, seed)
    BY DEF Seal
  <1>2. b.legacy \in BOOLEAN /\ n \in Nat /\ n >= 10
    BY SoundIs
  <1>3. zeros \in Seq(Nat) /\ Len(zeros) = words
    <2>1. 2 * words \in Nat /\ (2 * words) \div 2 = words
      OBVIOUS
    <2>2. QED
      BY <2>1, ZerosAre
  <1>4. SizeWritten(b.legacy, zeros) = 2 * words /\ Extent(2 * words) = 2 + words
    <2>1. Padding(2 * words) = 0
      BY DEF Padding
    <2> HIDE DEF zeros
    <2>2. QED
      BY <1>3, <2>1 DEF SizeWritten, Extent
  <1>5. \A j \in 1..words : zeros[j] = 0
    <2>1. 2 * words \in Nat /\ (2 * words) \div 2 = words
      OBVIOUS
    <2>2. QED
      BY <2>1, ZerosAre
  <1> HIDE DEF zeros
  <1>6. Carries(a, b, type, 2 * words, Padded(zeros))
    BY <1>3, <1>4, AttributeAdded
  <1>7. \A j \in 1..words : Padded(zeros)[j] = 0 /\ j \in 1..Len(Padded(zeros))
    <2>1. /\ \A j \in 1..words : Padded(zeros)[j] = zeros[j]
          /\ 2 * Len(Padded(zeros)) = 2 * words + Padding(2 * words) /\ Padded(zeros) \in Seq(Nat)
          /\ Padding(2 * words) \in {0, 2}
      BY <1>2, <1>3, PaddedIs
    <2>2. words <= Len(Padded(zeros)) /\ Len(Padded(zeros)) \in Nat
      BY <2>1
    <2>3. QED
      BY <1>5, <2>1, <2>2
  <1> HIDE DEF a
  <1>8. /\ Sound(a) /\ a.transid = b.transid /\ a.legacy = b.legacy
        /\ Len(a.stream.data) = n + 2 + words
        /\ \A i \in 1..n : i # 2 => a.stream.data[i] = b.stream.data[i]
        /\ a.stream.data[n + 1] = type /\ a.stream.data[n + 2] = 2 * words
    BY <1>2, <1>4, <1>6 DEF Carries, Holds
  <1>9. \A j \in 1..words : a.stream.data[n + 2 + j] = 0
    BY <1>6, <1>7 DEF Carries, Holds
  <1>10. /\ Sound(dummy) /\ dummy.transid = b.transid /\ dummy.legacy = b.legacy
         /\ Len(dummy.stream.data) = n + 2 + words
         /\ \A i \in 1..(n + 2 + words) : i # 2 => dummy.stream.data[i] = a.stream.data[i]
         /\ dummy.stream.data[2] = 2 * (n + 2 + words) - 20
    <2>1. /\ Grown(dummy, a, <<>>) /\ Len(dummy.stream.data) = Len(a.stream.data)
          /\ dummy.stream.data[2] = 2 * Len(a.stream.data) - 20
      BY <1>8, FixKeeps
    <2> HIDE DEF dummy
    <2>2. /\ Sound(dummy) /\ dummy.transid = a.transid /\ dummy.legacy = a.legacy
          /\ \A i \in 1..Len(a.stream.data) : i # 2 => dummy.stream.data[i] = a.stream.data[i]
      BY <2>1 DEF Grown
    <2>3. QED
      BY <1>8, <2>1, <2>2
  <1> HIDE DEF dummy, n
  <1>11. /\ \A i \in 1..n : i # 2 => dummy.stream.data[i] = b.stream.data[i]
         /\ dummy.stream.data[n + 1] = type /\ dummy.stream.data[n + 2] = 2 * words
    <2>1. \A i \in 1..n : i # 2 => dummy.stream.data[i] = a.stream.data[i]
      BY <1>2, <1>10
    <2>2. n + 1 \in 1..(n + 2 + words) /\ n + 2 \in 1..(n + 2 + words) /\ n + 1 # 2 /\ n + 2 # 2
      BY <1>2
    <2>3. QED
      BY <1>8, <1>10, <2>1, <2>2
  <1>12. end = 2 * (n + 2 + words) /\ dummy.stream.pos = end /\ dummy \in Builders
         /\ dummy.stream \in Streams /\ dummy.stream.data \in Seq(Nat)
         /\ end <= dummy.stream.allocated
    BY <1>10, SoundIs DEF Sound
  <1> DEFINE k == n + 2
  <1>13. value = 2 * k /\ k \in Nat /\ k < Len(dummy.stream.data) /\ value \in Nat /\ end \in Nat
    <2>1. words \in Nat /\ words > 0
      OBVIOUS
    <2> HIDE DEF end
    <2>2. value = 2 * (n + 2)
      BY <1>2, <1>12, <2>1
    <2> HIDE DEF value
    <2>3. end \in Nat
      BY <1>2, <1>12, <2>1
    <2>4. Len(dummy.stream.data) = n + 2 + words
      BY <1>10
    <2>5. k \in Nat /\ k = n + 2 /\ k < n + 2 + words
      BY <1>2, <2>1
    <2>6. QED
      BY <2>2, <2>3, <2>4, <2>5
  <1>14. Bytes(dummy.stream, 0, value - 4) = SubSeq(dummy.stream.data, 1, n)
    <2>1. value - 4 = 2 * n /\ (2 * n) \div 2 = n /\ (0 \div 2) + 1 = 1
      BY <1>2, <1>13
    <2> HIDE DEF value, end
    <2>2. QED
      BY <2>1 DEF Bytes
  <1>15. sum = Checksum(seed, SubSeq(dummy.stream.data, 1, n))
    BY <1>14
  <1>16. sum \in Nat
    <2>1. Bytes(dummy.stream, 0, value - 4) \in Seq(Nat)
      <3>1. n <= Len(dummy.stream.data) /\ 1 <= n + 1
        BY <1>2, <1>10
      <3>2. SubSeq(dummy.stream.data, 1, n) \in Seq(Nat)
        BY <1>2, <1>12, <3>1, PartIs
      <3>3. QED
        BY <1>14, <3>2
    <2> HIDE DEF value
    <2>2. QED
      BY <2>1, ChecksumIsWord
  <1> DEFINE one == <<sum>>
  <1> HIDE DEF sum, value, end
  <1>17. one \in Seq(Nat) /\ Len(one) = 1
    BY <1>16
  <1> HIDE DEF one, k
  <1>18. u \in Streams
    <2> DEFINE t == SeekDirect(dummy.stream, value)
    <2>1. t \in Streams /\ t.data = dummy.stream.data /\ t.pos = 2 * k
          /\ t.allocated = dummy.stream.allocated
      BY <1>12, <1>13, SeekKeeps
    <2>2. GetSize(t) <= t.allocated /\ k < Len(t.data)
      BY <1>12, <1>13, <2>1 DEF GetSize, end
    <2> HIDE DEF t
    <2>3. Write(t, one) \in Streams
      BY <1>13, <1>17, <2>1, <2>2, WriteInside
    <2>4. SeekDirect(Write(t, one), end) \in Streams
      BY <1>13, <2>3, SeekKeeps
    <2>5. QED
      BY <2>4 DEF t, one
  <1>19. c \in Builders /\ c.stream = u /\ c.transid = dummy.transid /\ c.legacy = dummy.legacy
    <2> HIDE DEF u
    <2>1. QED
      BY <1>12, <1>18 DEF Builders
  <1>20. u = SeekDirect(Write(SeekDirect(dummy.stream, 2 * k), one), dummy.stream.pos)
    BY <1>12, <1>13 DEF one
  <1> HIDE DEF u, c
  <1>21. /\ Sound(c)
         /\ Len(c.stream.data) = Len(dummy.stream.data)
         /\ c.stream.data[k + 1] = one[1]
         /\ \A i \in 1..Len(dummy.stream.data) :
               i # k + 1 => c.stream.data[i] = dummy.stream.data[i]
    <2>1. /\ Sound(dummy) /\ k \in Nat /\ k < Len(dummy.stream.data)
          /\ one \in Seq(Nat) /\ Len(one) = 1
      BY <1>10, <1>13, <1>17
    <2>2. /\ c \in Builders /\ c.transid = dummy.transid /\ c.legacy = dummy.legacy
          /\ c.stream
                = SeekDirect(Write(SeekDirect(dummy.stream, 2 * k), one), dummy.stream.pos)
      BY <1>19, <1>20
    <2>3. QED
      BY <2>1, <2>2, WordReplaced
  <1>22. \A i \in 1..(n + 2) : c.stream.data[i] = dummy.stream.data[i]
    BY <1>2, <1>10, <1>21 DEF k
  <1>23. /\ \A i \in 1..n : i # 2 => c.stream.data[i] = b.stream.data[i]
         /\ c.stream.data[n + 1] = type /\ c.stream.data[n + 2] = 2 * words
    <2>1. \A i \in 1..n : i \in 1..(n + 2)
      BY <1>2
    <2>2. n + 1 \in 1..(n + 2) /\ n + 2 \in 1..(n + 2)
      BY <1>2
    <2>3. QED
      BY <1>11, <1>22, <2>1, <2>2
  <1>24. Holds(c.stream.data, n, type, 2 * words, <<>>)
    BY <1>23 DEF Holds
  <1>25. Carries(c, b, type, 2 * words, <<>>)
    <2>1. Len(c.stream.data) = n + Extent(2 * words)
      BY <1>2, <1>4, <1>10, <1>21
    <2>2. QED
      BY <1>10, <1>19, <1>21, <1>23, <1>24, <2>1 DEF Carries, n
  <1> DEFINE D == c.stream.data
             E == dummy.stream.data
  <1>26. /\ D \in Seq(Nat) /\ E \in Seq(Nat) /\ Len(D) = n + 2 + words /\ Len(E) = n + 2 + words
         /\ E[2] = 2 * (n + 2 + words) - 20
    BY <1>10, <1>21, SoundIs
  <1>27. \A i \in 1..(n + 2 + words) : i # n + 3 => D[i] = E[i]
    <2>1. k + 1 = n + 3
      BY <1>2 DEF k
    <2>2. QED
      BY <1>21, <1>26, <2>1
  <1>28. D[n + 3] = sum
    <2>1. k + 1 = n + 3
      BY <1>2 DEF k
    <2>2. QED
      BY <1>21, <2>1 DEF one
  <1>29. SubSeq(E, 1, n) = Signed(D, n, words)
    <2> DEFINE part == SubSeq(E, 1, n)
               signed == Signed(D, n, words)
    <2>1. part = Signed(E, n, words)
      <3>1. n >= 10 /\ words \in Nat /\ n <= Len(E)
        BY <1>2, <1>26
      <3> HIDE DEF E
      <3>2. QED
        BY <1>2, <1>26, <3>1, SignedAsIs
    <2>2. \A i \in 1..n : i # 2 => D[i] = E[i]
      <3> HIDE DEF D, E
      <3>1. \A i \in 1..n : i \in 1..(n + 2 + words) /\ i # n + 3
        BY <1>2
      <3>2. QED
        BY <1>27, <3>1
    <2> HIDE DEF D, E
    <2>3. signed = Signed(E, n, words)
      <3>1. n <= Len(D) /\ n <= Len(E) /\ words \in Nat
        BY <1>2, <1>26
      <3>2. QED
        BY <1>2, <1>26, <2>2, <3>1, SignedIsSame
    <2>4. QED
      BY <2>1, <2>3
  <1>30. ASSUME NEW j \in 2..words PROVE D[n + 2 + j] = 0
    <2>1. n + 2 + j \in 1..(n + 2 + words) /\ n + 2 + j # n + 3 /\ n + 2 + j # 2 /\ j \in 1..words
      BY <1>2
    <2>2. D[n + 2 + j] = E[n + 2 + j]
      BY <1>27, <2>1
    <2>3. E[n + 2 + j] = a.stream.data[n + 2 + j]
      BY <1>10, <2>1
    <2>4. QED
      BY <1>9, <2>1, <2>2, <2>3
  <1>31. SealAt(D, n, words, seed)
    <2>1. D[n + 3] = Checksum(seed, Signed(D, n, words))
      BY <1>15, <1>28, <1>29
    <2> HIDE DEF D
    <2>2. QED
      BY <1>30, <2>1 DEF SealAt
  <1>32. QED
    BY <1>1, <1>25, <1>31 DEF n

(* -------- the attributes, by kind ----------------------------------------- *)

AddressWords(addr) == <<addr.family, addr.port>> \o addr.ip

AddressSize(addr) == IF addr.family = IPv4 THEN 8 ELSE 20

ChangeWords(change) ==
    <<0, (IF change.fChangeIP THEN 4 ELSE 0) + (IF change.fChangePort THEN 2 ELSE 0)>>

ErrorWords(number) == <<0, ((number \div 100) * 256) + (number % 100)>> \o <<14, 15, 16>>

TypesWritten(types, legacy) ==
    IF legacy /\ Len(types) % 2 = 1 THEN Append(types, Last(types)) ELSE types

TypeOf(kind, legacy) ==
    CASE kind = "mapped" -> STUN_ATTRIBUTE_MAPPEDADDRESS
      [] kind = "xor" -> IF legacy THEN STUN_ATTRIBUTE_XORMAPPEDADDRESS_OPTIONAL
                         ELSE STUN_ATTRIBUTE_XORMAPPEDADDRESS
      [] kind = "origin" -> IF legacy THEN STUN_ATTRIBUTE_SOURCEADDRESS
                            ELSE STUN_ATTRIBUTE_RESPONSE_ORIGIN
      [] kind = "other" -> IF legacy THEN STUN_ATTRIBUTE_CHANGEDADDRESS
                           ELSE STUN_ATTRIBUTE_OTHER_ADDRESS
      [] kind = "change" -> STUN_ATTRIBUTE_CHANGEREQUEST
      [] kind = "port" -> STUN_ATTRIBUTE_RESPONSE_PORT
      [] kind = "error" -> STUN_ATTRIBUTE_ERRORCODE
      [] kind = "realm" -> STUN_ATTRIBUTE_REALM
      [] kind = "unknown" -> STUN_ATTRIBUTE_UNKNOWNATTRIBUTES
      [] kind = "padding" -> STUN_ATTRIBUTE_PADDING
      [] kind = "integrity" -> STUN_ATTRIBUTE_MESSAGEINTEGRITY
      [] kind = "fingerprint" -> STUN_ATTRIBUTE_FINGERPRINT

SizeOf(a, legacy, transid) ==
    CASE a.kind \in {"mapped", "origin", "other"} -> AddressSize(a.value)
      [] a.kind = "xor" -> AddressSize(ApplyStunXorMap(a.value, transid))
      [] a.kind = "change" -> SizeWritten(legacy, ChangeWords(a.value))
      [] a.kind = "port" -> SizeWritten(legacy, <<a.value>>)
      [] a.kind = "error" -> SizeWritten(legacy, ErrorWords(a.value))
      [] a.kind = "realm" -> SizeWritten(legacy, a.value)
      [] a.kind = "unknown" -> 2 * Len(TypesWritten(a.value, legacy))
      [] a.kind = "padding" -> a.value + Padding(a.value)
      [] a.kind = "integrity" -> 20
      [] a.kind = "fingerprint" -> 4

(* What a getter will read; nothing is read of the other kinds' values.    *)
ValueOf(a, legacy, transid) ==
    CASE a.kind \in {"mapped", "origin", "other"} -> AddressWords(a.value)
      [] a.kind = "xor" -> AddressWords(ApplyStunXorMap(a.value, transid))
      [] a.kind = "change" -> Padded(ChangeWords(a.value))
      [] a.kind = "port" -> Padded(<<a.value>>)
      [] a.kind = "error" -> Padded(ErrorWords(a.value))
      [] a.kind = "realm" -> Padded(a.value)
      [] OTHER -> <<>>

(* The attribute ends on a boundary of four bytes.                         *)
Aligned(a, legacy) == a.kind = "unknown" => legacy \/ Len(a.value) % 2 = 0

CarriesAddition(c, b, a) ==
    Carries(c, b, TypeOf(a.kind, b.legacy), SizeOf(a, b.legacy, b.transid),
            ValueOf(a, b.legacy, b.transid))

LEMMA FunctionIsSequence ==
    ASSUME NEW n \in Nat, NEW f \in [1..n -> Nat]
    PROVE  f \in Seq(Nat) /\ Len(f) = n
  OBVIOUS

LEMMA AddressIs ==
    ASSUME NEW addr \in WellFormedAddress
    PROVE  /\ AddressWords(addr) \in Seq(Nat)
           /\ AddressSize(addr) \in {8, 20} /\ Padding(AddressSize(addr)) = 0
           /\ 2 * Len(AddressWords(addr)) = AddressSize(addr)
           /\ addr.ip \in Seq(Nat) /\ 2 * Len(addr.ip) = AddressSize(addr) - 4
           /\ addr.family = IF AddressSize(addr) = 8 THEN IPv4 ELSE IPv6
           /\ AddressWords(addr)[1] = addr.family /\ AddressWords(addr)[2] = addr.port
           /\ \A i \in 1..Len(addr.ip) : AddressWords(addr)[2 + i] = addr.ip[i]
  <1> DEFINE head == <<addr.family, addr.port>>
             ip == addr.ip
             words == head \o ip
             n == Len(ip)
  <1>1. /\ addr.family \in Nat /\ addr.port \in Nat
        /\ \/ addr.family = IPv4 /\ ip \in [1..2 -> Nat]
           \/ addr.family = IPv6 /\ ip \in [1..8 -> Nat]
    BY DEF WellFormedAddress, IPv4, IPv6
  <1>2. IPv4 # IPv6 /\ IPv4 \in Nat /\ IPv6 \in Nat
    BY DEF IPv4, IPv6
  <1> HIDE DEF ip
  <1>3. ip \in Seq(Nat) /\ n \in {2, 8} /\ addr.family = IF n = 2 THEN IPv4 ELSE IPv6
    <2>1. CASE addr.family = IPv4 /\ ip \in [1..2 -> Nat]
      <3>1. ip \in Seq(Nat) /\ n = 2
        BY <2>1, FunctionIsSequence
      <3>2. QED
        BY <2>1, <3>1
    <2>2. CASE addr.family = IPv6 /\ ip \in [1..8 -> Nat]
      <3>1. ip \in Seq(Nat) /\ n = 8
        BY <2>2, FunctionIsSequence
      <3>2. QED
        BY <2>2, <3>1
    <2>3. QED
      BY <1>1, <2>1, <2>2
  <1>4. head \in Seq(Nat) /\ Len(head) = 2 /\ head[1] = addr.family /\ head[2] = addr.port
    BY <1>1
  <1> HIDE DEF head
  <1>5. words \in Seq(Nat) /\ Joined(words, head, ip)
    BY <1>3, <1>4, JoinedIs
  <1> HIDE DEF words
  <1>6. /\ Len(words) = 2 + n /\ words[1] = addr.family /\ words[2] = addr.port
        /\ \A i \in 1..n : words[2 + i] = ip[i]
    BY <1>4, <1>5 DEF Joined
  <1> HIDE DEF n
  <1>7. AddressSize(addr) = IF n = 2 THEN 8 ELSE 20
    BY <1>2, <1>3 DEF AddressSize
  <1>8. Padding(8) = 0 /\ Padding(20) = 0
    BY DEF Padding
  <1>9. words = AddressWords(addr)
    BY DEF words, head, ip, AddressWords
  <1>10. AddressSize(addr) \in {8, 20} /\ Padding(AddressSize(addr)) = 0
         /\ 2 * Len(words) = AddressSize(addr) /\ 2 * n = AddressSize(addr) - 4
         /\ addr.family = IF AddressSize(addr) = 8 THEN IPv4 ELSE IPv6
    <2>1. CASE n = 2
      BY <1>3, <1>6, <1>7, <1>8, <2>1
    <2>2. CASE n = 8
      BY <1>3, <1>6, <1>7, <1>8, <2>2
    <2>3. QED
      BY <1>3, <2>1, <2>2
  <1>11. QED
    BY <1>3, <1>5, <1>6, <1>9, <1>10 DEF n, ip

LEMMA AddressCarried ==
    ASSUME NEW b, Sound(b), NEW type \in Nat, NEW addr \in WellFormedAddress
    PROVE  Carries(AddMappedAddressImpl(b, type, addr), b, type,
                   AddressSize(addr), AddressWords(addr))
  <1> DEFINE size == AddressSize(addr)
             words == AddressWords(addr)
             h == AddAttributeHeader(b, type, size)
  <1>1. size \in Nat /\ words \in Seq(Nat) /\ 2 * Len(words) = size + Padding(size)
    BY AddressIs
  <1>2. AddMappedAddressImpl(b, type, addr) = Put(h, words)
    BY DEF AddMappedAddressImpl, AddressSize, AddressWords
  <1> HIDE DEF size, words
  <1>3. Sound(h)
    <2>1. <<type, size>> \in Seq(Nat)
      BY <1>1
    <2>2. QED
      BY <2>1, PutGrows DEF AddAttributeHeader, Grown
  <1>4. Grown(Put(h, words), h, words)
    <2> HIDE DEF h
    <2>1. QED
      BY <1>1, <1>3, PutGrows
  <1>5. Carries(Put(h, words), b, type, size, words)
    BY <1>1, <1>4, HeaderAndValue
  <1>6. QED
    BY <1>2, <1>5 DEF size, words

LEMMA HeaderSound ==
    ASSUME NEW b, Sound(b), NEW type \in Nat, NEW size \in Nat
    PROVE  Sound(AddAttributeHeader(b, type, size))
  <1>1. <<type, size>> \in Seq(Nat)
    OBVIOUS
  <1>2. QED
    BY <1>1, PutGrows DEF AddAttributeHeader, Grown

(* What fills its attribute completely.                                    *)
LEMMA ExactCarries ==
    ASSUME NEW b, Sound(b), NEW type \in Nat, NEW size \in Nat, NEW words \in Seq(Nat),
           2 * Len(words) = size, size % 4 = 0
    PROVE  Carries(Put(AddAttributeHeader(b, type, size), words), b, type, size, <<>>)
  <1> DEFINE h == AddAttributeHeader(b, type, size)
  <1>1. Sound(h)
    BY HeaderSound
  <1>2. Grown(Put(h, words), h, words)
    <2> HIDE DEF h
    <2>1. QED
      BY <1>1, PutGrows
  <1>3. 2 * Len(words) = size + Padding(size)
    BY DEF Padding
  <1>4. Carries(Put(h, words), b, type, size, words)
    BY <1>2, <1>3, HeaderAndValue
  <1>5. QED
    BY <1>4 DEF Carries, Holds

LEMMA AdditionIs ==
    ASSUME NEW a \in Additions
    PROVE  \/ a.kind \in {"mapped", "xor", "origin", "other"} /\ a.value \in Addresses
           \/ a.kind = "change" /\ a.value \in Changes
           \/ a.kind = "port" /\ a.value \in Ports
           \/ a.kind = "error" /\ a.value \in Errors
           \/ a.kind = "realm" /\ a.value \in Realms
           \/ a.kind = "unknown" /\ a.value \in TypeLists
           \/ a.kind = "padding" /\ a.value \in Paddings
           \/ a.kind = "integrity" /\ a.value \in Keys
           \/ a.kind = "fingerprint"
  BY DEF Additions

\* The value of an addition, by its kind.
LEMMA ValueIs ==
    ASSUME NEW a \in Additions
    PROVE  /\ a.kind = "change" => a.value \in [fChangeIP : BOOLEAN, fChangePort : BOOLEAN]
           /\ a.kind = "port" => a.value \in Nat
           /\ a.kind = "error" => a.value \in 300..600
           /\ a.kind = "realm" => /\ a.value \in Seq(Nat \ {0}) /\ Len(a.value) \in 1..31
                                  /\ 2 * Len(a.value) + 2 <= MAX_STUN_ATTRIBUTE_SIZE
           /\ a.kind = "unknown" => /\ a.value \in Seq(Nat) /\ a.value # <<>>
                                    /\ 2 * Len(a.value) + 2 <= MAX_STUN_ATTRIBUTE_SIZE
           /\ a.kind = "padding" => a.value \in Nat /\ a.value % 2 = 0
           /\ a.kind = "integrity" => a.value \in Nat
  <1>1. /\ a.kind = "change" => a.value \in Changes
        /\ a.kind = "port" => a.value \in Ports
        /\ a.kind = "error" => a.value \in Errors
        /\ a.kind = "realm" => a.value \in Realms
        /\ a.kind = "unknown" => a.value \in TypeLists
        /\ a.kind = "padding" => a.value \in Paddings
        /\ a.kind = "integrity" => a.value \in Keys
    BY AdditionIs
  <1>2. /\ Changes \subseteq [fChangeIP : BOOLEAN, fChangePort : BOOLEAN]
        /\ Ports \subseteq Nat /\ Keys \subseteq Nat /\ Errors \subseteq 300..600
    BY ValueAssumption
  <1>3. \A realm \in Realms : /\ realm \in Seq(Nat \ {0}) /\ Len(realm) \in 1..31
                              /\ 2 * Len(realm) + 2 <= MAX_STUN_ATTRIBUTE_SIZE
    BY ValueAssumption
  <1>4. \A types \in TypeLists : /\ types \in Seq(Nat) /\ types # <<>>
                                 /\ 2 * Len(types) + 2 <= MAX_STUN_ATTRIBUTE_SIZE
    BY ValueAssumption
  <1>5. \A size \in Paddings : size \in Nat /\ size % 2 = 0
    BY ValueAssumption
  <1>6. a.kind = "realm" => /\ a.value \in Seq(Nat \ {0}) /\ Len(a.value) \in 1..31
                            /\ 2 * Len(a.value) + 2 <= MAX_STUN_ATTRIBUTE_SIZE
    BY <1>1, <1>3, Zenon
  <1>7. a.kind = "unknown" => /\ a.value \in Seq(Nat) /\ a.value # <<>>
                              /\ 2 * Len(a.value) + 2 <= MAX_STUN_ATTRIBUTE_SIZE
    BY <1>1, <1>4, Zenon
  <1>8. a.kind = "padding" => a.value \in Nat /\ a.value % 2 = 0
    BY <1>1, <1>5, Zenon
  <1>9. QED
    BY <1>1, <1>2, <1>6, <1>7, <1>8, ZenonT(40)

LEMMA TypesAreNumbers ==
    /\ STUN_ATTRIBUTE_MAPPEDADDRESS \in Nat /\ STUN_ATTRIBUTE_CHANGEREQUEST \in Nat
    /\ STUN_ATTRIBUTE_SOURCEADDRESS \in Nat /\ STUN_ATTRIBUTE_CHANGEDADDRESS \in Nat
    /\ STUN_ATTRIBUTE_MESSAGEINTEGRITY \in Nat /\ STUN_ATTRIBUTE_ERRORCODE \in Nat
    /\ STUN_ATTRIBUTE_UNKNOWNATTRIBUTES \in Nat /\ STUN_ATTRIBUTE_REALM \in Nat
    /\ STUN_ATTRIBUTE_XORMAPPEDADDRESS \in Nat /\ STUN_ATTRIBUTE_PADDING \in Nat
    /\ STUN_ATTRIBUTE_RESPONSE_PORT \in Nat /\ STUN_ATTRIBUTE_XORMAPPEDADDRESS_OPTIONAL \in Nat
    /\ STUN_ATTRIBUTE_FINGERPRINT \in Nat /\ STUN_ATTRIBUTE_RESPONSE_ORIGIN \in Nat
    /\ STUN_ATTRIBUTE_OTHER_ADDRESS \in Nat
  BY DEF STUN_ATTRIBUTE_MAPPEDADDRESS, STUN_ATTRIBUTE_CHANGEREQUEST,
         STUN_ATTRIBUTE_SOURCEADDRESS, STUN_ATTRIBUTE_CHANGEDADDRESS,
         STUN_ATTRIBUTE_MESSAGEINTEGRITY, STUN_ATTRIBUTE_ERRORCODE,
         STUN_ATTRIBUTE_UNKNOWNATTRIBUTES, STUN_ATTRIBUTE_REALM,
         STUN_ATTRIBUTE_XORMAPPEDADDRESS, STUN_ATTRIBUTE_PADDING,
         STUN_ATTRIBUTE_RESPONSE_PORT, STUN_ATTRIBUTE_XORMAPPEDADDRESS_OPTIONAL,
         STUN_ATTRIBUTE_FINGERPRINT, STUN_ATTRIBUTE_RESPONSE_ORIGIN,
         STUN_ATTRIBUTE_OTHER_ADDRESS

(* Addresses.                                                              *)
LEMMA AddressAdded ==
    ASSUME NEW b, Sound(b), b.transid \in TransactionIds, NEW a \in Additions,
           a.kind \in {"mapped", "xor", "origin", "other"}
    PROVE  CarriesAddition(AddTo(b, a), b, a)
  <1>1. a.value \in Addresses /\ a.value \in WellFormedAddress
        /\ ApplyStunXorMap(a.value, b.transid) \in WellFormedAddress
    BY AdditionIs, AddressAssumption
  <1>2. CASE a.kind = "mapped"
    <2>1. AddTo(b, a) = AddMappedAddressImpl(b, STUN_ATTRIBUTE_MAPPEDADDRESS, a.value)
      BY <1>2 DEF AddTo, AddMappedAddress
    <2>2. TypeOf(a.kind, b.legacy) = STUN_ATTRIBUTE_MAPPEDADDRESS
      BY <1>2 DEF TypeOf
    <2>3. SizeOf(a, b.legacy, b.transid) = AddressSize(a.value)
          /\ ValueOf(a, b.legacy, b.transid) = AddressWords(a.value)
      BY <1>2 DEF SizeOf, ValueOf
    <2>4. QED
      BY <1>1, <2>1, <2>2, <2>3, AddressCarried, TypesAreNumbers DEF CarriesAddition
  <1>3. CASE a.kind = "xor"
    <2> DEFINE type == IF b.legacy THEN STUN_ATTRIBUTE_XORMAPPEDADDRESS_OPTIONAL
                       ELSE STUN_ATTRIBUTE_XORMAPPEDADDRESS
               addr == ApplyStunXorMap(a.value, b.transid)
    <2>1. AddTo(b, a) = AddMappedAddressImpl(b, type, addr)
      BY <1>3 DEF AddTo, AddXorMappedAddress
    <2>2. TypeOf(a.kind, b.legacy) = type
      BY <1>3 DEF TypeOf
    <2>3. SizeOf(a, b.legacy, b.transid) = AddressSize(addr)
          /\ ValueOf(a, b.legacy, b.transid) = AddressWords(addr)
      BY <1>3 DEF SizeOf, ValueOf
    <2>4. type \in Nat /\ addr \in WellFormedAddress
      BY <1>1, TypesAreNumbers
    <2> HIDE DEF type, addr
    <2>5. QED
      BY <2>1, <2>2, <2>3, <2>4, AddressCarried DEF CarriesAddition
  <1>4. CASE a.kind = "origin"
    <2> DEFINE type == IF b.legacy THEN STUN_ATTRIBUTE_SOURCEADDRESS
                       ELSE STUN_ATTRIBUTE_RESPONSE_ORIGIN
    <2>1. AddTo(b, a) = AddMappedAddressImpl(b, type, a.value)
      BY <1>4 DEF AddTo, AddResponseOriginAddress
    <2>2. TypeOf(a.kind, b.legacy) = type
      BY <1>4 DEF TypeOf
    <2>3. SizeOf(a, b.legacy, b.transid) = AddressSize(a.value)
          /\ ValueOf(a, b.legacy, b.transid) = AddressWords(a.value)
      BY <1>4 DEF SizeOf, ValueOf
    <2>4. type \in Nat
      BY TypesAreNumbers
    <2> HIDE DEF type
    <2>5. QED
      BY <1>1, <2>1, <2>2, <2>3, <2>4, AddressCarried DEF CarriesAddition
  <1>5. CASE a.kind = "other"
    <2> DEFINE type == IF b.legacy THEN STUN_ATTRIBUTE_CHANGEDADDRESS
                       ELSE STUN_ATTRIBUTE_OTHER_ADDRESS
    <2>1. AddTo(b, a) = AddMappedAddressImpl(b, type, a.value)
      BY <1>5 DEF AddTo, AddOtherAddress
    <2>2. TypeOf(a.kind, b.legacy) = type
      BY <1>5 DEF TypeOf
    <2>3. SizeOf(a, b.legacy, b.transid) = AddressSize(a.value)
          /\ ValueOf(a, b.legacy, b.transid) = AddressWords(a.value)
      BY <1>5 DEF SizeOf, ValueOf
    <2>4. type \in Nat
      BY TypesAreNumbers
    <2> HIDE DEF type
    <2>5. QED
      BY <1>1, <2>1, <2>2, <2>3, <2>4, AddressCarried DEF CarriesAddition
  <1>6. QED
    BY <1>2, <1>3, <1>4, <1>5

LEMMA ErrorIs ==
    ASSUME NEW number \in 300..600
    PROVE  /\ ErrorWords(number) \in Seq(Nat) /\ Len(ErrorWords(number)) = 5
           /\ ErrorWords(number)[2] = ((number \div 100) * 256) + (number % 100)
  <1> DEFINE w == ((number \div 100) * 256) + (number % 100)
             head == <<0, w>>
             reason == <<14, 15, 16>>
  <1>1. w \in Nat
    OBVIOUS
  <1> HIDE DEF w
  <1>2. head \in Seq(Nat) /\ Len(head) = 2 /\ head[2] = w /\ reason \in Seq(Nat) /\ Len(reason) = 3
    BY <1>1
  <1> HIDE DEF head, reason
  <1>3. head \o reason \in Seq(Nat) /\ Joined(head \o reason, head, reason)
    BY <1>2, JoinedIs
  <1>4. ErrorWords(number) = head \o reason
    BY DEF ErrorWords, head, reason, w
  <1>5. Len(head \o reason) = 5 /\ (head \o reason)[2] = w
    BY <1>2, <1>3 DEF Joined
  <1>6. QED
    BY <1>3, <1>4, <1>5 DEF w

LEMMA ChangeIs ==
    ASSUME NEW change \in [fChangeIP : BOOLEAN, fChangePort : BOOLEAN]
    PROVE  ChangeWords(change) \in Seq(Nat) /\ Len(ChangeWords(change)) = 2
  BY DEF ChangeWords

(* Values of words that AddAttribute pads.                                 *)
LEMMA PaddedAdded ==
    ASSUME NEW b, Sound(b), b.transid \in TransactionIds, NEW a \in Additions,
           a.kind \in {"change", "port", "error", "realm"}
    PROVE  CarriesAddition(AddTo(b, a), b, a)
  <1>1. CASE a.kind = "change"
    <2>1. a.value \in [fChangeIP : BOOLEAN, fChangePort : BOOLEAN]
      BY <1>1, ValueIs
    <2>2. ChangeWords(a.value) \in Seq(Nat)
      BY <2>1, ChangeIs
    <2>3. AddTo(b, a) = AddAttribute(b, STUN_ATTRIBUTE_CHANGEREQUEST, ChangeWords(a.value))
      BY <1>1 DEF AddTo, AddChangeRequest, ChangeWords
    <2>4. /\ TypeOf(a.kind, b.legacy) = STUN_ATTRIBUTE_CHANGEREQUEST
          /\ SizeOf(a, b.legacy, b.transid) = SizeWritten(b.legacy, ChangeWords(a.value))
          /\ ValueOf(a, b.legacy, b.transid) = Padded(ChangeWords(a.value))
      BY <1>1 DEF TypeOf, SizeOf, ValueOf
    <2>5. QED
      BY <2>2, <2>3, <2>4, AttributeAdded, TypesAreNumbers DEF CarriesAddition
  <1>2. CASE a.kind = "port"
    <2> DEFINE words == <<a.value>>
    <2>1. a.value \in Nat
      BY <1>2, ValueIs
    <2>2. words \in Seq(Nat)
      BY <2>1
    <2>3. AddTo(b, a) = AddAttribute(b, STUN_ATTRIBUTE_RESPONSE_PORT, words)
      BY <1>2 DEF AddTo, AddResponsePort
    <2>4. /\ TypeOf(a.kind, b.legacy) = STUN_ATTRIBUTE_RESPONSE_PORT
          /\ SizeOf(a, b.legacy, b.transid) = SizeWritten(b.legacy, words)
          /\ ValueOf(a, b.legacy, b.transid) = Padded(words)
      BY <1>2 DEF TypeOf, SizeOf, ValueOf
    <2> HIDE DEF words
    <2>5. QED
      BY <2>2, <2>3, <2>4, AttributeAdded, TypesAreNumbers DEF CarriesAddition
  <1>3. CASE a.kind = "error"
    <2> DEFINE words == ErrorWords(a.value)
    <2>1. a.value \in 300..600
      BY <1>3, ValueIs
    <2>2. words \in Seq(Nat)
      BY <2>1, ErrorIs
    <2>3. AddErrorCode(b, a.value, <<14, 15, 16>>) = AddAttribute(b, STUN_ATTRIBUTE_ERRORCODE, words)
      <3>1. ~(a.value < 300) /\ ~(a.value > 600) /\ ~(2 * Len(<<14, 15, 16>>) >= 128)
        BY <2>1
      <3>2. QED
        BY <3>1 DEF AddErrorCode, ErrorWords
    <2>4. AddTo(b, a) = AddAttribute(b, STUN_ATTRIBUTE_ERRORCODE, words)
      BY <1>3, <2>3 DEF AddTo
    <2>5. /\ TypeOf(a.kind, b.legacy) = STUN_ATTRIBUTE_ERRORCODE
          /\ SizeOf(a, b.legacy, b.transid) = SizeWritten(b.legacy, words)
          /\ ValueOf(a, b.legacy, b.transid) = Padded(words)
      BY <1>3 DEF TypeOf, SizeOf, ValueOf
    <2> HIDE DEF words
    <2>6. QED
      BY <2>2, <2>4, <2>5, AttributeAdded, TypesAreNumbers DEF CarriesAddition
  <1>4. CASE a.kind = "realm"
    <2>1. a.value \in Seq(Nat) /\ a.value # <<>>
      <3>1. a.value \in Seq(Nat \ {0}) /\ Len(a.value) \in 1..31
        BY <1>4, ValueIs
      <3>2. a.value \in Seq(Nat)
        BY <3>1, SeqMonotonic
      <3>3. Len(<<>>) \notin 1..31
        OBVIOUS
      <3>4. a.value # <<>>
        BY <3>1, <3>3, Zenon
      <3>5. QED
        BY <3>2, <3>4
    <2>2. AddTo(b, a) = AddAttribute(b, STUN_ATTRIBUTE_REALM, a.value)
      BY <1>4, <2>1 DEF AddTo, AddStringAttribute
    <2>3. /\ TypeOf(a.kind, b.legacy) = STUN_ATTRIBUTE_REALM
          /\ SizeOf(a, b.legacy, b.transid) = SizeWritten(b.legacy, a.value)
          /\ ValueOf(a, b.legacy, b.transid) = Padded(a.value)
      BY <1>4 DEF TypeOf, SizeOf, ValueOf
    <2>4. QED
      BY <2>1, <2>2, <2>3, AttributeAdded, TypesAreNumbers DEF CarriesAddition
  <1>5. QED
    BY <1>1, <1>2, <1>3, <1>4

LEMMA TypesAreWritten ==
    ASSUME NEW types \in Seq(Nat), types # <<>>, NEW legacy \in BOOLEAN
    PROVE  /\ TypesWritten(types, legacy) \in Seq(Nat)
           /\ 2 * Len(TypesWritten(types, legacy)) <= 2 * Len(types) + 2
           /\ legacy \/ Len(types) % 2 = 0 => (2 * Len(TypesWritten(types, legacy))) % 4 = 0
  <1> DEFINE n == Len(types)
  <1>1. n \in Nat \ {0}
    BY EmptySeq
  <1>2. Last(types) \in Nat
    BY <1>1 DEF Last
  <1>3. CASE legacy /\ n % 2 = 1
    <2>1. TypesWritten(types, legacy) = Append(types, Last(types))
      BY <1>3 DEF TypesWritten
    <2>2. Append(types, Last(types)) \in Seq(Nat) /\ Len(Append(types, Last(types))) = n + 1
      BY <1>2, AppendProperties
    <2> HIDE DEF n
    <2>3. (2 * (n + 1)) % 4 = 0
      BY <1>1, <1>3
    <2>4. QED
      BY <1>1, <2>1, <2>2, <2>3, SMTT(20) DEF n
  <1>4. CASE ~(legacy /\ n % 2 = 1)
    <2>1. TypesWritten(types, legacy) = types
      BY <1>4 DEF TypesWritten
    <2> HIDE DEF n
    <2>2. legacy \/ n % 2 = 0 => (2 * n) % 4 = 0
      BY <1>1, <1>4
    <2>3. QED
      BY <1>1, <2>1, <2>2 DEF n
  <1>5. QED
    BY <1>3, <1>4

(* Lists of types, padding, seals.                                         *)
LEMMA OthersAdded ==
    ASSUME NEW b, Sound(b), NEW a \in Additions, Aligned(a, b.legacy),
           a.kind \in {"unknown", "padding", "integrity", "fingerprint"}
    PROVE  CarriesAddition(AddTo(b, a), b, a)
  <1>1. ValueOf(a, b.legacy, b.transid) = <<>>
    BY DEF ValueOf
  <1>2. CASE a.kind = "unknown"
    <2> DEFINE words == TypesWritten(a.value, b.legacy)
               size == 2 * Len(words)
    <2>1. a.value \in Seq(Nat) /\ a.value # <<>> /\ b.legacy \in BOOLEAN
      BY <1>2, ValueIs, SoundIs
    <2>2. words \in Seq(Nat) /\ size % 4 = 0
      BY <1>2, <2>1, TypesAreWritten DEF Aligned
    <2>3. AddTo(b, a) = Put(AddAttributeHeader(b, STUN_ATTRIBUTE_UNKNOWNATTRIBUTES, size), words)
      BY <1>2 DEF AddTo, AddUnknownAttributes, TypesWritten
    <2>4. TypeOf(a.kind, b.legacy) = STUN_ATTRIBUTE_UNKNOWNATTRIBUTES
          /\ SizeOf(a, b.legacy, b.transid) = size
      BY <1>2 DEF TypeOf, SizeOf
    <2> HIDE DEF words
    <2>5. size \in Nat /\ 2 * Len(words) = size
      BY <2>2
    <2> HIDE DEF size
    <2>6. QED
      BY <1>1, <2>2, <2>3, <2>4, <2>5, ExactCarries, TypesAreNumbers DEF CarriesAddition
  <1>3. CASE a.kind = "padding"
    <2> DEFINE size == a.value + Padding(a.value)
               words == Zeros(size)
    <2>1. a.value \in Nat /\ a.value % 2 = 0
      BY <1>3, ValueIs
    <2>2. size \in Nat /\ size % 4 = 0
      <3>1. Padding(a.value) \in 0..3 /\ (a.value + Padding(a.value)) % 4 = 0
        BY <2>1, PaddingCompletes
      <3>2. QED
        BY <2>1, <3>1
    <2>3. AddTo(b, a) = Put(AddAttributeHeader(b, STUN_ATTRIBUTE_PADDING, size), words)
      BY <1>3 DEF AddTo, AddPaddingAttribute
    <2>4. TypeOf(a.kind, b.legacy) = STUN_ATTRIBUTE_PADDING
          /\ SizeOf(a, b.legacy, b.transid) = size
      BY <1>3 DEF TypeOf, SizeOf
    <2> HIDE DEF size
    <2>5. words \in Seq(Nat) /\ Len(words) = size \div 2
      BY <2>2, ZerosAre
    <2>6. 2 * (size \div 2) = size
      BY <2>2
    <2> HIDE DEF words
    <2>7. QED
      BY <1>1, <2>2, <2>3, <2>4, <2>5, <2>6, ExactCarries, TypesAreNumbers DEF CarriesAddition
  <1>4. CASE a.kind = "integrity"
    <2>1. a.value \in Nat
      BY <1>4, ValueIs
    <2>2. AddTo(b, a) = Seal(b, STUN_ATTRIBUTE_MESSAGEINTEGRITY, 10, a.value)
      BY <1>4 DEF AddTo, AddMessageIntegrityImpl
    <2>3. TypeOf(a.kind, b.legacy) = STUN_ATTRIBUTE_MESSAGEINTEGRITY
          /\ SizeOf(a, b.legacy, b.transid) = 2 * 10
      BY <1>4 DEF TypeOf, SizeOf
    <2> DEFINE n == 10
    <2>4. n \in {2, 10} /\ n = 10
      OBVIOUS
    <2> HIDE DEF n
    <2>5. Carries(Seal(b, STUN_ATTRIBUTE_MESSAGEINTEGRITY, n, a.value), b,
                  STUN_ATTRIBUTE_MESSAGEINTEGRITY, 2 * n, <<>>)
      BY <2>1, <2>4, SealCarries, TypesAreNumbers
    <2>6. QED
      BY <1>1, <2>2, <2>3, <2>4, <2>5 DEF CarriesAddition
  <1>5. CASE a.kind = "fingerprint"
    <2>1. AddTo(b, a) = Seal(b, STUN_ATTRIBUTE_FINGERPRINT, 2, 0)
      BY <1>5 DEF AddTo, AddFingerprintAttribute
    <2>2. TypeOf(a.kind, b.legacy) = STUN_ATTRIBUTE_FINGERPRINT
          /\ SizeOf(a, b.legacy, b.transid) = 2 * 2
      BY <1>5 DEF TypeOf, SizeOf
    <2> DEFINE n == 2
    <2>3. n \in {2, 10} /\ n = 2 /\ 0 \in Nat
      OBVIOUS
    <2> HIDE DEF n
    <2>4. Carries(Seal(b, STUN_ATTRIBUTE_FINGERPRINT, n, 0), b,
                  STUN_ATTRIBUTE_FINGERPRINT, 2 * n, <<>>)
      BY <2>3, SealCarries, TypesAreNumbers
    <2>5. QED
      BY <1>1, <2>1, <2>2, <2>3, <2>4 DEF CarriesAddition
  <1>6. QED
    BY <1>2, <1>3, <1>4, <1>5

(* Every method of the builder adds its attribute.                         *)
LEMMA AdditionCarried ==
    ASSUME NEW b, Sound(b), b.transid \in TransactionIds, NEW a \in Additions,
           Aligned(a, b.legacy)
    PROVE  CarriesAddition(AddTo(b, a), b, a)
  <1>1. \/ a.kind \in {"mapped", "xor", "origin", "other"}
        \/ a.kind \in {"change", "port", "error", "realm"}
        \/ a.kind \in {"unknown", "padding", "integrity", "fingerprint"}
    BY AdditionIs
  <1>2. QED
    BY <1>1, AddressAdded, PaddedAdded, OthersAdded

(* An even size makes whole words with its padding.                        *)
LEMMA ExtentOfEven ==
    ASSUME NEW size \in Nat, size % 2 = 0
    PROVE  /\ Extent(size) \in Nat /\ Extent(size) >= 2
           /\ 2 * Extent(size) = 4 + size + Padding(size)
  BY DEF Extent, Padding

(* A size is even, and within the limit of the reader but for a padding.   *)
LEMMA AdditionSize ==
    ASSUME NEW a \in Additions, NEW legacy \in BOOLEAN, NEW transid \in TransactionIds
    PROVE  LET size == SizeOf(a, legacy, transid)
           IN  /\ size \in Nat /\ size % 2 = 0
               /\ a.kind # "padding" => size <= MAX_STUN_ATTRIBUTE_SIZE
  <1> DEFINE size == SizeOf(a, legacy, transid)
  <1> SUFFICES /\ size \in Nat /\ size % 2 = 0
               /\ a.kind # "padding" => size <= MAX_STUN_ATTRIBUTE_SIZE
    OBVIOUS
  <1>1. MAX_STUN_ATTRIBUTE_SIZE \in Nat /\ MAX_STUN_ATTRIBUTE_SIZE >= 20
    BY ReaderAssumption, ValueAssumption
  <1>2. CASE a.kind \in {"mapped", "xor", "origin", "other"}
    <2>1. a.value \in WellFormedAddress /\ ApplyStunXorMap(a.value, transid) \in WellFormedAddress
      BY <1>2, AdditionIs, AddressAssumption
    <2>2. size = AddressSize(a.value) \/ size = AddressSize(ApplyStunXorMap(a.value, transid))
      BY <1>2 DEF SizeOf
    <2>3. size \in {8, 20}
      BY <2>1, <2>2, AddressIs
    <2> HIDE DEF size
    <2>4. QED
      BY <1>1, <2>3
  <1>3. ASSUME NEW words \in Seq(Nat), size = SizeWritten(legacy, words),
               2 * Len(words) + 2 <= MAX_STUN_ATTRIBUTE_SIZE
        PROVE  size \in Nat /\ size % 2 = 0 /\ size <= MAX_STUN_ATTRIBUTE_SIZE
    <2> DEFINE n == Len(words)
    <2>1. n \in Nat
      OBVIOUS
    <2>2. Padding(2 * n) \in {0, 2}
      BY <1>3, PaddedIs
    <2>3. /\ 2 * n + 2 <= MAX_STUN_ATTRIBUTE_SIZE
          /\ size = IF legacy THEN 2 * n + Padding(2 * n) ELSE 2 * n
      BY <1>3 DEF SizeWritten
    <2> HIDE DEF size, n
    <2>4. QED
      BY <1>1, <2>1, <2>2, <2>3
  <1>4. CASE a.kind = "change"
    <2>1. ChangeWords(a.value) \in Seq(Nat) /\ Len(ChangeWords(a.value)) = 2
      BY <1>4, ValueIs, ChangeIs
    <2> DEFINE words == ChangeWords(a.value)
    <2>2. size = SizeWritten(legacy, words)
      BY <1>4 DEF SizeOf
    <2> HIDE DEF size, words
    <2>3. words \in Seq(Nat) /\ 2 * Len(words) + 2 <= MAX_STUN_ATTRIBUTE_SIZE
      BY <1>1, <2>1 DEF words
    <2>4. size \in Nat /\ size % 2 = 0 /\ size <= MAX_STUN_ATTRIBUTE_SIZE
      BY <1>3, <2>2, <2>3
    <2>5. QED
      BY <2>4
  <1>5. CASE a.kind = "port"
    <2>1. a.value \in Nat
      BY <1>5, ValueIs
    <2> DEFINE words == <<a.value>>
    <2>2. words \in Seq(Nat) /\ Len(words) = 1
      BY <2>1
    <2>3. size = SizeWritten(legacy, words)
      BY <1>5 DEF SizeOf
    <2> HIDE DEF size, words
    <2>4. 2 * Len(words) + 2 <= MAX_STUN_ATTRIBUTE_SIZE
      BY <1>1, <2>2
    <2>5. QED
      BY <1>3, <2>2, <2>3, <2>4
  <1>6. CASE a.kind = "error"
    <2>1. a.value \in 300..600
      BY <1>6, ValueIs
    <2>2. ErrorWords(a.value) \in Seq(Nat) /\ Len(ErrorWords(a.value)) = 5
      BY <2>1, ErrorIs
    <2> DEFINE words == ErrorWords(a.value)
    <2>3. size = SizeWritten(legacy, words)
      BY <1>6 DEF SizeOf
    <2> HIDE DEF size, words
    <2>4. words \in Seq(Nat) /\ 2 * Len(words) + 2 <= MAX_STUN_ATTRIBUTE_SIZE
      BY <1>1, <2>2 DEF words
    <2>5. size \in Nat /\ size % 2 = 0 /\ size <= MAX_STUN_ATTRIBUTE_SIZE
      BY <1>3, <2>3, <2>4
    <2>6. QED
      BY <2>5
  <1>7. CASE a.kind = "realm"
    <2>1. a.value \in Seq(Nat \ {0}) /\ Len(a.value) \in Nat
          /\ 2 * Len(a.value) + 2 <= MAX_STUN_ATTRIBUTE_SIZE
      BY <1>7, ValueIs
    <2>2. a.value \in Seq(Nat)
      BY <2>1, SeqMonotonic
    <2>3. size = SizeWritten(legacy, a.value)
      BY <1>7 DEF SizeOf
    <2> HIDE DEF size
    <2>4. QED
      BY <1>3, <2>1, <2>2, <2>3
  <1>8. CASE a.kind = "unknown"
    <2> DEFINE words == TypesWritten(a.value, legacy)
    <2>1. a.value \in Seq(Nat) /\ a.value # <<>>
          /\ 2 * Len(a.value) + 2 <= MAX_STUN_ATTRIBUTE_SIZE
      BY <1>8, ValueIs
    <2>2. words \in Seq(Nat) /\ 2 * Len(words) <= 2 * Len(a.value) + 2
      BY <2>1, TypesAreWritten
    <2>3. size = 2 * Len(words)
      BY <1>8 DEF SizeOf
    <2> HIDE DEF size, words
    <2>4. Len(words) \in Nat /\ Len(a.value) \in Nat
      BY <2>1, <2>2
    <2>5. QED
      BY <1>1, <2>1, <2>2, <2>3, <2>4
  <1>9. CASE a.kind = "padding"
    <2>1. a.value \in Nat
      BY <1>9, ValueIs
    <2>2. Padding(a.value) \in 0..3 /\ (a.value + Padding(a.value)) % 4 = 0
      BY <2>1, PaddingCompletes
    <2>3. size = a.value + Padding(a.value)
      BY <1>9 DEF SizeOf
    <2> HIDE DEF size
    <2>4. size \in Nat /\ size % 4 = 0
      BY <2>1, <2>2, <2>3
    <2>5. size % 2 = 0
      BY <2>4
    <2>6. QED
      BY <1>9, <2>4, <2>5
  <1>10. CASE a.kind \in {"integrity", "fingerprint"}
    <2>1. size \in {4, 20}
      BY <1>10 DEF SizeOf
    <2> HIDE DEF size
    <2>2. QED
      BY <1>1, <2>1
  <1>11. QED
    BY <1>2, <1>4, <1>5, <1>6, <1>7, <1>8, <1>9, <1>10, AdditionIs

(* And leaves the message sound, aligned or not.                           *)
LEMMA AdditionSound ==
    ASSUME NEW b, Sound(b), b.transid \in TransactionIds, NEW a \in Additions
    PROVE  LET c == AddTo(b, a)
           IN  /\ Sound(c) /\ c.transid = b.transid /\ c.legacy = b.legacy
               /\ Len(b.stream.data) <= Len(c.stream.data)
               /\ \A i \in 1..Len(b.stream.data) :
                     i # 2 => c.stream.data[i] = b.stream.data[i]
  <1>1. CASE Aligned(a, b.legacy)
    <2> DEFINE c == AddTo(b, a)
               size == SizeOf(a, b.legacy, b.transid)
    <2>1. Carries(c, b, TypeOf(a.kind, b.legacy), size, ValueOf(a, b.legacy, b.transid))
      BY <1>1, AdditionCarried DEF CarriesAddition
    <2> HIDE DEF c
    <2>2. Sound(c) /\ c.transid = b.transid /\ c.legacy = b.legacy
          /\ Len(c.stream.data) = Len(b.stream.data) + Extent(size)
          /\ \A i \in 1..Len(b.stream.data) : i # 2 => c.stream.data[i] = b.stream.data[i]
      BY <2>1 DEF Carries
    <2>3. b.legacy \in BOOLEAN /\ Len(b.stream.data) \in Nat
      BY SoundIs
    <2>4. size \in Nat /\ size % 2 = 0
      BY <2>3, AdditionSize
    <2> HIDE DEF size
    <2>5. Extent(size) \in Nat
      BY <2>4, ExtentOfEven
    <2>6. Len(b.stream.data) <= Len(c.stream.data)
      BY <2>2, <2>3, <2>5
    <2>7. QED
      BY <2>2, <2>6 DEF c
  <1>2. CASE ~Aligned(a, b.legacy)
    <2> DEFINE words == TypesWritten(a.value, b.legacy)
               h == AddAttributeHeader(b, STUN_ATTRIBUTE_UNKNOWNATTRIBUTES, 2 * Len(words))
    <2>1. a.kind = "unknown"
      BY <1>2 DEF Aligned
    <2>2. a.value \in Seq(Nat) /\ a.value # <<>> /\ b.legacy \in BOOLEAN
      BY <2>1, ValueIs, SoundIs, SMTT(20)
    <2>3. words \in Seq(Nat)
      BY <2>2, TypesAreWritten
    <2>4. AddTo(b, a) = Put(h, words)
      BY <2>1 DEF AddTo, AddUnknownAttributes, TypesWritten
    <2> HIDE DEF words
    <2> DEFINE head == <<STUN_ATTRIBUTE_UNKNOWNATTRIBUTES, 2 * Len(words)>>
    <2>5. head \in Seq(Nat) /\ Len(head) = 2
      <3>1. STUN_ATTRIBUTE_UNKNOWNATTRIBUTES \in Nat /\ 2 * Len(words) \in Nat
        BY <2>3, TypesAreNumbers
      <3>2. QED
        BY <3>1
    <2>6. Grown(h, b, head)
      BY <2>5, PutGrows DEF AddAttributeHeader
    <2> HIDE DEF h, head
    <2>7. Sound(h) /\ h.transid = b.transid /\ h.legacy = b.legacy
          /\ Len(b.stream.data) <= Len(h.stream.data)
          /\ \A i \in 1..Len(b.stream.data) : i # 2 => h.stream.data[i] = b.stream.data[i]
      <3>1. Sound(h) /\ h.transid = b.transid /\ h.legacy = b.legacy
            /\ Len(h.stream.data) = Len(b.stream.data) + Len(head)
            /\ \A i \in 1..Len(b.stream.data) : i # 2 => h.stream.data[i] = b.stream.data[i]
        BY <2>6 DEF Grown
      <3>2. Len(b.stream.data) \in Nat
        BY SoundIs
      <3>3. QED
        BY <2>5, <3>1, <3>2
    <2>8. Grown(Put(h, words), h, words)
      BY <2>3, <2>7, PutGrows
    <2>9. Len(words) \in Nat /\ Len(h.stream.data) \in Nat /\ Len(b.stream.data) \in Nat
      BY <2>3, <2>7, SoundIs
    <2>10. QED
      BY <2>4, <2>7, <2>8, <2>9, SMTT(20) DEF Grown
  <1>3. QED
    BY <1>1, <1>2

(* -------- the message built ------------------------------------------------ *)

(* What AddHeader writes.                                                  *)
Headed(b) ==
    /\ b.transid \in TransactionIds
    /\ b.legacy = (SubSeq(b.transid, 1, 2) # STUN_COOKIE)
    /\ b.stream.data[1] < 16384
    /\ \A i \in 1..8 : b.stream.data[2 + i] = b.transid[i]

LEMMA HeaderMade ==
    ASSUME NEW class, NEW transid \in TransactionIds, NEW legacy \in BOOLEAN,
           legacy = (SubSeq(transid, 1, 2) # STUN_COOKIE)
    PROVE  LET b == AddHeader(class, transid, legacy, MAX_STUN_MESSAGE_SIZE)
           IN  /\ Sound(b) /\ Headed(b) /\ Len(b.stream.data) = 10
  <1> DEFINE type == 1 + (IF class \in {2, 3} THEN 256 ELSE 0)
                       + (IF class \in {1, 3} THEN 16 ELSE 0)
             head == <<type, 0>>
             words == head \o transid
             s == Attach(MAX_STUN_MESSAGE_SIZE)
             w == Write(s, words)
             b == [stream |-> w, transid |-> transid, legacy |-> legacy]
  <1>1. AddHeader(class, transid, legacy, MAX_STUN_MESSAGE_SIZE) = b
    BY DEF AddHeader
  <1>2. type \in Nat /\ type < 16384
    OBVIOUS
  <1> HIDE DEF type
  <1>3. head \in Seq(Nat) /\ Len(head) = 2 /\ head[1] = type
    BY <1>2
  <1>4. transid \in [1..8 -> Nat]
    BY AddressAssumption
  <1>5. transid \in Seq(Nat) /\ Len(transid) = 8
    BY <1>4, FunctionIsSequence
  <1> HIDE DEF head
  <1>6. words \in Seq(Nat) /\ Joined(words, head, transid)
    BY <1>3, <1>5, JoinedIs
  <1> HIDE DEF words
  <1>7. Len(words) = 10 /\ words[1] = type /\ \A i \in 1..8 : words[2 + i] = transid[i]
    BY <1>3, <1>5, <1>6 DEF Joined
  <1>8. MAX_STUN_MESSAGE_SIZE \in Nat
    BY ReaderAssumption
  <1>9. /\ s \in Streams /\ s.pos = GetSize(s) /\ s.data = <<>> /\ Len(s.data) = 0
        /\ s.attached = TRUE /\ s.allocated = MAX_STUN_MESSAGE_SIZE
    BY <1>8 DEF Attach, Streams, GetSize
  <1> HIDE DEF s
  <1>10. words # <<>>
    <2>1. Len(<<>>) # 10
      OBVIOUS
    <2>2. QED
      BY <1>7, <2>1, Zenon
  <1>11. /\ w \in Streams /\ Joined(w.data, s.data, words)
         /\ w.pos = GetSize(w) /\ GetSize(w) <= w.allocated
         /\ GetSize(w) <= s.allocated => w.attached = s.attached /\ w.allocated = s.allocated
         /\ GetSize(w) > s.allocated => ~w.attached
    BY <1>6, <1>9, <1>10, WriteAtEnd
  <1> HIDE DEF w
  <1>12. Len(w.data) = 10 /\ \A i \in 1..10 : w.data[i] = words[i]
    <2>1. Len(w.data) = Len(s.data) + Len(words)
          /\ \A j \in 1..Len(words) : w.data[Len(s.data) + j] = words[j]
      BY <1>11 DEF Joined
    <2>2. \A j \in 1..10 : 0 + j = j
      OBVIOUS
    <2>3. QED
      BY <1>7, <1>9, <2>1, <2>2
  <1>13. b \in Builders /\ b.stream = w /\ b.transid = transid /\ b.legacy = legacy
    BY <1>4, <1>11 DEF Builders
  <1>14. IF GetSize(w) <= MAX_STUN_MESSAGE_SIZE
         THEN w.attached /\ w.allocated = MAX_STUN_MESSAGE_SIZE ELSE ~w.attached
    <2>1. CASE GetSize(w) <= MAX_STUN_MESSAGE_SIZE
      <3>1. w.attached = s.attached /\ w.allocated = s.allocated
        BY <1>9, <1>11, <2>1
      <3>2. QED
        BY <1>9, <2>1, <3>1, Zenon
    <2>2. CASE ~(GetSize(w) <= MAX_STUN_MESSAGE_SIZE)
      <3>1. GetSize(w) > s.allocated
        BY <1>8, <1>9, <1>12, <2>2 DEF GetSize
      <3>2. QED
        BY <1>11, <2>2, <3>1
    <2>3. QED
      BY <2>1, <2>2
  <1> HIDE DEF b
  <1>15. Sound(b)
    BY <1>11, <1>12, <1>13, <1>14, SMTT(20) DEF Sound
  <1>16. /\ b.stream.data[1] < 16384
         /\ \A i \in 1..8 : b.stream.data[2 + i] = b.transid[i]
    <2>1. \A i \in 1..8 : 2 + i \in 1..10
      OBVIOUS
    <2>2. QED
      BY <1>2, <1>7, <1>12, <1>13, <2>1
  <1>17. Headed(b)
    BY <1>13, <1>16 DEF Headed
  <1>18. QED
    BY <1>1, <1>12, <1>13, <1>15, <1>17

(* A seal has its value.                                                   *)
Sealed(data, at, a) ==
    /\ a.kind = "integrity" => SealAt(data, at, 10, a.value)
    /\ a.kind = "fingerprint" => SealAt(data, at, 2, 0)

LEMMA AdditionSealed ==
    ASSUME NEW b, Sound(b), NEW a \in Additions
    PROVE  Sealed(AddTo(b, a).stream.data, Len(b.stream.data), a)
  <1> DEFINE n == Len(b.stream.data)
  <1>1. CASE a.kind = "integrity"
    <2>1. a.value \in Nat
      BY <1>1, ValueIs
    <2>2. AddTo(b, a) = Seal(b, STUN_ATTRIBUTE_MESSAGEINTEGRITY, 10, a.value)
      BY <1>1 DEF AddTo, AddMessageIntegrityImpl
    <2> DEFINE words == 10
    <2>3. words \in {2, 10}
      OBVIOUS
    <2> HIDE DEF words
    <2>4. SealAt(Seal(b, STUN_ATTRIBUTE_MESSAGEINTEGRITY, words, a.value).stream.data, n, words, a.value)
      BY <2>1, <2>3, SealCarries, TypesAreNumbers
    <2>5. SealAt(AddTo(b, a).stream.data, n, 10, a.value)
      BY <2>2, <2>4 DEF words
    <2> HIDE DEF n
    <2>6. Sealed(AddTo(b, a).stream.data, n, a)
      BY <1>1, <2>5 DEF Sealed
    <2>7. QED
      BY <2>6 DEF n
  <1>2. CASE a.kind = "fingerprint"
    <2>1. AddTo(b, a) = Seal(b, STUN_ATTRIBUTE_FINGERPRINT, 2, 0)
      BY <1>2 DEF AddTo, AddFingerprintAttribute
    <2> DEFINE words == 2
    <2>2. words \in {2, 10} /\ 0 \in Nat
      OBVIOUS
    <2> HIDE DEF words
    <2>3. SealAt(Seal(b, STUN_ATTRIBUTE_FINGERPRINT, words, 0).stream.data, n, words, 0)
      BY <2>2, SealCarries, TypesAreNumbers
    <2>4. SealAt(AddTo(b, a).stream.data, n, 2, 0)
      BY <2>1, <2>3 DEF words
    <2> HIDE DEF n
    <2>5. Sealed(AddTo(b, a).stream.data, n, a)
      BY <1>2, <2>4 DEF Sealed
    <2>6. QED
      BY <2>5 DEF n
  <1>3. QED
    BY <1>1, <1>2 DEF Sealed

(* The attribute that was added is this one.                               *)
IsAt(data, at, a, b) ==
    /\ Holds(data, at, TypeOf(a.kind, b.legacy), SizeOf(a, b.legacy, b.transid),
             ValueOf(a, b.legacy, b.transid))
    /\ Sealed(data, at, a)

ExtentOf(a, b) == Extent(SizeOf(a, b.legacy, b.transid))

(* Attributes lie one after the other from the header to the end, each on  *)
(* a boundary of four bytes: attribute i after the first at[i] words.      *)
LaidOut(data, attrs, b, at) ==
    /\ at \in [1..(Len(attrs) + 1) -> Nat]
    /\ at[1] = 10 /\ at[Len(attrs) + 1] = Len(data)
    /\ \A i \in 1..(Len(attrs) + 1) : at[i] >= 10 /\ at[i] <= Len(data) /\ at[i] % 2 = 0
    /\ \A i \in 1..Len(attrs) :
          at[i + 1] = at[i] + ExtentOf(attrs[i], b) /\ IsAt(data, at[i], attrs[i], b)

Layout(b, attrs) ==
    (\A i \in 1..Len(attrs) : Aligned(attrs[i], b.legacy)) =>
        \E at : LaidOut(b.stream.data, attrs, b, at)

LEMMA LayoutOfNothing ==
    ASSUME NEW b, Len(b.stream.data) = 10
    PROVE  Layout(b, <<>>)
  <1> DEFINE at == [i \in 1..1 |-> 10]
             none == <<>>
  <1>1. Len(none) = 0
    OBVIOUS
  <1> HIDE DEF none
  <1>2. LaidOut(b.stream.data, none, b, at)
    BY <1>1 DEF LaidOut
  <1> HIDE DEF at
  <1>3. Layout(b, none)
    BY <1>2 DEF Layout
  <1>4. QED
    BY <1>3 DEF none

(* An attribute stays where it is while words are added after it.          *)
LEMMA StaysAt ==
    ASSUME NEW old \in Seq(Nat), NEW new, NEW at \in Nat, at >= 10,
           NEW type, NEW size, NEW value \in Seq(Nat), Holds(old, at, type, size, value),
           at + 2 + Len(value) <= Len(old),
           \A i \in 1..Len(old) : i # 2 => new[i] = old[i]
    PROVE  Holds(new, at, type, size, value)
  <1>1. Len(old) \in Nat /\ Len(value) \in Nat
    OBVIOUS
  <1>2. at + 1 \in 1..Len(old) /\ at + 2 \in 1..Len(old) /\ at + 1 # 2 /\ at + 2 # 2
    BY <1>1
  <1>3. ASSUME NEW j \in 1..Len(value) PROVE new[at + 2 + j] = value[j]
    <2>1. at + 2 + j \in 1..Len(old) /\ at + 2 + j # 2
      BY <1>1
    <2>2. QED
      BY <2>1 DEF Holds
  <1>4. QED
    BY <1>2, <1>3 DEF Holds

(* A getter reads nothing beyond the attribute.                            *)
LEMMA ValueFits ==
    ASSUME NEW a \in Additions, NEW legacy \in BOOLEAN, NEW transid \in TransactionIds
    PROVE  LET value == ValueOf(a, legacy, transid)
               size == SizeOf(a, legacy, transid)
           IN  value \in Seq(Nat) /\ 2 + Len(value) <= Extent(size)
  <1> DEFINE value == ValueOf(a, legacy, transid)
             size == SizeOf(a, legacy, transid)
  <1> SUFFICES value \in Seq(Nat) /\ 2 + Len(value) <= Extent(size)
    OBVIOUS
  <1>1. /\ size \in Nat /\ Extent(size) \in Nat /\ Extent(size) >= 2
        /\ 2 * Extent(size) = 4 + size + Padding(size)
    <2>1. size \in Nat /\ size % 2 = 0
      BY AdditionSize
    <2> HIDE DEF size
    <2>2. QED
      BY <2>1, ExtentOfEven
  <1>2. ASSUME value \in Seq(Nat), 2 * Len(value) = size + Padding(size)
        PROVE  value \in Seq(Nat) /\ 2 + Len(value) <= Extent(size)
    <2> DEFINE n == Len(value)
               pad == Padding(size)
               x == Extent(size)
    <2>1. n \in Nat /\ 2 * n = size + pad /\ 2 * x = 4 + size + pad /\ x \in Nat
      BY <1>1, <1>2
    <2>2. pad \in Nat
      BY <1>1, PaddingCompletes
    <2> HIDE DEF n, pad, x, size, value
    <2>3. 2 + n <= x
      BY <1>1, <2>1, <2>2
    <2>4. QED
      BY <1>2, <2>3 DEF n, x
  <1>3. CASE a.kind \in {"mapped", "xor", "origin", "other"}
    <2>1. a.value \in WellFormedAddress /\ ApplyStunXorMap(a.value, transid) \in WellFormedAddress
      BY <1>3, AdditionIs, AddressAssumption
    <2>2. PICK addr \in WellFormedAddress : size = AddressSize(addr) /\ value = AddressWords(addr)
      BY <1>3, <2>1 DEF SizeOf, ValueOf
    <2>3. AddressWords(addr) \in Seq(Nat) /\ Padding(AddressSize(addr)) = 0
          /\ 2 * Len(AddressWords(addr)) = AddressSize(addr) /\ AddressSize(addr) \in Nat
      BY <2>2, AddressIs
    <2> HIDE DEF size, value
    <2>4. value \in Seq(Nat) /\ 2 * Len(value) = size + Padding(size)
      BY <2>2, <2>3
    <2>5. QED
      BY <1>2, <2>4
  <1>4. ASSUME NEW words \in Seq(Nat), size = SizeWritten(legacy, words), value = Padded(words)
        PROVE  value \in Seq(Nat) /\ 2 + Len(value) <= Extent(size)
    <2>1. Padded(words) \in Seq(Nat)
          /\ 2 * Len(Padded(words)) = SizeWritten(legacy, words) + Padding(SizeWritten(legacy, words))
      BY PaddedIs
    <2> HIDE DEF size, value
    <2>2. QED
      BY <1>2, <1>4, <2>1
  <1>5. CASE a.kind = "change"
    <2>1. ChangeWords(a.value) \in Seq(Nat)
      BY <1>5, ValueIs, ChangeIs
    <2>2. QED
      BY <1>4, <1>5, <2>1 DEF SizeOf, ValueOf
  <1>6. CASE a.kind = "port"
    <2>1. a.value \in Nat
      BY <1>6, ValueIs
    <2> DEFINE words == <<a.value>>
    <2>2. words \in Seq(Nat)
      BY <2>1
    <2>3. size = SizeWritten(legacy, words) /\ value = Padded(words)
      BY <1>6 DEF SizeOf, ValueOf
    <2> HIDE DEF words, size, value
    <2>4. QED
      BY <1>4, <2>2, <2>3
  <1>7. CASE a.kind = "error"
    <2>1. a.value \in 300..600
      BY <1>7, ValueIs
    <2>2. ErrorWords(a.value) \in Seq(Nat)
      BY <2>1, ErrorIs
    <2>3. QED
      BY <1>4, <1>7, <2>2 DEF SizeOf, ValueOf
  <1>8. CASE a.kind = "realm"
    <2>1. a.value \in Seq(Nat \ {0})
      BY <1>8, ValueIs
    <2>2. a.value \in Seq(Nat)
      BY <2>1, SeqMonotonic
    <2>3. QED
      BY <1>4, <1>8, <2>2 DEF SizeOf, ValueOf
  <1>9. CASE a.kind \in {"unknown", "padding", "integrity", "fingerprint"}
    <2>1. value = <<>>
      BY <1>9 DEF ValueOf
    <2>2. Len(<<>>) = 0 /\ <<>> \in Seq(Nat)
      OBVIOUS
    <2> HIDE DEF value, size
    <2>3. QED
      BY <1>1, <2>1, <2>2
  <1>10. QED
    BY <1>3, <1>5, <1>6, <1>7, <1>8, <1>9, AdditionIs

LEMMA ExtentIsEven ==
    ASSUME NEW a \in Additions, NEW b, b.legacy \in BOOLEAN, b.transid \in TransactionIds
    PROVE  ExtentOf(a, b) \in Nat /\ ExtentOf(a, b) >= 2 /\ ExtentOf(a, b) % 2 = 0
  <1> DEFINE size == SizeOf(a, b.legacy, b.transid)
             x == Extent(size)
             pad == Padding(size)
  <1>1. size \in Nat /\ size % 2 = 0
    BY AdditionSize
  <1>2. x = ExtentOf(a, b)
    BY DEF ExtentOf
  <1> HIDE DEF size
  <1>3. x \in Nat /\ x >= 2 /\ 2 * x = 4 + size + pad
    BY <1>1, ExtentOfEven
  <1>4. pad \in 0..3 /\ (size + pad) % 4 = 0
    BY <1>1, PaddingCompletes
  <1> HIDE DEF x, pad
  <1>5. x % 2 = 0
    BY <1>1, <1>3, <1>4
  <1>6. QED
    BY <1>2, <1>3, <1>5

(* What was laid out stays so in a message that begins with the old one.   *)
LEMMA StaysLaidOut ==
    ASSUME NEW b, Sound(b), b.transid \in TransactionIds, NEW attrs \in Seq(Additions), NEW at,
           LaidOut(b.stream.data, attrs, b, at),
           NEW c, c.legacy = b.legacy, c.transid = b.transid,
           c.stream.data \in Seq(Nat), Len(b.stream.data) <= Len(c.stream.data),
           \A i \in 1..Len(b.stream.data) : i # 2 => c.stream.data[i] = b.stream.data[i],
           NEW k \in 1..Len(attrs)
    PROVE  /\ at[k + 1] = at[k] + ExtentOf(attrs[k], c)
           /\ IsAt(c.stream.data, at[k], attrs[k], c)
  <1> DEFINE a == attrs[k]
             p == at[k]
             q == at[k + 1]
             n == Len(b.stream.data)
             data == b.stream.data
             type == TypeOf(a.kind, b.legacy)
             size == SizeOf(a, b.legacy, b.transid)
             value == ValueOf(a, b.legacy, b.transid)
  <1>1. a \in Additions /\ Len(attrs) \in Nat
    BY ElementOfSeq, LenProperties
  <1>2. b.legacy \in BOOLEAN /\ n \in Nat /\ data \in Seq(Nat)
    BY SoundIs
  <1>3. k \in 1..(Len(attrs) + 1) /\ k + 1 \in 1..(Len(attrs) + 1)
    BY <1>1
  <1>4. p \in Nat /\ p >= 10 /\ q = p + ExtentOf(a, b) /\ q <= n
        /\ IsAt(data, p, a, b)
    BY <1>3 DEF LaidOut
  <1>5. Holds(data, p, type, size, value) /\ Sealed(data, p, a)
    BY <1>4 DEF IsAt
  <1>6. ExtentOf(a, b) = ExtentOf(a, c) /\ ExtentOf(a, b) = Extent(size)
    BY DEF ExtentOf
  <1>7. value \in Seq(Nat) /\ 2 + Len(value) <= Extent(size) /\ ExtentOf(a, b) \in Nat
    <2>1. value \in Seq(Nat) /\ 2 + Len(value) <= Extent(size)
      BY <1>1, <1>2, ValueFits
    <2>2. ExtentOf(a, b) \in Nat
      BY <1>1, <1>2, ExtentIsEven
    <2>3. QED
      BY <2>1, <2>2
  <1>8. IsAt(c.stream.data, p, a, c) <=> /\ Holds(c.stream.data, p, type, size, value)
                                         /\ Sealed(c.stream.data, p, a)
    BY DEF IsAt
  <1>9. /\ a.kind = "integrity" => Extent(size) = 12
        /\ a.kind = "fingerprint" => Extent(size) = 4
    <2>1. /\ a.kind = "integrity" => size = 20
          /\ a.kind = "fingerprint" => size = 4
      BY DEF SizeOf
    <2>2. Extent(20) = 12 /\ Extent(4) = 4
      BY DEF Extent, Padding
    <2> HIDE DEF a, size
    <2>3. QED
      BY <2>1, <2>2
  <1> HIDE DEF a, p, q, type, size, value, n, data
  <1>10. p + 2 + Len(value) <= Len(data)
    <2>1. Len(value) \in Nat
      BY <1>7
    <2>2. QED
      BY <1>2, <1>4, <1>6, <1>7, <2>1 DEF n, data
  <1>11. Holds(c.stream.data, p, type, size, value)
    <2> DEFINE new == c.stream.data
    <2>1. \A j \in 1..Len(data) : j # 2 => new[j] = data[j]
      BY DEF data
    <2> HIDE DEF new
    <2>2. Holds(new, p, type, size, value)
      BY <1>2, <1>4, <1>5, <1>7, <1>10, <2>1, StaysAt
    <2>3. QED
      BY <2>2 DEF new
  <1>12. Sealed(c.stream.data, p, a)
    <2> DEFINE new == c.stream.data
    <2>1. new \in Seq(Nat) /\ Len(data) <= Len(new) /\ \A j \in 1..Len(data) : j # 2 => new[j] = data[j]
      BY DEF data
    <2> HIDE DEF new
    <2>2. ASSUME NEW words \in {2, 10}, NEW seed, SealAt(data, p, words, seed), Extent(size) = 2 + words
          PROVE  SealAt(new, p, words, seed)
      <3>1. p + 2 + words <= Len(data)
        BY <1>2, <1>4, <1>6, <2>2 DEF n, data
      <3>2. QED
        BY <1>2, <1>4, <2>1, <2>2, <3>1, SealStays
    <2>3. a.kind = "integrity" => SealAt(new, p, 10, a.value)
      <3>1. SUFFICES ASSUME a.kind = "integrity" PROVE SealAt(new, p, 10, a.value)
        OBVIOUS
      <3>2. SealAt(data, p, 10, a.value)
        BY <1>5, <3>1 DEF Sealed
      <3> DEFINE w == 10
      <3>3. w \in {2, 10} /\ Extent(size) = 2 + w /\ SealAt(data, p, w, a.value)
        BY <1>9, <3>1, <3>2
      <3> HIDE DEF w
      <3>4. SealAt(new, p, w, a.value)
        BY <2>2, <3>3
      <3>5. QED
        BY <3>4 DEF w
    <2>4. a.kind = "fingerprint" => SealAt(new, p, 2, 0)
      <3>1. SUFFICES ASSUME a.kind = "fingerprint" PROVE SealAt(new, p, 2, 0)
        OBVIOUS
      <3>2. SealAt(data, p, 2, 0)
        BY <1>5, <3>1 DEF Sealed
      <3> DEFINE w == 2
      <3>3. w \in {2, 10} /\ Extent(size) = 2 + w /\ SealAt(data, p, w, 0)
        BY <1>9, <3>1, <3>2
      <3> HIDE DEF w
      <3>4. SealAt(new, p, w, 0)
        BY <2>2, <3>3
      <3>5. QED
        BY <3>4 DEF w
    <2>5. QED
      BY <2>3, <2>4 DEF Sealed, new
  <1>13. QED
    BY <1>4, <1>6, <1>8, <1>11, <1>12 DEF a, p, q

(* An attribute more.                                                      *)
LEMMA LayoutGrows ==
    ASSUME NEW b, Sound(b), b.transid \in TransactionIds, NEW attrs \in Seq(Additions),
           Layout(b, attrs), NEW a \in Additions
    PROVE  Layout(AddTo(b, a), Append(attrs, a))
  <1> DEFINE c == AddTo(b, a)
             all == Append(attrs, a)
             n == Len(attrs)
             data == b.stream.data
             x == ExtentOf(a, b)
  <1>1. n \in Nat /\ Len(all) = n + 1 /\ all[n + 1] = a /\ \A i \in 1..n : all[i] = attrs[i]
    BY AppendProperties, LenProperties
  <1>2. Sound(c) /\ c.transid = b.transid /\ c.legacy = b.legacy
    BY AdditionSound
  <1>3. b.legacy \in BOOLEAN /\ Len(data) \in Nat /\ data \in Seq(Nat)
    BY SoundIs
  <1>4. SUFFICES ASSUME \A i \in 1..Len(all) : Aligned(all[i], c.legacy)
                 PROVE  \E at : LaidOut(c.stream.data, all, c, at)
    <2> HIDE DEF c, all
    <2>1. QED
      BY DEF Layout, c, all
  <1> HIDE DEF all, c, n
  <1>5. Aligned(a, b.legacy) /\ \A i \in 1..n : Aligned(attrs[i], b.legacy)
    <2>1. n + 1 \in 1..(n + 1) /\ \A i \in 1..n : i \in 1..(n + 1)
      BY <1>1
    <2>2. QED
      BY <1>1, <1>2, <1>4, <2>1
  <1>6. PICK at : LaidOut(data, attrs, b, at)
    BY <1>5 DEF Layout, n
  <1>7. CarriesAddition(c, b, a)
    BY <1>5, AdditionCarried DEF c
  <1>8. /\ Len(c.stream.data) = Len(data) + x
        /\ \A i \in 1..Len(data) : i # 2 => c.stream.data[i] = data[i]
        /\ IsAt(c.stream.data, Len(data), a, c)
    <2>1. /\ Len(c.stream.data) = Len(data) + x
          /\ \A i \in 1..Len(data) : i # 2 => c.stream.data[i] = data[i]
          /\ Holds(c.stream.data, Len(data), TypeOf(a.kind, c.legacy),
                   SizeOf(a, c.legacy, c.transid), ValueOf(a, c.legacy, c.transid))
      BY <1>2, <1>7 DEF CarriesAddition, Carries, ExtentOf
    <2>2. Sealed(c.stream.data, Len(data), a)
      BY AdditionSealed DEF c
    <2>3. QED
      BY <2>1, <2>2 DEF IsAt
  <1>9. x \in Nat /\ x >= 2 /\ x % 2 = 0 /\ ExtentOf(a, c) = x
    BY <1>2, <1>3, ExtentIsEven DEF ExtentOf
  <1> HIDE DEF x
  <1> DEFINE to == [i \in 1..(n + 2) |-> IF i <= n + 1 THEN at[i] ELSE Len(data) + x]
  <1>10. /\ at \in [1..(n + 1) -> Nat] /\ at[1] = 10 /\ at[n + 1] = Len(data)
         /\ \A i \in 1..(n + 1) : at[i] >= 10 /\ at[i] <= Len(data) /\ at[i] % 2 = 0
    BY <1>6 DEF LaidOut, n
  <1>11. \A i \in 1..n : /\ at[i + 1] = at[i] + ExtentOf(attrs[i], c)
                         /\ IsAt(c.stream.data, at[i], attrs[i], c)
    <2> HIDE DEF to
    <2>1. c.stream.data \in Seq(Nat) /\ Len(data) <= Len(c.stream.data)
      <3>1. c.stream.data \in Seq(Nat)
        BY <1>2, SoundIs
      <3> HIDE DEF data
      <3>2. Len(data) <= Len(data) + x
        BY <1>3, <1>9
      <3>3. QED
        BY <1>8, <3>1, <3>2
    <2>2. QED
      BY <1>2, <1>6, <1>8, <2>1, StaysLaidOut DEF n
  <1> DEFINE size == Len(c.stream.data)
  <1>12. size = Len(data) + x
    BY <1>8
  <1> HIDE DEF data, size
  <1>13. /\ to \in [1..(n + 2) -> Nat] /\ to[n + 2] = size
         /\ \A i \in 1..(n + 1) : to[i] = at[i]
    <2> DEFINE end == Len(data) + x
    <2>1. end \in Nat /\ end = size
      BY <1>3, <1>9, <1>12
    <2> HIDE DEF end, size
    <2>2. \A i \in 1..(n + 2) : i <= n + 1 => i \in 1..(n + 1) /\ at[i] \in Nat
      BY <1>1, <1>10
    <2>3. to = [i \in 1..(n + 2) |-> IF i <= n + 1 THEN at[i] ELSE end]
      BY DEF end
    <2> HIDE DEF to
    <2>4. to \in [1..(n + 2) -> Nat]
      BY <2>1, <2>2, <2>3
    <2>5. ASSUME NEW i \in 1..(n + 1) PROVE to[i] = at[i]
      <3>1. i \in 1..(n + 2) /\ i <= n + 1
        BY <1>1
      <3>2. QED
        BY <2>3, <3>1
    <2>6. to[n + 2] = end
      <3>1. n + 2 \in 1..(n + 2) /\ ~(n + 2 <= n + 1)
        BY <1>1
      <3>2. QED
        BY <2>3, <3>1
    <2>7. QED
      BY <2>1, <2>4, <2>5, <2>6
  <1> HIDE DEF to
  <1>14. to[1] = 10
    BY <1>1, <1>10, <1>13
  <1>15. ASSUME NEW i \in 1..(n + 2) PROVE to[i] >= 10 /\ to[i] <= size /\ to[i] % 2 = 0
    <2>1. Len(data) \in Nat /\ at[n + 1] = Len(data) /\ n + 1 \in 1..(n + 1)
      BY <1>1, <1>3, <1>10 DEF data
    <2>2. Len(data) >= 10 /\ Len(data) % 2 = 0
      BY <1>10, <2>1
    <2>3. CASE i <= n + 1
      <3>1. i \in 1..(n + 1)
        BY <1>1, <2>3
      <3>2. to[i] = at[i] /\ at[i] \in Nat /\ at[i] >= 10 /\ at[i] <= Len(data) /\ at[i] % 2 = 0
        BY <1>10, <1>13, <3>1
      <3>3. QED
        BY <1>9, <1>12, <2>1, <3>2
    <2>4. CASE i = n + 2
      <3>1. (Len(data) + x) % 2 = 0
        BY <1>9, <2>1, <2>2
      <3>2. to[i] = Len(data) + x
        BY <1>12, <1>13, <2>4
      <3>3. QED
        BY <1>9, <1>12, <2>1, <2>2, <3>1, <3>2
    <2>5. QED
      BY <1>1, <2>3, <2>4
  <1>16. ASSUME NEW i \in 1..(n + 1)
         PROVE  to[i + 1] = to[i] + ExtentOf(all[i], c) /\ IsAt(c.stream.data, to[i], all[i], c)
    <2>1. CASE i <= n
      <3>1. i \in 1..n /\ i + 1 \in 1..(n + 1)
        BY <1>1, <2>1
      <3>2. QED
        BY <1>1, <1>11, <1>13, <3>1
    <2>2. CASE i = n + 1
      <3>1. to[i] = Len(data) /\ all[i] = a /\ to[i + 1] = Len(data) + x
        <4>1. (n + 1) + 1 = n + 2
          BY <1>1
        <4>2. QED
          BY <1>1, <1>10, <1>12, <1>13, <2>2, <4>1
      <3>2. QED
        BY <1>8, <1>9, <3>1 DEF data
    <2>3. QED
      BY <1>1, <2>1, <2>2
  <1>17. LaidOut(c.stream.data, all, c, to)
    <2>1. (n + 1) + 1 = n + 2
      BY <1>1
    <2>2. QED
      BY <1>1, <1>13, <1>14, <1>15, <1>16, <2>1 DEF LaidOut, size
  <1>18. QED
    BY <1>17

(* The length field is written over.                                       *)
LEMMA LayoutFixed ==
    ASSUME NEW b, Sound(b), b.transid \in TransactionIds, NEW attrs \in Seq(Additions), Layout(b, attrs)
    PROVE  Layout(FixLengthField(b), attrs)
  <1> DEFINE c == FixLengthField(b)
  <1>1. /\ c.transid = b.transid /\ c.legacy = b.legacy /\ Sound(c)
        /\ Len(c.stream.data) = Len(b.stream.data)
        /\ \A i \in 1..Len(b.stream.data) : i # 2 => c.stream.data[i] = b.stream.data[i]
    BY FixKeeps DEF Grown
  <1> HIDE DEF c
  <1>2. c.stream.data \in Seq(Nat) /\ Len(b.stream.data) <= Len(c.stream.data)
    BY <1>1, SoundIs
  <1>3. SUFFICES ASSUME \A i \in 1..Len(attrs) : Aligned(attrs[i], c.legacy)
                 PROVE  \E at : LaidOut(c.stream.data, attrs, c, at)
    BY DEF Layout, c
  <1>4. PICK at : LaidOut(b.stream.data, attrs, b, at)
    BY <1>1, <1>3 DEF Layout
  <1>5. \A i \in 1..Len(attrs) : /\ at[i + 1] = at[i] + ExtentOf(attrs[i], c)
                              /\ IsAt(c.stream.data, at[i], attrs[i], c)
    BY <1>1, <1>4, <1>2, StaysLaidOut
  <1>6. LaidOut(c.stream.data, attrs, c, at)
    BY <1>1, <1>4, <1>5 DEF LaidOut
  <1>7. QED
    BY <1>6

(* -------- the reader ------------------------------------------------------- *)

Entries == [type : Nat, size : Nat, offset : Nat]

ReaderStates == {"HeaderNotRead", "HeaderValidated", "BodyValidated", "ParseError"}

MessageClasses == {"Invalid", "Request", "Indication", "SuccessResponse", "FailureResponse"}

Readers == [state : ReaderStates, stream : Streams, attributes : Seq(Entries), msgLength : Nat,
            msgClass : MessageClasses, transid : Seq(Nat), allowLegacy : BOOLEAN]

(* Where attribute i ends with its padding, and that each begins there.    *)
EndOf(A, i) ==
    IF i = 0 THEN STUN_HEADER_SIZE ELSE A[i].offset + A[i].size + Padding(A[i].size)

Chain(A) == \A i \in 1..Len(A) : A[i].offset = EndOf(A, i - 1) + 4

LEMMA ReaderIs ==
    ASSUME NEW r \in Readers
    PROVE  /\ r.state \in ReaderStates /\ r.stream \in Streams /\ r.stream.data \in Seq(Nat)
           /\ Len(r.stream.data) \in Nat /\ GetSize(r.stream) = 2 * Len(r.stream.data)
           /\ r.stream.pos \in Nat
           /\ r.attributes \in Seq(Entries) /\ Len(r.attributes) \in Nat
           /\ r.msgLength \in Nat /\ r.transid \in Seq(Nat) /\ r.allowLegacy \in BOOLEAN
  <1>1. /\ r.state \in ReaderStates /\ r.stream \in Streams
        /\ r.attributes \in Seq(Entries) /\ r.msgLength \in Nat /\ r.transid \in Seq(Nat)
        /\ r.allowLegacy \in BOOLEAN
    BY DEF Readers
  <1>2. r.stream.data \in Seq(Nat) /\ r.stream.pos \in Nat
    BY <1>1 DEF Streams
  <1>3. Len(r.attributes) \in Nat /\ Len(r.stream.data) \in Nat
    BY <1>1, <1>2, LenProperties
  <1>4. QED
    BY <1>1, <1>2, <1>3 DEF GetSize

LEMMA StateReplaced ==
    ASSUME NEW r \in Readers, NEW state \in ReaderStates
    PROVE  LET q == [r EXCEPT !.state = state]
           IN  /\ q \in Readers /\ q.state = state /\ q.stream = r.stream
               /\ q.attributes = r.attributes /\ q.msgLength = r.msgLength
               /\ q.transid = r.transid /\ q.allowLegacy = r.allowLegacy
  BY DEF Readers

LEMMA ReaderStreamReplaced ==
    ASSUME NEW r \in Readers, NEW s \in Streams
    PROVE  LET q == [r EXCEPT !.stream = s]
           IN  /\ q \in Readers /\ q.state = r.state /\ q.stream = s
               /\ q.attributes = r.attributes /\ q.msgLength = r.msgLength
               /\ q.transid = r.transid /\ q.allowLegacy = r.allowLegacy
  BY DEF Readers

(* One pass over the attributes: it may do nothing more, reach the end,    *)
(* fail, or take one attribute.                                            *)
TypeAt(s) == Peek(s, s.pos)

SizeAt(s) == Peek(s, s.pos + 2)

ExtentAt(s) == 4 + SizeAt(s) + Padding(SizeAt(s))

Readable(r) ==
    /\ CanRead(r.stream, 4)
    /\ ~(SizeAt(r.stream) > MAX_STUN_ATTRIBUTE_SIZE)
    /\ Len(r.attributes) # MAX_NUM_ATTRIBUTES
    /\ CanSeek(r.stream, ExtentAt(r.stream))

Taken(q, r) ==
    /\ q.state = "HeaderValidated"
    /\ q.stream.pos = r.stream.pos + ExtentAt(r.stream)
    /\ q.attributes = Append(r.attributes, [type |-> TypeAt(r.stream), size |-> SizeAt(r.stream),
                                            offset |-> r.stream.pos + 4])

SameMessage(q, r) ==
    /\ q \in Readers /\ q.stream.data = r.stream.data /\ q.msgLength = r.msgLength
    /\ q.transid = r.transid /\ q.allowLegacy = r.allowLegacy

LEMMA Peeked ==
    ASSUME NEW s \in Streams, CanRead(s, 4)
    PROVE  TypeAt(s) \in Nat /\ SizeAt(s) \in Nat
  <1>1. s.data \in Seq(Nat) /\ s.pos \in Nat /\ Len(s.data) \in Nat
    BY DEF Streams
  <1> DEFINE n == Len(s.data)
             p == s.pos
  <1>2. p + 4 <= 2 * n /\ p \in Nat /\ n \in Nat
    BY <1>1 DEF CanRead, GetSize
  <1> HIDE DEF n, p
  <1>3. p \div 2 + 1 \in 1..n /\ (p + 2) \div 2 + 1 \in 1..n
    BY <1>2
  <1>4. \A i \in 1..n : s.data[i] \in Nat
    BY <1>1 DEF n
  <1>5. s.data[p \div 2 + 1] \in Nat /\ s.data[(p + 2) \div 2 + 1] \in Nat
    BY <1>3, <1>4
  <1>6. QED
    BY <1>5 DEF TypeAt, SizeAt, Peek, p

LEMMA Pass ==
    ASSUME NEW r \in Readers
    PROVE  LET q == ReadAttribute(r)
           IN  /\ SameMessage(q, r)
               /\ r.state # "HeaderValidated" => q = r
               /\ r.state = "HeaderValidated" =>
                     IF r.stream.pos = GetSize(r.stream)
                     THEN /\ q.state = "BodyValidated"
                          /\ q.attributes = r.attributes /\ q.stream.pos = r.stream.pos
                     ELSE IF Readable(r) THEN Taken(q, r) ELSE q.state = "ParseError"
  <1> DEFINE q == ReadAttribute(r)
             s == r.stream
  <1> SUFFICES
        /\ SameMessage(q, r)
        /\ r.state # "HeaderValidated" => q = r
        /\ r.state = "HeaderValidated" =>
              IF s.pos = GetSize(s)
              THEN /\ q.state = "BodyValidated"
                   /\ q.attributes = r.attributes /\ q.stream.pos = s.pos
              ELSE IF Readable(r) THEN Taken(q, r) ELSE q.state = "ParseError"
    OBVIOUS
  <1>1. s \in Streams /\ s.pos \in Nat /\ r.attributes \in Seq(Entries)
    BY ReaderIs
  <1>2. CASE r.state # "HeaderValidated"
    BY <1>2 DEF ReadAttribute, SameMessage
  <1>3. CASE r.state = "HeaderValidated" /\ s.pos = GetSize(s)
    <2>1. q = [r EXCEPT !.state = "BodyValidated"]
      BY <1>3 DEF ReadAttribute
    <2>2. "BodyValidated" \in ReaderStates
      BY DEF ReaderStates
    <2> HIDE DEF q
    <2>3. QED
      BY <1>3, <2>1, <2>2, StateReplaced DEF SameMessage
  <1>4. CASE r.state = "HeaderValidated" /\ s.pos # GetSize(s) /\ ~Readable(r)
    <2>1. q = [r EXCEPT !.state = "ParseError"]
      BY <1>4 DEF ReadAttribute, Readable, SizeAt, ExtentAt
    <2>2. "ParseError" \in ReaderStates
      BY DEF ReaderStates
    <2> HIDE DEF q
    <2>3. QED
      BY <1>4, <2>1, <2>2, StateReplaced DEF SameMessage
  <1>5. CASE r.state = "HeaderValidated" /\ s.pos # GetSize(s) /\ Readable(r)
    <2> DEFINE to == s.pos + ExtentAt(s)
               moved == SeekDirect(s, to)
               type == TypeAt(s)
               size == SizeAt(s)
               offset == s.pos + 4
               entry == [type |-> type, size |-> size, offset |-> offset]
               list == Append(r.attributes, entry)
    <2>1. q = [r EXCEPT !.stream = moved, !.attributes = list]
      BY <1>5 DEF ReadAttribute, Readable, TypeAt, SizeAt, ExtentAt, SeekRelative
    <2>2. type \in Nat /\ size \in Nat
      BY <1>1, <1>5, Peeked DEF Readable
    <2>3. Padding(size) \in Nat
      <3> HIDE DEF size
      <3>1. QED
        BY <2>2, PaddingCompletes
    <2>4. to \in Nat /\ offset \in Nat
      BY <1>1, <2>2, <2>3 DEF ExtentAt
    <2> HIDE DEF to
    <2>5. moved \in Streams /\ moved.data = s.data /\ moved.pos = to
      BY <1>1, <2>4, SeekKeeps
    <2> HIDE DEF type, size, offset
    <2>6. entry \in Entries
      BY <2>2, <2>4 DEF Entries
    <2> HIDE DEF entry
    <2>7. list \in Seq(Entries)
      BY <1>1, <2>6, AppendProperties
    <2> HIDE DEF moved, list, q
    <2>8. /\ q \in Readers /\ q.stream = moved /\ q.attributes = list /\ q.state = r.state
          /\ q.msgLength = r.msgLength /\ q.transid = r.transid /\ q.allowLegacy = r.allowLegacy
      BY <2>1, <2>5, <2>7 DEF Readers
    <2>9. SameMessage(q, r)
      BY <2>5, <2>8 DEF SameMessage
    <2>10. Taken(q, r)
      BY <1>5, <2>5, <2>8 DEF Taken, list, entry, type, size, offset, to
    <2>11. QED
      BY <1>5, <2>9, <2>10
  <1>6. QED
    BY <1>2, <1>3, <1>4, <1>5

(* -------- the passes of ReadBody ------------------------------------------- *)

Start(r) == [r EXCEPT !.stream = SeekDirect(@, STUN_HEADER_SIZE)]

PassStep(r, f, i) == IF i = 0 THEN Start(r) ELSE ReadAttribute(f[i - 1])

IsPasses(r, f) == f = [i \in 0..(MAX_NUM_ATTRIBUTES + 1) |-> PassStep(r, f, i)]

(* The function ReadBody is defined with exists.                           *)
LEMMA PassesExist ==
    ASSUME NEW r
    PROVE  \E f : IsPasses(r, f)
  <1> DEFINE Upto(n, f) == f = [i \in 0..n |-> PassStep(r, f, i)]
             Good == {n \in Nat : \E f : Upto(n, f)}
  <1>1. 0 \in Good
    <2> DEFINE f == [i \in 0..0 |-> Start(r)]
    <2>1. \A i \in 0..0 : PassStep(r, f, i) = Start(r)
      BY DEF PassStep
    <2>2. Upto(0, f)
      BY <2>1
    <2>3. \E g : Upto(0, g)
      <3> HIDE DEF Upto, f
      <3>1. QED
        BY <2>2
    <2>4. QED
      <3> HIDE DEF Upto
      <3>1. QED
        BY <2>3
  <1>2. ASSUME NEW n \in Good PROVE n + 1 \in Good
    <2>1. PICK f : Upto(n, f)
      OBVIOUS
    <2>2. n \in Nat /\ n + 1 \in Nat
      OBVIOUS
    <2> DEFINE last == PassStep(r, f, n + 1)
               g == [i \in 0..(n + 1) |-> IF i <= n THEN f[i] ELSE last]
    <2>3. ASSUME NEW i \in 0..(n + 1) PROVE g[i] = PassStep(r, g, i)
      <3>1. CASE i <= n
        <4>1. i \in 0..n /\ g[i] = f[i] /\ (i # 0 => g[i - 1] = f[i - 1])
          BY <2>2, <2>3, <3>1
        <4>2. f[i] = PassStep(r, f, i)
          BY <2>1, <4>1
        <4>3. PassStep(r, f, i) = PassStep(r, g, i)
          <5> HIDE DEF g
          <5>1. QED
            BY <4>1 DEF PassStep
        <4>4. QED
          BY <4>1, <4>2, <4>3
      <3>2. CASE ~(i <= n)
        <4>1. i = n + 1 /\ g[i] = last /\ i # 0 /\ g[i - 1] = f[i - 1]
          BY <2>2, <2>3, <3>2
        <4>2. PassStep(r, f, i) = PassStep(r, g, i)
          <5> HIDE DEF g
          <5>1. QED
            BY <4>1 DEF PassStep
        <4>3. QED
          BY <4>1, <4>2
      <3>3. QED
        BY <3>1, <3>2
    <2> HIDE DEF last
    <2>4. g = [i \in 0..(n + 1) |-> g[i]]
      OBVIOUS
    <2>5. Upto(n + 1, g)
      <3> HIDE DEF g
      <3>1. QED
        BY <2>3, <2>4
    <2>6. \E h : Upto(n + 1, h)
      <3> HIDE DEF Upto, g
      <3>1. QED
        BY <2>5
    <2>7. QED
      <3> HIDE DEF Upto
      <3>1. QED
        BY <2>2, <2>6
  <1>3. Good = Nat
    <2>1. Good \in SUBSET Nat
      OBVIOUS
    <2> HIDE DEF Good
    <2>2. QED
      BY <1>1, <1>2, <2>1, CountUp
  <1>4. MAX_NUM_ATTRIBUTES + 1 \in Good
    <2>1. MAX_NUM_ATTRIBUTES + 1 \in Nat
      BY ReaderAssumption
    <2> HIDE DEF Good
    <2>2. QED
      BY <1>3, <2>1
  <1>5. QED
    BY <1>4 DEF IsPasses

(* The passes, one after the other, the last of which is what ReadBody     *)
(* returns.                                                                *)
LEMMA ReadBodyIs ==
    ASSUME NEW r
    PROVE  \E f : /\ f[0] = Start(r)
                  /\ \A n \in 0..MAX_NUM_ATTRIBUTES : f[n + 1] = ReadAttribute(f[n])
                  /\ ReadBody(r) = f[MAX_NUM_ATTRIBUTES + 1]
  <1> DEFINE f == CHOOSE f : IsPasses(r, f)
             N == MAX_NUM_ATTRIBUTES
  <1>1. IsPasses(r, f)
    BY PassesExist
  <1>2. ReadBody(r) = f[N + 1]
    BY DEF ReadBody, IsPasses, PassStep, Start
  <1>3. N \in Nat
    BY ReaderAssumption
  <1> HIDE DEF f
  <1>4. \A n \in 0..(N + 1) : f[n] = PassStep(r, f, n)
    BY <1>1 DEF IsPasses
  <1> HIDE DEF N
  <1>5. f[0] = Start(r)
    BY <1>3, <1>4 DEF PassStep
  <1>6. ASSUME NEW n \in 0..N PROVE f[n + 1] = ReadAttribute(f[n])
    <2>1. n + 1 \in 0..(N + 1) /\ n + 1 # 0 /\ (n + 1) - 1 = n
      BY <1>3
    <2>2. QED
      BY <1>4, <2>1 DEF PassStep
  <1>7. QED
    BY <1>2, <1>5, <1>6 DEF N

LEMMA ChainGrows ==
    ASSUME NEW A \in Seq(Entries), Chain(A), NEW e \in Entries, e.offset = EndOf(A, Len(A)) + 4
    PROVE  LET B == Append(A, e)
           IN  /\ Chain(B) /\ Len(B) = Len(A) + 1
               /\ EndOf(B, Len(B)) = e.offset + e.size + Padding(e.size)
  <1> DEFINE B == Append(A, e)
             n == Len(A)
  <1>1. n \in Nat /\ Len(B) = n + 1 /\ B[n + 1] = e /\ \A i \in 1..n : B[i] = A[i]
    BY AppendProperties, LenProperties
  <1> HIDE DEF B, n
  <1>2. EndOf(B, n + 1) = e.offset + e.size + Padding(e.size)
    BY <1>1 DEF EndOf
  <1>3. \A i \in 0..n : EndOf(B, i) = EndOf(A, i)
    BY <1>1 DEF EndOf
  <1>4. ASSUME NEW i \in 1..(n + 1) PROVE B[i].offset = EndOf(B, i - 1) + 4
    <2>1. i - 1 \in 0..n
      BY <1>1
    <2>2. CASE i <= n
      <3>1. A[i].offset = EndOf(A, i - 1) + 4
        BY <1>1, <2>2 DEF Chain, n
      <3>2. QED
        BY <1>1, <1>3, <2>1, <2>2, <3>1
    <2>3. CASE i = n + 1
      <3>1. i - 1 = n
        BY <1>1, <2>3
      <3>2. EndOf(B, i - 1) = EndOf(A, n)
        BY <1>3, <2>1, <3>1
      <3>3. QED
        BY <1>1, <2>3, <3>2 DEF n
    <2>4. QED
      BY <1>1, <2>2, <2>3
  <1>5. QED
    BY <1>1, <1>2, <1>4 DEF Chain, B, n

LEMMA SameMessageTrans ==
    ASSUME NEW p, NEW q, NEW r, SameMessage(q, p), SameMessage(p, r)
    PROVE  SameMessage(q, r)
  BY DEF SameMessage

(* One attribute after the other, until the end or a failure.              *)
UpTo(q, r, n) ==
    /\ SameMessage(q, r)
    /\ q.state \in {"HeaderValidated", "BodyValidated", "ParseError"}
    /\ q.state # "ParseError" => /\ Chain(q.attributes)
                                 /\ Len(q.attributes) <= MAX_NUM_ATTRIBUTES
                                 /\ q.stream.pos = EndOf(q.attributes, Len(q.attributes))
    /\ q.state = "BodyValidated" => q.stream.pos = GetSize(q.stream)
    /\ q.state = "HeaderValidated" => Len(q.attributes) = n

LEMMA StartIs ==
    ASSUME NEW r \in Readers
    PROVE  /\ SameMessage(Start(r), r) /\ Start(r).state = r.state
           /\ Start(r).attributes = r.attributes /\ Start(r).stream.pos = 20
  <1> DEFINE s == SeekDirect(r.stream, 20)
  <1>1. s \in Streams /\ s.data = r.stream.data /\ s.pos = 20
    <2> DEFINE k == 20
    <2>1. k \in Nat /\ k = 20
      OBVIOUS
    <2> HIDE DEF k
    <2>2. QED
      BY <2>1, ReaderIs, SeekKeeps
  <1>2. Start(r) = [r EXCEPT !.stream = s]
    BY DEF Start, STUN_HEADER_SIZE
  <1> HIDE DEF s
  <1>3. QED
    BY <1>1, <1>2, ReaderStreamReplaced DEF SameMessage

LEMMA PassUpTo ==
    ASSUME NEW r \in Readers, NEW n \in 0..MAX_NUM_ATTRIBUTES, NEW p, UpTo(p, r, n)
    PROVE  UpTo(ReadAttribute(p), r, n + 1)
  <1> DEFINE q == ReadAttribute(p)
  <1>1. p \in Readers /\ MAX_NUM_ATTRIBUTES \in Nat /\ n \in Nat
    BY ReaderAssumption DEF UpTo, SameMessage
  <1>2. SameMessage(q, p) /\ (p.state # "HeaderValidated" => q = p)
    BY <1>1, Pass
  <1>3. SameMessage(q, r)
    <2> HIDE DEF q
    <2>1. QED
      BY <1>2, SameMessageTrans DEF UpTo
  <1>4. CASE p.state # "HeaderValidated"
    BY <1>2, <1>4 DEF UpTo
  <1>5. CASE p.state = "HeaderValidated" /\ p.stream.pos = GetSize(p.stream)
    <2>1. q.state = "BodyValidated" /\ q.attributes = p.attributes
          /\ q.stream.pos = p.stream.pos
      BY <1>1, <1>5, Pass
    <2> HIDE DEF q
    <2>2. GetSize(q.stream) = GetSize(p.stream)
      BY <1>2 DEF SameMessage, GetSize
    <2>3. UpTo(q, r, n + 1)
      BY <1>3, <1>5, <2>1, <2>2 DEF UpTo
    <2>4. QED
      BY <2>3 DEF q
  <1>6. CASE p.state = "HeaderValidated" /\ p.stream.pos # GetSize(p.stream) /\ ~Readable(p)
    <2>1. q.state = "ParseError"
      BY <1>1, <1>6, Pass
    <2> HIDE DEF q
    <2>2. UpTo(q, r, n + 1)
      BY <1>3, <2>1 DEF UpTo
    <2>3. QED
      BY <2>2 DEF q
  <1>7. CASE p.state = "HeaderValidated" /\ p.stream.pos # GetSize(p.stream) /\ Readable(p)
    <2> DEFINE A == p.attributes
               s == p.stream
               type == TypeAt(s)
               size == SizeAt(s)
               offset == s.pos + 4
               e == [type |-> type, size |-> size, offset |-> offset]
    <2>1. Taken(q, p)
      BY <1>1, <1>7, Pass
    <2> HIDE DEF q
    <2>2. /\ A \in Seq(Entries) /\ Chain(A) /\ Len(A) <= MAX_NUM_ATTRIBUTES /\ Len(A) = n
          /\ s.pos = EndOf(A, Len(A)) /\ s.pos \in Nat /\ s \in Streams
          /\ Len(A) # MAX_NUM_ATTRIBUTES /\ CanRead(s, 4)
      BY <1>1, <1>7, ReaderIs DEF UpTo, Readable
    <2>3. type \in Nat /\ size \in Nat
      BY <2>2, Peeked
    <2>4. /\ q.state = "HeaderValidated" /\ q.attributes = Append(A, e)
          /\ q.stream.pos = s.pos + (4 + size + Padding(size))
      BY <2>1 DEF Taken, ExtentAt
    <2>5. Padding(size) \in Nat
      <3> HIDE DEF size
      <3>1. QED
        BY <2>3, PaddingCompletes
    <2> HIDE DEF type, size, A
    <2>6. offset \in Nat /\ offset = EndOf(A, Len(A)) + 4
      BY <2>2
    <2> HIDE DEF offset
    <2>7. e \in Entries /\ e.offset = offset /\ e.size = size
      BY <2>3, <2>6 DEF Entries
    <2> HIDE DEF e
    <2>8. /\ Chain(q.attributes) /\ Len(q.attributes) = Len(A) + 1
          /\ EndOf(q.attributes, Len(q.attributes)) = offset + size + Padding(size)
      BY <2>2, <2>4, <2>6, <2>7, ChainGrows
    <2>9. q.stream.pos = EndOf(q.attributes, Len(q.attributes))
      <3>1. s.pos + (4 + size + Padding(size)) = (s.pos + 4) + size + Padding(size)
        BY <2>2, <2>3, <2>5
      <3>2. QED
        BY <2>4, <2>8, <3>1 DEF offset
    <2>10. Len(q.attributes) = n + 1 /\ Len(q.attributes) <= MAX_NUM_ATTRIBUTES
      BY <1>1, <2>2, <2>8
    <2>11. UpTo(q, r, n + 1)
      BY <1>3, <2>4, <2>8, <2>9, <2>10 DEF UpTo
    <2>12. QED
      BY <2>11 DEF q
  <1>8. QED
    BY <1>4, <1>5, <1>6, <1>7

(* A body is validated only if its attributes cover it.                    *)
LEMMA BodyCovered ==
    ASSUME NEW r \in Readers, r.state = "HeaderValidated", r.attributes = <<>>
    PROVE  LET q == ReadBody(r)
           IN  /\ SameMessage(q, r) /\ q.state \in {"BodyValidated", "ParseError"}
               /\ q.state = "BodyValidated" =>
                     /\ Chain(q.attributes) /\ Len(q.attributes) <= MAX_NUM_ATTRIBUTES
                     /\ EndOf(q.attributes, Len(q.attributes)) = GetSize(q.stream)
  <1> DEFINE N == MAX_NUM_ATTRIBUTES
  <1>1. N \in Nat
    BY ReaderAssumption
  <1>2. PICK f : /\ f[0] = Start(r)
                 /\ \A n \in 0..N : f[n + 1] = ReadAttribute(f[n])
                 /\ ReadBody(r) = f[N + 1]
    BY ReadBodyIs
  <1> DEFINE Good == {n \in Nat : n <= N + 1 => UpTo(f[n], r, n)}
  <1>3. 0 \in Good
    <2>1. UpTo(Start(r), r, 0)
      <3> DEFINE q == Start(r)
      <3>1. SameMessage(q, r) /\ q.state = "HeaderValidated" /\ q.attributes = <<>>
            /\ q.stream.pos = 20
        BY StartIs
      <3>2. Len(<<>>) = 0
        OBVIOUS
      <3> HIDE DEF q
      <3>3. Len(q.attributes) = 0 /\ Chain(q.attributes)
        BY <3>1, <3>2 DEF Chain
      <3>4. EndOf(q.attributes, 0) = 20
        BY DEF EndOf, STUN_HEADER_SIZE
      <3>5. UpTo(q, r, 0)
        BY <1>1, <3>1, <3>3, <3>4 DEF UpTo
      <3>6. QED
        BY <3>5 DEF q
    <2>2. QED
      BY <1>2, <2>1
  <1>4. ASSUME NEW n \in Good PROVE n + 1 \in Good
    <2>1. SUFFICES ASSUME n + 1 <= N + 1 PROVE UpTo(f[n + 1], r, n + 1)
      OBVIOUS
    <2>2. n \in 0..N /\ UpTo(f[n], r, n)
      BY <1>1, <2>1
    <2>3. UpTo(ReadAttribute(f[n]), r, n + 1)
      BY <2>2, PassUpTo
    <2>4. QED
      BY <1>2, <2>2, <2>3
  <1>5. Good = Nat
    <2>1. Good \in SUBSET Nat
      OBVIOUS
    <2> HIDE DEF Good
    <2>2. QED
      BY <1>3, <1>4, <2>1, CountUp
  <1>6. UpTo(f[N + 1], r, N + 1)
    <2>1. N + 1 \in Nat /\ N + 1 <= N + 1
      BY <1>1
    <2>2. N + 1 \in Good
      <3> HIDE DEF Good
      <3>1. QED
        BY <1>5, <2>1
    <2>3. QED
      BY <2>1, <2>2
  <1> DEFINE q == f[N + 1]
  <1>7. UpTo(q, r, N + 1) /\ ReadBody(r) = q
    BY <1>2, <1>6
  <1> HIDE DEF q
  <1>8. q.state # "HeaderValidated"
    <2>1. ~(N + 1 <= N)
      BY <1>1
    <2>2. QED
      BY <1>7, <2>1 DEF UpTo
  <1>9. QED
    BY <1>7, <1>8 DEF UpTo

(* -------- header and body -------------------------------------------------- *)

ValidHeader(r) ==
    /\ r.stream.data[1] < 16384
    /\ r.stream.data[2] % 4 = 0
    /\ r.allowLegacy
    /\ r.stream.data[2] <= MAX_STUN_MESSAGE_SIZE

Filled(r, length, transid, class) ==
    [r EXCEPT !.msgLength = length, !.transid = transid, !.msgClass = class]

LEMMA FilledIs ==
    ASSUME NEW r \in Readers, NEW length \in Nat, NEW transid \in Seq(Nat),
           NEW class \in MessageClasses
    PROVE  LET h == Filled(r, length, transid, class)
           IN  /\ h \in Readers /\ h.stream = r.stream /\ h.attributes = r.attributes
               /\ h.msgLength = length /\ h.transid = transid
  BY DEF Filled, Readers

LEMMA ReadHeaderIs ==
    ASSUME NEW r
    PROVE  LET h == Filled(r, Peek(r.stream, 2), Bytes(r.stream, 4, STUN_HEADER_SIZE),
                           ClassOf(Peek(r.stream, 0)))
               valid == /\ Peek(r.stream, 0) < 16384
                        /\ h.msgLength % 4 = 0
                        /\ r.allowLegacy \/ ~IsMessageLegacyFormat(h)
                        /\ h.msgLength <= MAX_STUN_MESSAGE_SIZE
           IN  ReadHeader(r) =
                   IF ~valid THEN [r EXCEPT !.state = "ParseError"]
                   ELSE [h EXCEPT !.state = IF h.msgLength = 0 THEN "BodyValidated"
                                            ELSE "HeaderValidated"]
  BY DEF ReadHeader, Filled

LEMMA HeaderIs ==
    ASSUME NEW r \in Readers, Len(r.stream.data) >= 10
    PROVE  LET h == ReadHeader(r)
               data == r.stream.data
           IN  /\ h \in Readers /\ h.stream = r.stream /\ h.attributes = r.attributes
               /\ h.state \in {"HeaderValidated", "BodyValidated", "ParseError"}
               /\ h.state = "BodyValidated" => h.msgLength = 0
               /\ ValidHeader(r) =>
                     /\ h.state = IF data[2] = 0 THEN "BodyValidated" ELSE "HeaderValidated"
                     /\ h.msgLength = data[2] /\ h.transid = SubSeq(data, 3, 10)
  <1> DEFINE h == ReadHeader(r)
             data == r.stream.data
             length == data[2]
             transid == SubSeq(data, 3, 10)
             class == ClassOf(data[1])
             header == Filled(r, length, transid, class)
             valid == /\ data[1] < 16384
                      /\ length % 4 = 0
                      /\ r.allowLegacy \/ ~IsMessageLegacyFormat(header)
                      /\ length <= MAX_STUN_MESSAGE_SIZE
             state == IF length = 0 THEN "BodyValidated" ELSE "HeaderValidated"
  <1> SUFFICES /\ h \in Readers /\ h.stream = r.stream /\ h.attributes = r.attributes
               /\ h.state \in {"HeaderValidated", "BodyValidated", "ParseError"}
               /\ h.state = "BodyValidated" => h.msgLength = 0
               /\ ValidHeader(r) => h.state = state /\ h.msgLength = length /\ h.transid = transid
    OBVIOUS
  <1>1. data \in Seq(Nat) /\ Len(data) \in Nat
    BY ReaderIs
  <1>2. length \in Nat
    <2>1. 2 \in 1..Len(data)
      BY <1>1
    <2>2. \A i \in 1..Len(data) : data[i] \in Nat
      BY <1>1
    <2> HIDE DEF data
    <2>3. QED
      BY <2>1, <2>2
  <1>3. transid \in Seq(Nat)
    <2> DEFINE m == 3
               n == 10
    <2>1. m \in Nat /\ n \in Nat /\ 1 <= m /\ m <= n + 1 /\ n <= Len(data)
      OBVIOUS
    <2>2. transid = SubSeq(data, m, n)
      OBVIOUS
    <2> HIDE DEF m, n, transid, data
    <2>3. SubSeq(data, m, n) \in Seq(Nat)
      BY <1>1, <2>1, PartIs
    <2>4. QED
      BY <2>2, <2>3
  <1>4. class \in MessageClasses
    BY DEF ClassOf, MessageClasses
  <1>5. Peek(r.stream, 0) = data[1] /\ Peek(r.stream, 2) = length
        /\ Bytes(r.stream, 4, STUN_HEADER_SIZE) = transid
    <2>1. (0 \div 2) + 1 = 1 /\ (2 \div 2) + 1 = 2 /\ (4 \div 2) + 1 = 3 /\ 20 \div 2 = 10
      OBVIOUS
    <2>2. QED
      BY <2>1 DEF Peek, Bytes, STUN_HEADER_SIZE
  <1> HIDE DEF transid, class, length
  <1>6. header \in Readers /\ header.stream = r.stream /\ header.attributes = r.attributes
        /\ header.msgLength = length /\ header.transid = transid
    BY <1>2, <1>3, <1>4, FilledIs
  <1>7. h = IF ~valid THEN [r EXCEPT !.state = "ParseError"]
            ELSE [header EXCEPT !.state = state]
    <2> DEFINE he == Filled(r, Peek(r.stream, 2), Bytes(r.stream, 4, STUN_HEADER_SIZE),
                            ClassOf(Peek(r.stream, 0)))
    <2>1. he = header
      BY <1>5 DEF class
    <2>2. h = IF ~(/\ Peek(r.stream, 0) < 16384
                   /\ he.msgLength % 4 = 0
                   /\ r.allowLegacy \/ ~IsMessageLegacyFormat(he)
                   /\ he.msgLength <= MAX_STUN_MESSAGE_SIZE)
              THEN [r EXCEPT !.state = "ParseError"]
              ELSE [he EXCEPT !.state = IF he.msgLength = 0 THEN "BodyValidated"
                                        ELSE "HeaderValidated"]
      BY ReadHeaderIs
    <2> HIDE DEF he, header, h
    <2>3. QED
      BY <1>5, <1>6, <2>1, <2>2
  <1>8. ValidHeader(r) => valid
    BY DEF ValidHeader, length
  <1>9. state \in {"HeaderValidated", "BodyValidated"} /\ state \in ReaderStates
        /\ "ParseError" \in ReaderStates /\ (state = "BodyValidated" => length = 0)
    BY DEF ReaderStates
  <1> HIDE DEF header, valid, state, h
  <1>10. CASE valid
    <2>1. h = [header EXCEPT !.state = state]
      BY <1>7, <1>10
    <2>2. /\ h \in Readers /\ h.state = state /\ h.stream = header.stream
          /\ h.attributes = header.attributes /\ h.msgLength = header.msgLength
          /\ h.transid = header.transid
      BY <1>6, <1>9, <2>1, StateReplaced
    <2>3. QED
      BY <1>6, <1>9, <2>2
  <1>11. CASE ~valid
    <2>1. h = [r EXCEPT !.state = "ParseError"]
      BY <1>7, <1>11
    <2>2. /\ h \in Readers /\ h.state = "ParseError" /\ h.stream = r.stream
          /\ h.attributes = r.attributes
      BY <1>9, <2>1, StateReplaced
    <2>3. QED
      BY <1>8, <1>11, <2>2
  <1>12. QED
    BY <1>10, <1>11

(* The header is read when it is there and was not yet.                    *)
HeaderRead(r) ==
    IF r.state = "HeaderNotRead" /\ GetSize(r.stream) >= STUN_HEADER_SIZE THEN ReadHeader(r) ELSE r

Whole(r) == r.msgLength + STUN_HEADER_SIZE

LEMMA AdvanceIs ==
    ASSUME NEW r
    PROVE  LET h == HeaderRead(r)
               size == GetSize(r.stream)
           IN  Advance(r) =
                 CASE h.state \in {"HeaderValidated", "BodyValidated"} /\ size > Whole(h) ->
                        [h EXCEPT !.state = "ParseError"]
                   [] h.state = "HeaderValidated" /\ size = Whole(h) -> ReadBody(h)
                   [] OTHER -> h
  BY DEF Advance, HeaderRead, Whole

(* The bytes follow those the reader has.                                  *)
LEMMA BytesAppended ==
    ASSUME NEW r \in Readers, NEW words \in Seq(Nat), r.state # "ParseError", words # <<>>
    PROVE  \E a \in Readers :
              /\ AddBytes(r, words) = Advance(a)
              /\ Joined(a.stream.data, r.stream.data, words)
              /\ a.state = r.state /\ a.attributes = r.attributes /\ a.msgLength = r.msgLength
              /\ a.transid = r.transid /\ a.allowLegacy = r.allowLegacy
  <1> DEFINE s == SeekDirect(r.stream, GetSize(r.stream))
             w == Write(s, words)
             a == [r EXCEPT !.stream = w]
  <1>1. r.stream \in Streams /\ GetSize(r.stream) \in Nat
    BY ReaderIs
  <1>2. s \in Streams /\ s.data = r.stream.data /\ s.pos = GetSize(r.stream)
    BY <1>1, SeekKeeps
  <1> HIDE DEF s
  <1>3. s.pos = GetSize(s)
    BY <1>2 DEF GetSize
  <1>4. w \in Streams /\ Joined(w.data, s.data, words)
    BY <1>2, <1>3, WriteAtEnd
  <1>5. AddBytes(r, words) = Advance(a)
    BY DEF AddBytes, w, s
  <1> HIDE DEF w
  <1>6. /\ a \in Readers /\ a.stream = w /\ a.state = r.state /\ a.attributes = r.attributes
        /\ a.msgLength = r.msgLength /\ a.transid = r.transid /\ a.allowLegacy = r.allowLegacy
    BY <1>4, ReaderStreamReplaced
  <1> HIDE DEF a
  <1>7. QED
    BY <1>2, <1>4, <1>5, <1>6

(* -------- what the attributes cover ---------------------------------------- *)

Covered(r) ==
    /\ r \in Readers
    /\ r.state = "HeaderNotRead" => r.attributes = <<>>
    /\ r.state = "HeaderValidated" => r.attributes = <<>> /\ GetSize(r.stream) < Whole(r)
    /\ r.state = "BodyValidated" =>
          /\ Chain(r.attributes) /\ Len(r.attributes) <= MAX_NUM_ATTRIBUTES
          /\ EndOf(r.attributes, Len(r.attributes)) = GetSize(r.stream)
          /\ GetSize(r.stream) = Whole(r)

LEMMA NothingCovered == Chain(<<>>) /\ Len(<<>>) = 0 /\ EndOf(<<>>, 0) = 20
  <1> DEFINE none == <<>>
  <1>1. Len(none) = 0
    OBVIOUS
  <1> HIDE DEF none
  <1>2. Chain(none) /\ EndOf(none, 0) = 20
    BY <1>1 DEF Chain, EndOf, STUN_HEADER_SIZE
  <1>3. QED
    BY <1>1, <1>2 DEF none

LEMMA AdvanceCovers ==
    ASSUME NEW a \in Readers,
           a.state \in {"HeaderNotRead", "HeaderValidated"} => a.attributes = <<>>,
           a.state = "BodyValidated" => GetSize(a.stream) > Whole(a)
    PROVE  Covered(Advance(a))
  <1> DEFINE h == HeaderRead(a)
             size == GetSize(a.stream)
             q == Advance(a)
  <1>1. size \in Nat /\ size = 2 * Len(a.stream.data) /\ Len(a.stream.data) \in Nat
        /\ a.state \in ReaderStates /\ MAX_NUM_ATTRIBUTES \in Nat
    BY ReaderIs, ReaderAssumption
  <1> DEFINE n == Len(a.stream.data)
  <1>2. /\ h \in Readers /\ h.stream = a.stream
        /\ h.state = "HeaderNotRead" => h.attributes = <<>>
        /\ h.state = "HeaderValidated" => h.attributes = <<>>
        /\ h.state = "BodyValidated" /\ ~(size > Whole(h)) =>
              h.attributes = <<>> /\ h.msgLength = 0 /\ size = 20
    <2>1. CASE a.state = "HeaderNotRead" /\ size >= 20
      <3>1. h = ReadHeader(a)
        BY <2>1 DEF HeaderRead, STUN_HEADER_SIZE
      <3>2. Len(a.stream.data) >= 10
        <4> HIDE DEF size
        <4>1. QED
          BY <1>1, <2>1
      <3>3. /\ h \in Readers /\ h.stream = a.stream /\ h.attributes = a.attributes
            /\ h.state \in {"HeaderValidated", "BodyValidated", "ParseError"}
            /\ h.state = "BodyValidated" => h.msgLength = 0
        BY <3>1, <3>2, HeaderIs
      <3> HIDE DEF h, size
      <3>4. h.state = "BodyValidated" /\ ~(size > Whole(h)) => size = 20
        BY <1>1, <2>1, <3>3 DEF Whole, STUN_HEADER_SIZE
      <3>5. QED
        BY <2>1, <3>3, <3>4
    <2>2. CASE ~(a.state = "HeaderNotRead" /\ size >= 20)
      <3>1. h = a
        BY <2>2 DEF HeaderRead, STUN_HEADER_SIZE
      <3> HIDE DEF h
      <3>2. QED
        BY <3>1
    <2>3. QED
      BY <2>1, <2>2
  <1> HIDE DEF h
  <1>3. CASE h.state \in {"HeaderValidated", "BodyValidated"} /\ size > Whole(h)
    <2>1. q = [h EXCEPT !.state = "ParseError"]
      <3>1. ~(h.state = "HeaderValidated" /\ size = Whole(h))
        <4>1. Whole(h) \in Nat
          BY <1>2, ReaderIs DEF Whole, STUN_HEADER_SIZE
        <4> HIDE DEF size
        <4>2. QED
          BY <1>1, <1>3, <4>1
      <3>2. QED
        BY <1>3, <3>1, AdvanceIs DEF h
    <2>2. "ParseError" \in ReaderStates
      BY DEF ReaderStates
    <2> HIDE DEF q
    <2>3. q \in Readers /\ q.state = "ParseError"
      BY <1>2, <2>1, <2>2, StateReplaced
    <2>4. Covered(q)
      BY <2>3 DEF Covered
    <2>5. QED
      BY <2>4 DEF q
  <1>4. CASE h.state = "HeaderValidated" /\ size = Whole(h)
    <2>1. h.msgLength \in Nat
      BY <1>2, ReaderIs
    <2>2. q = ReadBody(h)
      <3>1. ~(size > Whole(h))
        <4> HIDE DEF size
        <4>1. QED
          BY <1>1, <1>4
      <3>2. QED
        BY <1>4, <3>1, AdvanceIs DEF h
    <2> HIDE DEF q
    <2>3. /\ SameMessage(q, h) /\ q.state \in {"BodyValidated", "ParseError"}
          /\ q.state = "BodyValidated" =>
                /\ Chain(q.attributes) /\ Len(q.attributes) <= MAX_NUM_ATTRIBUTES
                /\ EndOf(q.attributes, Len(q.attributes)) = GetSize(q.stream)
      BY <1>2, <1>4, <2>2, BodyCovered
    <2>4. q \in Readers /\ GetSize(q.stream) = Whole(q)
      BY <1>2, <1>4, <2>3 DEF SameMessage, GetSize, Whole
    <2>5. Covered(q)
      BY <2>3, <2>4 DEF Covered
    <2>6. QED
      BY <2>5 DEF q
  <1>5. CASE /\ ~(h.state \in {"HeaderValidated", "BodyValidated"} /\ size > Whole(h))
             /\ ~(h.state = "HeaderValidated" /\ size = Whole(h))
    <2>1. q = h
      BY <1>5, AdvanceIs DEF h
    <2> HIDE DEF q
    <2>2. h.state = "HeaderValidated" => size < Whole(h)
      <3>1. Whole(h) \in Nat
        BY <1>2, ReaderIs DEF Whole, STUN_HEADER_SIZE
      <3> HIDE DEF size
      <3>2. QED
        BY <1>1, <1>5, <3>1
    <2>3. h.state = "BodyValidated" =>
             /\ Chain(h.attributes) /\ Len(h.attributes) <= MAX_NUM_ATTRIBUTES
             /\ EndOf(h.attributes, Len(h.attributes)) = size
             /\ size = Whole(h)
      <3>1. SUFFICES ASSUME h.state = "BodyValidated"
                     PROVE  /\ Chain(h.attributes) /\ Len(h.attributes) <= MAX_NUM_ATTRIBUTES
                            /\ EndOf(h.attributes, Len(h.attributes)) = size
                            /\ size = Whole(h)
        OBVIOUS
      <3>2. h.attributes = <<>> /\ h.msgLength = 0 /\ size = 20
        BY <1>2, <1>5, <3>1
      <3> HIDE DEF size
      <3>3. Whole(h) = 20
        BY <3>2 DEF Whole, STUN_HEADER_SIZE
      <3>4. QED
        BY <1>1, <3>2, <3>3, NothingCovered
    <2>4. Covered(h)
      BY <1>2, <2>2, <2>3 DEF Covered
    <2>5. QED
      BY <2>1, <2>4 DEF q
  <1>6. QED
    BY <1>3, <1>4, <1>5

LEMMA BytesCover ==
    ASSUME NEW r, Covered(r), NEW words \in Seq(Nat)
    PROVE  Covered(AddBytes(r, words))
  <1>1. CASE r.state = "ParseError" \/ words = <<>>
    BY <1>1 DEF AddBytes
  <1>2. CASE r.state # "ParseError" /\ words # <<>>
    <2>1. r \in Readers
      BY DEF Covered
    <2>2. PICK a \in Readers :
              /\ AddBytes(r, words) = Advance(a)
              /\ Joined(a.stream.data, r.stream.data, words)
              /\ a.state = r.state /\ a.attributes = r.attributes /\ a.msgLength = r.msgLength
      BY <1>2, <2>1, BytesAppended
    <2>3. GetSize(a.stream) > GetSize(r.stream) /\ GetSize(r.stream) \in Nat
      <3>1. Len(words) \in Nat /\ Len(words) # 0
        BY <1>2, EmptySeq, LenProperties
      <3>2. Len(a.stream.data) = Len(r.stream.data) + Len(words) /\ Len(r.stream.data) \in Nat
        BY <2>1, <2>2, ReaderIs DEF Joined
      <3>3. QED
        BY <3>1, <3>2 DEF GetSize
    <2>4. a.state \in {"HeaderNotRead", "HeaderValidated"} => a.attributes = <<>>
      BY <2>2 DEF Covered
    <2>5. a.state = "BodyValidated" => GetSize(a.stream) > Whole(a)
      <3>1. a.state = "BodyValidated" => GetSize(r.stream) = Whole(a)
        BY <2>2 DEF Covered, Whole
      <3>2. QED
        BY <2>3, <3>1
    <2>6. QED
      BY <2>2, <2>4, <2>5, AdvanceCovers
  <1>3. QED
    BY <1>1, <1>2

(* -------- the invariant ---------------------------------------------------- *)

BuildInv ==
    /\ added \in Seq(Additions)
    /\ Sound(builder) /\ Headed(builder) /\ Layout(builder, added)

(* What is sent is the whole message, with its length in its header, when  *)
(* the attached buffer could hold it.                                      *)
WireInv ==
    /\ wire \in Seq(Nat) /\ delivered \in Nat
    /\ wire = <<>> => delivered = 0
    /\ wire # <<>> /\ ~altered /\ GetSize(builder.stream) <= MAX_STUN_MESSAGE_SIZE =>
          /\ wire = builder.stream.data
          /\ wire[2] = 2 * Len(wire) - 20

LEMMA StaysHeaded ==
    ASSUME NEW b, Sound(b), Headed(b), NEW c, c.transid = b.transid, c.legacy = b.legacy,
           \A i \in 1..Len(b.stream.data) : i # 2 => c.stream.data[i] = b.stream.data[i]
    PROVE  Headed(c)
  <1>1. Len(b.stream.data) \in Nat /\ Len(b.stream.data) >= 10
    BY SoundIs
  <1>2. 1 \in 1..Len(b.stream.data) /\ \A i \in 1..8 : 2 + i \in 1..Len(b.stream.data) /\ 2 + i # 2
    BY <1>1
  <1>3. c.stream.data[1] = b.stream.data[1]
        /\ \A i \in 1..8 : c.stream.data[2 + i] = b.stream.data[2 + i]
    BY <1>2
  <1>4. QED
    BY <1>3 DEF Headed

LEMMA BuildStart == Init => BuildInv
  <1> SUFFICES ASSUME Init PROVE BuildInv
    OBVIOUS
  <1>1. PICK class \in Classes, transid \in TransactionIds :
           builder = AddHeader(class, transid, SubSeq(transid, 1, 2) # STUN_COOKIE,
                               MAX_STUN_MESSAGE_SIZE)
    BY DEF Init
  <1> DEFINE legacy == SubSeq(transid, 1, 2) # STUN_COOKIE
  <1>2. legacy \in BOOLEAN /\ legacy = (SubSeq(transid, 1, 2) # STUN_COOKIE)
    OBVIOUS
  <1> HIDE DEF legacy
  <1>3. builder = AddHeader(class, transid, legacy, MAX_STUN_MESSAGE_SIZE)
    BY <1>1 DEF legacy
  <1>4. Sound(builder) /\ Headed(builder) /\ Len(builder.stream.data) = 10
    BY <1>2, <1>3, HeaderMade
  <1>5. added = <<>> /\ <<>> \in Seq(Additions)
    BY DEF Init
  <1>6. Layout(builder, added)
    BY <1>4, <1>5, LayoutOfNothing
  <1>7. QED
    BY <1>4, <1>5, <1>6 DEF BuildInv

LEMMA BuildAdd == BuildInv /\ Add => BuildInv'
  <1> SUFFICES ASSUME BuildInv, Add PROVE BuildInv'
    OBVIOUS
  <1>1. PICK a \in Additions : builder' = AddTo(builder, a) /\ added' = Append(added, a)
    BY DEF Add
  <1>2. Sound(builder) /\ Headed(builder) /\ Layout(builder, added) /\ added \in Seq(Additions)
        /\ builder.transid \in TransactionIds
    BY DEF BuildInv, Headed
  <1>3. /\ Sound(builder') /\ builder'.transid = builder.transid
        /\ builder'.legacy = builder.legacy
        /\ \A i \in 1..Len(builder.stream.data) :
              i # 2 => builder'.stream.data[i] = builder.stream.data[i]
    BY <1>1, <1>2, AdditionSound
  <1>4. Headed(builder')
    BY <1>2, <1>3, StaysHeaded
  <1>5. Layout(builder', added')
    BY <1>1, <1>2, LayoutGrows
  <1>6. added' \in Seq(Additions)
    BY <1>1, <1>2, AppendProperties
  <1>7. QED
    BY <1>3, <1>4, <1>5, <1>6 DEF BuildInv

LEMMA BuildSend == BuildInv /\ Send => BuildInv'
  <1> SUFFICES ASSUME BuildInv, Send PROVE BuildInv'
    OBVIOUS
  <1>1. builder' = FixLengthField(builder) /\ added' = added
    BY DEF Send, Built, GetResult
  <1>2. Sound(builder) /\ Headed(builder) /\ Layout(builder, added) /\ added \in Seq(Additions)
        /\ builder.transid \in TransactionIds
    BY DEF BuildInv, Headed
  <1>3. /\ Sound(builder') /\ builder'.transid = builder.transid
        /\ builder'.legacy = builder.legacy
        /\ \A i \in 1..Len(builder.stream.data) :
              i # 2 => builder'.stream.data[i] = builder.stream.data[i]
    BY <1>1, <1>2, FixKeeps DEF Grown
  <1>4. Headed(builder')
    BY <1>2, <1>3, StaysHeaded
  <1>5. Layout(builder', added')
    BY <1>1, <1>2, LayoutFixed
  <1>6. QED
    BY <1>1, <1>2, <1>3, <1>4, <1>5 DEF BuildInv

(* The other steps leave the builder alone.                                *)
LEMMA BuildKept == BuildInv /\ UNCHANGED <<builder, added>> => BuildInv'
  BY DEF BuildInv

LEMMA BuilderRests == Alter \/ DeliverDatagram \/ DeliverPiece => UNCHANGED <<builder, added>>
  BY DEF Alter, DeliverDatagram, DeliverPiece, Deliver

LEMMA WireStart == Init => WireInv
  BY DEF Init, WireInv

LEMMA WireAdd == WireInv /\ Add => WireInv'
  BY DEF WireInv, Add

LEMMA WireSend == BuildInv /\ WireInv /\ Send => WireInv'
  <1> SUFFICES ASSUME BuildInv, WireInv, Send PROVE WireInv'
    OBVIOUS
  <1> DEFINE s == builder'.stream
  <1>1. /\ builder' = FixLengthField(builder) /\ wire' = AttachedContent(builder'.stream)
        /\ delivered' = delivered /\ delivered = 0
    BY DEF Send, Built, GetResult, WireInv
  <1>2. /\ Sound(builder') /\ builder'.stream.data[2] = 2 * Len(builder'.stream.data) - 20
    <2>1. Sound(builder)
      BY DEF BuildInv
    <2>2. /\ Grown(builder', builder, <<>>)
          /\ Len(builder'.stream.data) = Len(builder.stream.data)
          /\ builder'.stream.data[2] = 2 * Len(builder.stream.data) - 20
      BY <1>1, <2>1, FixKeeps
    <2>3. QED
      BY <2>2 DEF Grown
  <1>3. s \in Streams /\ s.data \in Seq(Nat) /\ s.behind \in Seq(Nat)
    <2>1. s \in Streams
      BY <1>2, SoundIs
    <2> HIDE DEF s
    <2>2. QED
      BY <2>1 DEF Streams
  <1>4. wire' \in Seq(Nat)
    BY <1>1, <1>3 DEF AttachedContent
  <1>5. GetSize(s) <= MAX_STUN_MESSAGE_SIZE => wire' = s.data
    <2>1. GetSize(s) <= MAX_STUN_MESSAGE_SIZE => s.attached
      BY <1>2 DEF Sound
    <2>2. QED
      BY <1>1, <2>1 DEF AttachedContent
  <1>6. QED
    BY <1>1, <1>2, <1>4, <1>5 DEF WireInv

LEMMA Replaced ==
    ASSUME NEW seq \in Seq(Nat), NEW i \in 1..Len(seq), NEW word \in Nat
    PROVE  [seq EXCEPT ![i] = word] \in Seq(Nat)
  BY ExceptSeq

Changed(words, i) == [words EXCEPT ![i] = (@ + 1) % 65536]

Extended(words) == [words EXCEPT ![2] = @ + 4]

Reduced(words) == [words EXCEPT ![2] = @ - 8]

LEMMA AlterationsAre ==
    \A seq \in Alterations :
        \/ \E i \in DOMAIN wire : seq = Changed(wire, i)
        \/ seq = Front(wire) \/ seq = wire \o <<32802, 0>> \/ seq = Extended(wire \o <<32802, 0>>)
        \/ /\ Len(wire) > 14 /\ wire[2] >= 8
           /\ seq = Reduced(SubSeq(wire, 1, Len(wire) - 4))
  BY DEF Alterations, Changed, Extended, Reduced

LEMMA AlterationsAreWords ==
    ASSUME WireInv, wire # <<>>
    PROVE  \A seq \in Alterations : seq \in Seq(Nat)
  <1> DEFINE n == Len(wire)
  <1>1. wire \in Seq(Nat) /\ n \in Nat /\ n >= 1 /\ \A i \in 1..n : wire[i] \in Nat
    <2>1. wire \in Seq(Nat)
      BY DEF WireInv
    <2>2. n \in Nat /\ n # 0
      BY <2>1, EmptySeq, LenProperties
    <2>3. \A i \in 1..n : wire[i] \in Nat
      BY <2>1
    <2> HIDE DEF n
    <2>4. QED
      BY <2>1, <2>2, <2>3
  <1>2. ASSUME NEW i \in DOMAIN wire PROVE Changed(wire, i) \in Seq(Nat)
    <2>1. i \in 1..n
      BY <1>1
    <2> DEFINE word == (wire[i] + 1) % 65536
    <2>2. word \in Nat
      <3> DEFINE x == wire[i]
      <3>1. x \in Nat
        BY <1>1, <2>1
      <3> HIDE DEF x
      <3>2. (x + 1) % 65536 \in Nat
        BY <3>1
      <3>3. QED
        BY <3>2 DEF x
    <2> HIDE DEF word
    <2>3. [wire EXCEPT ![i] = word] \in Seq(Nat)
      BY <1>1, <2>1, <2>2, Replaced DEF n
    <2>4. QED
      BY <2>3 DEF word, Changed
  <1>3. Front(wire) \in Seq(Nat)
    <2> DEFINE m == 1
               k == n - 1
    <2>1. m \in Nat /\ k \in Nat /\ 1 <= m /\ m <= k + 1 /\ k <= n
      BY <1>1
    <2>2. Front(wire) = SubSeq(wire, m, k)
      BY DEF Front
    <2> HIDE DEF m, k
    <2>3. SubSeq(wire, m, k) \in Seq(Nat)
      BY <1>1, <2>1, PartIs DEF n
    <2>4. QED
      BY <2>2, <2>3
  <1> DEFINE more == <<32802, 0>>
             long == wire \o more
  <1>4. more \in Seq(Nat) /\ Len(more) = 2
    OBVIOUS
  <1> HIDE DEF more
  <1>5. long \in Seq(Nat) /\ Len(long) = n + 2
    <2>1. long \in Seq(Nat) /\ Joined(long, wire, more)
      BY <1>1, <1>4, JoinedIs
    <2> HIDE DEF long
    <2>2. QED
      BY <1>4, <2>1 DEF Joined
  <1>6. Extended(long) \in Seq(Nat)
    <2> HIDE DEF long
    <2>1. 2 \in 1..Len(long)
      BY <1>1, <1>5
    <2>2. \A i \in 1..Len(long) : long[i] \in Nat
      BY <1>5
    <2> DEFINE word == long[2] + 4
               i == 2
    <2>3. word \in Nat /\ i \in 1..Len(long)
      BY <2>1, <2>2
    <2> HIDE DEF word, i
    <2>4. [long EXCEPT ![i] = word] \in Seq(Nat)
      BY <1>5, <2>3, Replaced
    <2>5. QED
      BY <2>4 DEF word, i, Extended
  <1>7. ASSUME n > 14, wire[2] >= 8
        PROVE  Reduced(SubSeq(wire, 1, n - 4)) \in Seq(Nat)
    <2> DEFINE part == SubSeq(wire, 1, n - 4)
               m == 1
               k == n - 4
    <2>1. m \in Nat /\ k \in Nat /\ 1 <= m /\ m <= k + 1 /\ k <= n
      BY <1>1, <1>7
    <2>2. part = SubSeq(wire, m, k) /\ m = 1
      OBVIOUS
    <2>3. k > 10
      BY <1>1, <1>7
    <2> HIDE DEF m, k, part
    <2>4. part \in Seq(Nat) /\ Len(part) = (k - m) + 1
          /\ \A i \in 1..((k - m) + 1) : part[i] = wire[(m + i) - 1]
      BY <1>1, <2>1, <2>2, PartIs DEF n
    <2>5. 2 \in 1..Len(part) /\ part[2] = wire[2]
      <3>1. 2 \in 1..((k - m) + 1) /\ (m + 2) - 1 = 2
        BY <2>3, <2>1, <2>2
      <3>2. part[2] = wire[(m + 2) - 1]
        BY <2>4, <3>1
      <3>3. QED
        BY <2>4, <3>1, <3>2
    <2> DEFINE word == part[2] - 8
               i == 2
    <2>6. word \in Nat /\ i \in 1..Len(part)
      <3>1. 2 \in 1..n
        BY <1>1, <1>7
      <3>2. wire[2] \in Nat
        BY <1>1, <3>1
      <3>3. QED
        BY <1>7, <2>5, <3>2
    <2> HIDE DEF word, i
    <2>7. [part EXCEPT ![i] = word] \in Seq(Nat)
      BY <2>4, <2>6, Replaced
    <2>8. QED
      BY <2>7 DEF word, i, part, Reduced
  <1>8. TAKE seq \in Alterations
  <1>9. \/ \E i \in DOMAIN wire : seq = Changed(wire, i)
        \/ seq = Front(wire) \/ seq = long \/ seq = Extended(long)
        \/ n > 14 /\ wire[2] >= 8 /\ seq = Reduced(SubSeq(wire, 1, n - 4))
    BY AlterationsAre DEF more
  <1> HIDE DEF long, n
  <1>10. QED
    BY <1>2, <1>3, <1>5, <1>6, <1>7, <1>9

LEMMA WireAlter == WireInv /\ Alter => WireInv'
  <1> SUFFICES ASSUME WireInv, Alter PROVE WireInv'
    OBVIOUS
  <1>1. wire' \in Alterations /\ wire # <<>> /\ delivered = 0 /\ delivered' = delivered /\ altered'
    BY DEF Alter
  <1>2. wire' \in Seq(Nat)
    BY <1>1, AlterationsAreWords
  <1>3. QED
    BY <1>1, <1>2 DEF WireInv

(* The words a reader is given are the next of the message.                *)
LEMMA DeliveryIs ==
    ASSUME WireInv, Covered(reader), DeliverDatagram \/ DeliverPiece
    PROVE  \E n \in Nat :
              /\ Deliver(n) /\ n > 0 /\ delivered + n <= Len(wire) /\ wire # <<>>
              /\ SubSeq(wire, delivered + 1, delivered + n) \in Seq(Nat)
  <1>1. wire \in Seq(Nat) /\ delivered \in Nat /\ Len(wire) \in Nat
    BY LenProperties DEF WireInv
  <1>2. ASSUME NEW n \in Nat, n > 0, delivered + n <= Len(wire)
        PROVE  /\ SubSeq(wire, delivered + 1, delivered + n) \in Seq(Nat)
               /\ wire # <<>>
    <2> DEFINE m == delivered + 1
               k == delivered + n
    <2>1. m \in Nat /\ k \in Nat /\ 1 <= m /\ m <= k + 1 /\ k <= Len(wire)
      BY <1>1, <1>2
    <2> HIDE DEF m, k
    <2>2. SubSeq(wire, m, k) \in Seq(Nat)
      BY <1>1, <2>1, PartIs
    <2>3. Len(wire) # 0
      BY <1>1, <1>2
    <2>4. wire # <<>>
      <3>1. Len(<<>>) = 0
        OBVIOUS
      <3>2. QED
        BY <2>3, <3>1, Zenon
    <2>5. QED
      BY <2>2, <2>4 DEF m, k
  <1>3. CASE DeliverDatagram
    <2>1. delivered = 0 /\ wire # <<>> /\ Deliver(Len(wire))
      BY <1>3 DEF DeliverDatagram
    <2>2. Len(wire) > 0
      BY <1>1, <2>1, EmptySeq
    <2> DEFINE n == Len(wire)
    <2>3. n \in Nat /\ n > 0 /\ delivered + n <= Len(wire) /\ Deliver(n)
      BY <1>1, <2>1, <2>2
    <2> HIDE DEF n
    <2>4. QED
      BY <1>2, <2>3
  <1>4. CASE DeliverPiece
    <2> DEFINE needed == HowManyBytesNeeded(reader)
    <2>1. PICK n \in {needed \div 4, needed \div 2} :
              n > 0 /\ delivered + n <= Len(wire) /\ Deliver(n)
      BY <1>4 DEF DeliverPiece
    <2>2. needed \in Int
      <3>1. reader.msgLength \in Nat /\ GetSize(reader.stream) \in Nat
        BY ReaderIs DEF Covered
      <3>2. QED
        BY <3>1 DEF HowManyBytesNeeded, STUN_HEADER_SIZE
    <2> HIDE DEF needed
    <2>3. n \in Nat
      BY <2>1, <2>2
    <2>4. QED
      BY <1>2, <2>1, <2>3
  <1>5. QED
    BY <1>3, <1>4

LEMMA WireDeliver ==
    WireInv /\ Covered(reader) /\ (DeliverDatagram \/ DeliverPiece) => WireInv'
  <1> SUFFICES ASSUME WireInv, Covered(reader), DeliverDatagram \/ DeliverPiece PROVE WireInv'
    OBVIOUS
  <1>1. PICK n \in Nat : Deliver(n) /\ wire # <<>>
    BY DeliveryIs
  <1>2. UNCHANGED <<builder, wire, altered>> /\ delivered' = delivered + n
    BY <1>1 DEF Deliver
  <1>3. QED
    BY <1>1, <1>2 DEF WireInv

LEMMA NewCovered == Covered(NewReader(TRUE))
  <1> DEFINE s == Attach(MAX_STUN_MESSAGE_SIZE)
             r == NewReader(TRUE)
  <1>1. s \in Streams
    BY ReaderAssumption DEF Attach, Streams
  <1>2. r = [state |-> "HeaderNotRead", stream |-> s, attributes |-> <<>>, msgLength |-> 0,
             msgClass |-> "Invalid", transid |-> <<>>, allowLegacy |-> TRUE]
    BY DEF NewReader
  <1> HIDE DEF s, r
  <1>3. r \in Readers /\ r.state = "HeaderNotRead" /\ r.attributes = <<>>
    BY <1>1, <1>2 DEF Readers, ReaderStates, MessageClasses
  <1>4. Covered(r)
    BY <1>3 DEF Covered
  <1>5. QED
    BY <1>4 DEF r

LEMMA DeliveryCovers ==
    WireInv /\ Covered(reader) /\ (DeliverDatagram \/ DeliverPiece) => Covered(reader')
  <1> SUFFICES ASSUME WireInv, Covered(reader), DeliverDatagram \/ DeliverPiece
               PROVE  Covered(reader')
    OBVIOUS
  <1>1. PICK n \in Nat : Deliver(n) /\ SubSeq(wire, delivered + 1, delivered + n) \in Seq(Nat)
    BY DeliveryIs
  <1>2. reader' = AddBytes(reader, SubSeq(wire, delivered + 1, delivered + n))
    BY <1>1 DEF Deliver
  <1>3. QED
    BY <1>1, <1>2, BytesCover

MessageInv == BuildInv /\ WireInv /\ Covered(reader)

(* The invariant, step by step.                                            *)
LEMMA MessageInvHolds == Spec => []MessageInv
  <1>1. Init => MessageInv
    <2>1. Init => reader = NewReader(TRUE)
      BY DEF Init
    <2>2. QED
      BY <2>1, BuildStart, WireStart, NewCovered DEF MessageInv
  <1>2. MessageInv /\ [Next]_vars => MessageInv'
    <2> SUFFICES ASSUME MessageInv, [Next]_vars PROVE MessageInv'
      OBVIOUS
    <2>1. BuildInv /\ WireInv /\ Covered(reader)
      BY DEF MessageInv
    <2>2. CASE Add
      <3>1. reader' = reader
        BY <2>2 DEF Add
      <3>2. QED
        BY <2>1, <2>2, <3>1, BuildAdd, WireAdd DEF MessageInv
    <2>3. CASE Send
      <3>1. reader' = reader
        BY <2>3 DEF Send
      <3>2. QED
        BY <2>1, <2>3, <3>1, BuildSend, WireSend DEF MessageInv
    <2>4. CASE Alter
      <3>1. reader' = reader
        BY <2>4 DEF Alter
      <3>2. QED
        BY <2>1, <2>4, <3>1, BuildKept, BuilderRests, WireAlter DEF MessageInv
    <2>5. CASE DeliverDatagram \/ DeliverPiece
      BY <2>1, <2>5, BuildKept, BuilderRests, WireDeliver, DeliveryCovers DEF MessageInv
    <2>6. CASE UNCHANGED vars
      BY <2>1, <2>6 DEF MessageInv, BuildInv, WireInv, vars
    <2>7. QED
      BY <2>2, <2>3, <2>4, <2>5, <2>6 DEF Next
  <1>3. QED
    BY <1>1, <1>2, PTL DEF Spec

(* A message the reader validates is covered exactly by its header and its *)
(* attributes, whatever happened to it on the way: ReadBody passes over    *)
(* one attribute after the other and ends only at the end of the stream.   *)
THEOREM CoverTheorem == Spec => []AttributesCoverMessage
  <1>1. MessageInv => AttributesCoverMessage
    <2> SUFFICES ASSUME Covered(reader), reader.state = "BodyValidated"
                 PROVE  AttributesCoverMessage
      BY DEF MessageInv, AttributesCoverMessage
    <2> DEFINE A == reader.attributes
    <2>1. /\ Chain(A) /\ Len(A) <= MAX_NUM_ATTRIBUTES
          /\ EndOf(A, Len(A)) = GetSize(reader.stream)
          /\ GetSize(reader.stream) = reader.msgLength + STUN_HEADER_SIZE
          /\ A \in Seq(Entries)
      BY ReaderIs DEF Covered, Whole
    <2>2. DOMAIN A = 1..Len(A)
      BY <2>1
    <2>3. QED
      BY <2>1, <2>2 DEF AttributesCoverMessage, Chain, EndOf
  <1>2. QED
    BY <1>1, MessageInvHolds, PTL

(* -------- what is read of a message that arrives as it was built ----------- *)

SizesFit(attrs, b) ==
    \A i \in 1..Len(attrs) : SizeOf(attrs[i], b.legacy, b.transid) <= MAX_STUN_ATTRIBUTE_SIZE

(* A whole message within the limits of the reader.                        *)
Message(data, attrs, b, at) ==
    /\ data \in Seq(Nat) /\ Len(data) >= 10
    /\ data[2] = 2 * Len(data) - 20 /\ data[2] <= MAX_STUN_MESSAGE_SIZE
    /\ data[1] < 16384
    /\ \A i \in 1..8 : data[2 + i] = b.transid[i]
    /\ b.legacy \in BOOLEAN /\ b.transid \in TransactionIds
    /\ attrs \in Seq(Additions) /\ Len(attrs) <= MAX_NUM_ATTRIBUTES
    /\ SizesFit(attrs, b)
    /\ LaidOut(data, attrs, b, at)

(* The reader's table lists what was added.                                *)
Lists(A, attrs, b, at, n) ==
    /\ A \in Seq(Entries) /\ Len(A) = n
    /\ \A i \in 1..n : /\ A[i].type = TypeOf(attrs[i].kind, b.legacy)
                       /\ A[i].size = SizeOf(attrs[i], b.legacy, b.transid)
                       /\ A[i].offset = 2 * at[i] + 4

LEMMA ListGrows ==
    ASSUME NEW A, NEW attrs, NEW b, NEW at, NEW n \in Nat, Lists(A, attrs, b, at, n),
           NEW e \in Entries, e.type = TypeOf(attrs[n + 1].kind, b.legacy),
           e.size = SizeOf(attrs[n + 1], b.legacy, b.transid), e.offset = 2 * at[n + 1] + 4
    PROVE  Lists(Append(A, e), attrs, b, at, n + 1)
  <1> DEFINE B == Append(A, e)
  <1>1. A \in Seq(Entries) /\ Len(A) = n
    BY DEF Lists
  <1>2. B \in Seq(Entries) /\ Len(B) = n + 1 /\ B[n + 1] = e /\ \A i \in 1..n : B[i] = A[i]
    BY <1>1, AppendProperties
  <1> HIDE DEF B
  <1>3. ASSUME NEW i \in 1..(n + 1)
        PROVE  /\ B[i].type = TypeOf(attrs[i].kind, b.legacy)
               /\ B[i].size = SizeOf(attrs[i], b.legacy, b.transid)
               /\ B[i].offset = 2 * at[i] + 4
    <2>1. CASE i \in 1..n
      BY <1>2, <2>1 DEF Lists
    <2>2. CASE i = n + 1
      BY <1>2, <2>2
    <2>3. QED
      BY <2>1, <2>2
  <1>4. QED
    BY <1>2, <1>3 DEF Lists, B

(* Where an attribute of the message lies.                                 *)
LEMMA PlaceIs ==
    ASSUME NEW data, NEW attrs, NEW b, NEW at, Message(data, attrs, b, at),
           NEW i \in 1..Len(attrs)
    PROVE  LET size == SizeOf(attrs[i], b.legacy, b.transid)
           IN  /\ attrs[i] \in Additions /\ size \in Nat /\ Padding(size) \in Nat
               /\ at[i] \in Nat /\ at[i] >= 10 /\ at[i + 1] \in Nat
               /\ 2 * at[i + 1] = 2 * at[i] + 4 + size + Padding(size)
               /\ at[i] + 2 <= at[i + 1] /\ at[i + 1] <= Len(data)
               /\ IsAt(data, at[i], attrs[i], b)
  <1> DEFINE a == attrs[i]
             size == SizeOf(a, b.legacy, b.transid)
             x == Extent(size)
             pad == Padding(size)
  <1>1. a \in Additions /\ Len(attrs) \in Nat /\ b.legacy \in BOOLEAN
        /\ b.transid \in TransactionIds /\ Len(data) \in Nat
    <2>1. data \in Seq(Nat) /\ attrs \in Seq(Additions)
      BY DEF Message
    <2>2. b.legacy \in BOOLEAN /\ b.transid \in TransactionIds
      BY DEF Message
    <2>3. a \in Additions
      BY <2>1, ElementOfSeq
    <2> HIDE DEF a
    <2>4. QED
      BY <2>1, <2>2, <2>3, LenProperties
  <1>2. size \in Nat /\ size % 2 = 0
    BY <1>1, AdditionSize
  <1>3. i \in 1..(Len(attrs) + 1) /\ i + 1 \in 1..(Len(attrs) + 1)
    BY <1>1
  <1> DEFINE p == at[i]
             q == at[i + 1]
  <1>4. /\ p \in Nat /\ p >= 10 /\ q \in Nat /\ q <= Len(data)
        /\ q = p + x /\ IsAt(data, p, a, b)
    <2>1. LaidOut(data, attrs, b, at)
      BY DEF Message
    <2>2. /\ at \in [1..(Len(attrs) + 1) -> Nat]
          /\ \A k \in 1..(Len(attrs) + 1) : at[k] >= 10 /\ at[k] <= Len(data)
          /\ \A k \in 1..Len(attrs) :
                at[k + 1] = at[k] + ExtentOf(attrs[k], b) /\ IsAt(data, at[k], attrs[k], b)
      BY <2>1 DEF LaidOut
    <2>3. q = p + ExtentOf(a, b) /\ IsAt(data, p, a, b)
      BY <2>2
    <2>4. ExtentOf(a, b) = x
      BY DEF ExtentOf
    <2>5. p \in Nat /\ p >= 10 /\ q \in Nat /\ q <= Len(data)
      BY <1>3, <2>2
    <2> HIDE DEF p, q, x, a
    <2>6. QED
      BY <2>3, <2>4, <2>5
  <1> HIDE DEF size
  <1>5. x \in Nat /\ x >= 2 /\ 2 * x = 4 + size + pad
    BY <1>2, ExtentOfEven
  <1>6. pad \in Nat
    <2>1. Padding(size) \in 0..3
      BY <1>2, PaddingCompletes
    <2>2. QED
      BY <2>1
  <1> HIDE DEF x, pad, p, q
  <1>7. 2 * q = 2 * p + 4 + size + pad /\ p + 2 <= q
    BY <1>2, <1>4, <1>5, <1>6
  <1>8. QED
    BY <1>1, <1>2, <1>4, <1>6, <1>7 DEF size, pad, p, q

(* After n passes the reader is past the first n attributes, after one     *)
(* pass more than there are it is done.                                    *)
Passed(q, r, attrs, b, at, n) ==
    /\ SameMessage(q, r)
    /\ n <= Len(attrs) => /\ q.state = "HeaderValidated" /\ q.stream.pos = 2 * at[n + 1]
                          /\ Lists(q.attributes, attrs, b, at, n)
    /\ n > Len(attrs) => /\ q.state = "BodyValidated"
                         /\ Lists(q.attributes, attrs, b, at, Len(attrs))

LEMMA SizeFits ==
    ASSUME NEW data, NEW attrs, NEW b, NEW at, Message(data, attrs, b, at),
           NEW i \in 1..Len(attrs)
    PROVE  SizeOf(attrs[i], b.legacy, b.transid) <= MAX_STUN_ATTRIBUTE_SIZE
  <1>1. SizesFit(attrs, b)
    BY DEF Message
  <1>2. QED
    BY <1>1 DEF SizesFit

LEMMA PassTakes ==
    ASSUME NEW data, NEW attrs, NEW b, NEW at, Message(data, attrs, b, at),
           NEW r, r.stream.data = data, NEW p, NEW n \in Nat, n < Len(attrs),
           Passed(p, r, attrs, b, at, n)
    PROVE  Passed(ReadAttribute(p), r, attrs, b, at, n + 1)
  <1> DEFINE i == n + 1
             s == p.stream
             q == ReadAttribute(p)
             size == SizeOf(attrs[i], b.legacy, b.transid)
             type == TypeOf(attrs[i].kind, b.legacy)
             pad == Padding(size)
             here == at[i]
             next == at[i + 1]
  <1>1. attrs \in Seq(Additions) /\ Len(attrs) \in Nat /\ Len(attrs) <= MAX_NUM_ATTRIBUTES
        /\ MAX_NUM_ATTRIBUTES \in Nat /\ Len(data) \in Nat /\ MAX_STUN_ATTRIBUTE_SIZE \in Nat
    BY LenProperties, ReaderAssumption DEF Message
  <1>2. i \in 1..Len(attrs)
    BY <1>1
  <1>3. /\ size \in Nat /\ pad \in Nat /\ here \in Nat /\ next \in Nat
        /\ 2 * next = 2 * here + 4 + size + pad
        /\ here + 2 <= next /\ next <= Len(data)
        /\ IsAt(data, here, attrs[i], b) /\ size <= MAX_STUN_ATTRIBUTE_SIZE
    <2> HIDE DEF i
    <2>1. SizeOf(attrs[i], b.legacy, b.transid) <= MAX_STUN_ATTRIBUTE_SIZE
      BY <1>2, SizeFits
    <2>2. QED
      BY <1>2, <2>1, PlaceIs
  <1>4. data[here + 1] = type /\ data[here + 2] = size
    BY <1>3 DEF IsAt, Holds
  <1>5. /\ p \in Readers /\ s.data = data /\ p.state = "HeaderValidated" /\ s.pos = 2 * here
        /\ Lists(p.attributes, attrs, b, at, n) /\ SameMessage(p, r)
    BY <1>1 DEF Passed, SameMessage
  <1> HIDE DEF i, q, s, here, next, size, type, pad
  <1>6. TypeAt(s) = type /\ SizeAt(s) = size
    <2>1. (2 * here) \div 2 + 1 = here + 1 /\ (2 * here + 2) \div 2 + 1 = here + 2
      BY <1>3
    <2>2. QED
      BY <1>4, <1>5, <2>1 DEF TypeAt, SizeAt, Peek
  <1>7. s.pos # GetSize(s) /\ Readable(p) /\ s.pos + ExtentAt(s) = 2 * next
    <2>1. ExtentAt(s) = 4 + size + pad
      BY <1>6 DEF ExtentAt, pad
    <2>2. s.pos + ExtentAt(s) = 2 * next
      BY <1>3, <1>5, <2>1
    <2>3. GetSize(s) = 2 * Len(data)
      BY <1>5 DEF GetSize
    <2>4. s.pos # GetSize(s) /\ s.pos + 4 <= GetSize(s) /\ 2 * next <= GetSize(s)
      BY <1>1, <1>3, <1>5, <2>3, SMTT(20)
    <2>5. Len(p.attributes) # MAX_NUM_ATTRIBUTES
      <3>1. Len(p.attributes) = n
        BY <1>5 DEF Lists
      <3>2. QED
        BY <1>1, <3>1
    <2>6. ~(SizeAt(s) > MAX_STUN_ATTRIBUTE_SIZE)
      BY <1>1, <1>3, <1>6
    <2>7. QED
      BY <2>2, <2>4, <2>5, <2>6 DEF Readable, CanRead, CanSeek, s
  <1>8. SameMessage(q, p) /\ Taken(q, p)
    BY <1>5, <1>7, Pass DEF q, s
  <1> DEFINE offset == 2 * here + 4
             e == [type |-> type, size |-> size, offset |-> offset]
  <1>9. q.state = "HeaderValidated" /\ q.stream.pos = 2 * next
        /\ q.attributes = Append(p.attributes, e)
    BY <1>5, <1>6, <1>7, <1>8 DEF Taken, s
  <1>10. e \in Entries /\ e.type = type /\ e.size = size /\ e.offset = offset
    <2>1. type \in Nat
      <3>1. s \in Streams /\ CanRead(s, 4)
        BY <1>5, <1>7, ReaderIs DEF Readable, s
      <3>2. QED
        BY <1>6, <3>1, Peeked
    <2>2. offset \in Nat
      BY <1>3
    <2> HIDE DEF offset
    <2>3. QED
      BY <1>3, <2>1, <2>2 DEF Entries
  <1> HIDE DEF e
  <1>11. Lists(q.attributes, attrs, b, at, n + 1)
    BY <1>5, <1>9, <1>10, ListGrows DEF type, size, here, i
  <1>12. SameMessage(q, r)
    BY <1>5, <1>8, SameMessageTrans
  <1>13. n + 1 <= Len(attrs) /\ ~(n + 1 > Len(attrs))
    BY <1>1
  <1>14. Passed(q, r, attrs, b, at, n + 1)
    BY <1>9, <1>11, <1>12, <1>13 DEF Passed, next, i
  <1>15. QED
    BY <1>14 DEF q

LEMMA PassEnds ==
    ASSUME NEW data, NEW attrs, NEW b, NEW at, Message(data, attrs, b, at),
           NEW r, r.stream.data = data, NEW p, NEW n \in Nat, ~(n < Len(attrs)),
           Passed(p, r, attrs, b, at, n)
    PROVE  Passed(ReadAttribute(p), r, attrs, b, at, n + 1)
  <1> DEFINE q == ReadAttribute(p)
  <1>1. Len(attrs) \in Nat /\ p \in Readers /\ SameMessage(p, r)
    BY LenProperties DEF Message, Passed, SameMessage
  <1>2. SameMessage(q, p) /\ SameMessage(q, r)
    <2>1. SameMessage(q, p)
      BY <1>1, Pass
    <2> HIDE DEF q
    <2>2. QED
      BY <1>1, <2>1, SameMessageTrans
  <1>3. q.state = "BodyValidated" /\ Lists(q.attributes, attrs, b, at, Len(attrs))
    <2>1. CASE n = Len(attrs)
      <3>1. p.state = "HeaderValidated" /\ p.stream.pos = 2 * at[Len(attrs) + 1]
            /\ Lists(p.attributes, attrs, b, at, Len(attrs))
        BY <1>1, <2>1 DEF Passed
      <3>2. at[Len(attrs) + 1] = Len(p.stream.data)
        BY <1>1 DEF Message, LaidOut, SameMessage
      <3>3. p.stream.pos = GetSize(p.stream)
        BY <3>1, <3>2 DEF GetSize
      <3>4. q.state = "BodyValidated" /\ q.attributes = p.attributes
        BY <1>1, <3>1, <3>3, Pass
      <3>5. QED
        BY <3>1, <3>4
    <2>2. CASE n > Len(attrs)
      <3>1. p.state = "BodyValidated" /\ Lists(p.attributes, attrs, b, at, Len(attrs))
        BY <2>2 DEF Passed
      <3>2. q = p
        BY <1>1, <3>1, Pass
      <3>3. QED
        BY <3>1, <3>2
    <2>3. QED
      BY <1>1, <2>1, <2>2
  <1>4. n + 1 > Len(attrs) /\ ~(n + 1 <= Len(attrs))
    BY <1>1
  <1> HIDE DEF q
  <1>5. Passed(q, r, attrs, b, at, n + 1)
    BY <1>2, <1>3, <1>4 DEF Passed
  <1>6. QED
    BY <1>5 DEF q

(* ReadBody validates the message and lists its attributes.                *)
LEMMA BodyListed ==
    ASSUME NEW data, NEW attrs, NEW b, NEW at, Message(data, attrs, b, at),
           NEW r \in Readers, r.stream.data = data, r.state = "HeaderValidated",
           r.attributes = <<>>
    PROVE  LET q == ReadBody(r)
           IN  /\ SameMessage(q, r) /\ q.state = "BodyValidated"
               /\ Lists(q.attributes, attrs, b, at, Len(attrs))
  <1> DEFINE N == MAX_NUM_ATTRIBUTES
  <1>1. N \in Nat /\ Len(attrs) \in Nat /\ Len(attrs) <= N
    BY ReaderAssumption, LenProperties DEF Message
  <1>2. PICK f : /\ f[0] = Start(r)
                 /\ \A n \in 0..N : f[n + 1] = ReadAttribute(f[n])
                 /\ ReadBody(r) = f[N + 1]
    BY ReadBodyIs
  <1> DEFINE Good == {n \in Nat : n <= N + 1 => Passed(f[n], r, attrs, b, at, n)}
  <1>3. 0 \in Good
    <2>1. Passed(Start(r), r, attrs, b, at, 0)
      <3> DEFINE q == Start(r)
      <3>1. SameMessage(q, r) /\ q.state = "HeaderValidated" /\ q.attributes = <<>>
            /\ q.stream.pos = 20
        BY StartIs
      <3>2. Len(<<>>) = 0 /\ <<>> \in Seq(Entries)
        OBVIOUS
      <3> HIDE DEF q
      <3>3. Lists(q.attributes, attrs, b, at, 0)
        BY <3>1, <3>2 DEF Lists
      <3>4. at[0 + 1] = 10
        BY DEF Message, LaidOut
      <3>5. 2 * at[0 + 1] = 20 /\ 0 <= Len(attrs) /\ ~(0 > Len(attrs))
        BY <1>1, <3>4
      <3>6. Passed(q, r, attrs, b, at, 0)
        BY <3>1, <3>3, <3>5 DEF Passed
      <3>7. QED
        BY <3>6 DEF q
    <2>2. QED
      BY <1>2, <2>1
  <1>4. ASSUME NEW n \in Good PROVE n + 1 \in Good
    <2>1. SUFFICES ASSUME n + 1 <= N + 1 PROVE Passed(f[n + 1], r, attrs, b, at, n + 1)
      OBVIOUS
    <2>2. n \in Nat /\ n \in 0..N /\ Passed(f[n], r, attrs, b, at, n)
      BY <1>1, <2>1
    <2>3. Passed(ReadAttribute(f[n]), r, attrs, b, at, n + 1)
      <3> DEFINE p == f[n]
      <3>1. Passed(p, r, attrs, b, at, n)
        BY <2>2
      <3> HIDE DEF p
      <3>2. Passed(ReadAttribute(p), r, attrs, b, at, n + 1)
        BY <2>2, <3>1, PassTakes, PassEnds
      <3>3. QED
        BY <3>2 DEF p
    <2>4. QED
      BY <1>2, <2>2, <2>3
  <1>5. Good = Nat
    <2>1. Good \in SUBSET Nat
      OBVIOUS
    <2> HIDE DEF Good
    <2>2. QED
      BY <1>3, <1>4, <2>1, CountUp
  <1>6. Passed(f[N + 1], r, attrs, b, at, N + 1)
    <2>1. N + 1 \in Nat /\ N + 1 <= N + 1
      BY <1>1
    <2>2. N + 1 \in Good
      <3> HIDE DEF Good
      <3>1. QED
        BY <1>5, <2>1
    <2>3. QED
      BY <2>1, <2>2
  <1> DEFINE q == f[N + 1]
  <1>7. Passed(q, r, attrs, b, at, N + 1) /\ ReadBody(r) = q
    BY <1>2, <1>6
  <1> HIDE DEF q
  <1>8. N + 1 > Len(attrs)
    BY <1>1
  <1>9. QED
    BY <1>7, <1>8 DEF Passed

(* The words of a message, as far as they are there.                        *)
Begins(new, data, m) == Len(new) = m /\ \A i \in 1..m : new[i] = data[i]

HasId(data, id) == \A i \in 1..8 : data[2 + i] = id[i]

(* The reader after the first m words.                                     *)
Kept(r, m, data, attrs, b, at) ==
    /\ r \in Readers
    /\ m <= Len(data) /\ Begins(r.stream.data, data, m)
    /\ m < 10 => r.state = "HeaderNotRead" /\ r.allowLegacy
    /\ m < Len(data) => r.attributes = <<>>
    /\ m >= 10 => r.msgLength = data[2] /\ r.transid = b.transid
    /\ m >= 10 /\ m < Len(data) => r.state = "HeaderValidated"
    /\ m = Len(data) => /\ r.state = "BodyValidated"
                        /\ Lists(r.attributes, attrs, b, at, Len(attrs))

LEMMA MessageIs ==
    ASSUME NEW data, NEW attrs, NEW b, NEW at, Message(data, attrs, b, at)
    PROVE  /\ data \in Seq(Nat) /\ Len(data) \in Nat /\ Len(data) >= 10
           /\ attrs \in Seq(Additions) /\ Len(attrs) \in Nat
           /\ data[1] < 16384 /\ data[2] = 2 * Len(data) - 20 /\ data[2] % 4 = 0
           /\ data[2] <= MAX_STUN_MESSAGE_SIZE
           /\ b.transid \in Seq(Nat) /\ Len(b.transid) = 8
           /\ HasId(data, b.transid)
           /\ Len(data) = 10 => Len(attrs) = 0
  <1>1. data \in Seq(Nat) /\ attrs \in Seq(Additions)
    BY DEF Message
  <1>2. Len(data) \in Nat /\ Len(attrs) \in Nat
    BY <1>1, LenProperties
  <1>3. Len(attrs) + 1 \in 1..(Len(attrs) + 1)
    BY <1>2
  <1>4. /\ LaidOut(data, attrs, b, at) /\ Len(data) >= 10 /\ data[2] = 2 * Len(data) - 20
        /\ data[1] < 16384 /\ data[2] <= MAX_STUN_MESSAGE_SIZE /\ b.transid \in TransactionIds
        /\ HasId(data, b.transid)
    BY DEF Message, HasId
  <1>5. Len(data) % 2 = 0
    BY <1>3, <1>4 DEF LaidOut
  <1>6. data[2] % 4 = 0
    <2> DEFINE n == Len(data)
    <2>1. n \in Nat /\ n >= 10 /\ n % 2 = 0
      BY <1>2, <1>4, <1>5
    <2> HIDE DEF n
    <2>2. (2 * n - 20) % 4 = 0
      BY <2>1
    <2>3. QED
      BY <1>4, <2>2 DEF n
  <1>7. b.transid \in Seq(Nat) /\ Len(b.transid) = 8
    <2>1. b.transid \in [1..8 -> Nat]
      BY <1>4, AddressAssumption
    <2>2. QED
      BY <2>1, FunctionIsSequence
  <1>8. Len(data) = 10 => Len(attrs) = 0
    <2>1. SUFFICES ASSUME Len(data) = 10, Len(attrs) # 0 PROVE FALSE
      OBVIOUS
    <2> DEFINE i == 1
    <2>2. i \in 1..Len(attrs)
      BY <1>2, <2>1
    <2>3. i = 1
      OBVIOUS
    <2> HIDE DEF i
    <2>4. at[i] \in Nat /\ at[i] >= 10 /\ at[i + 1] \in Nat /\ at[i] + 2 <= at[i + 1]
          /\ at[i + 1] <= Len(data)
      BY <2>2, PlaceIs
    <2>5. QED
      BY <2>1, <2>4
  <1>9. QED
    BY <1>1, <1>2, <1>4, <1>6, <1>7, <1>8

(* Sequences that agree up to a place, and the next words of one of them.  *)
LEMMA NextWords ==
    ASSUME NEW data \in Seq(Nat), NEW m \in Nat, NEW n \in Nat, n > 0, m + n <= Len(data),
           NEW old, Begins(old, data, m),
           NEW new, Joined(new, old, SubSeq(data, m + 1, m + n))
    PROVE  Begins(new, data, m + n)
  <1> DEFINE words == SubSeq(data, m + 1, m + n)
             from == m + 1
             to == m + n
  <1>1. from \in Nat /\ to \in Nat /\ 1 <= from /\ from <= to + 1 /\ to <= Len(data)
        /\ (to - from) + 1 = n
    OBVIOUS
  <1>2. words = SubSeq(data, from, to) /\ Joined(new, old, words)
    OBVIOUS
  <1> HIDE DEF words, to
  <1>3. Len(words) = n /\ \A j \in 1..n : words[j] = data[(from + j) - 1]
    <2> HIDE DEF from
    <2>1. /\ Len(words) = (to - from) + 1
          /\ \A i \in 1..((to - from) + 1) : words[i] = data[(from + i) - 1]
      BY <1>1, <1>2, PartIs
    <2>2. QED
      BY <1>1, <2>1
  <1>4. Len(new) = m + n /\ (\A i \in 1..m : new[i] = old[i])
        /\ \A j \in 1..n : new[m + j] = words[j]
    BY <1>2, <1>3 DEF Joined, Begins
  <1>5. ASSUME NEW i \in 1..(m + n) PROVE new[i] = data[i]
    <2>1. CASE i <= m
      BY <1>4, <2>1, SMTT(20) DEF Begins
    <2>2. CASE ~(i <= m)
      <3>1. i - m \in 1..n /\ m + (i - m) = i /\ (from + (i - m)) - 1 = i
        BY <2>2
      <3>2. new[m + (i - m)] = words[i - m] /\ words[i - m] = data[(from + (i - m)) - 1]
        BY <1>3, <1>4, <3>1
      <3>3. QED
        BY <3>1, <3>2
    <2>3. QED
      BY <2>1, <2>2
  <1>6. QED
    BY <1>4, <1>5 DEF Begins

LEMMA SameWords ==
    ASSUME NEW s \in Seq(Nat), NEW t \in Seq(Nat), Begins(s, t, Len(t))
    PROVE  s = t
  <1>1. Len(s) = Len(t) /\ \A i \in 1..Len(s) : s[i] = t[i]
    BY DEF Begins
  <1>2. QED
    BY <1>1, SeqEqual

(* The header, once it is there, is valid and gives length and id.         *)
LEMMA HeaderOfMessage ==
    ASSUME NEW data, NEW attrs, NEW b, NEW at, Message(data, attrs, b, at),
           NEW a \in Readers, a.allowLegacy, NEW m \in Nat, m >= 10, m <= Len(data),
           Begins(a.stream.data, data, m)
    PROVE  LET h == ReadHeader(a)
           IN  /\ h \in Readers /\ h.stream = a.stream /\ h.attributes = a.attributes
               /\ h.state = IF data[2] = 0 THEN "BodyValidated" ELSE "HeaderValidated"
               /\ h.msgLength = data[2] /\ h.transid = b.transid
  <1> DEFINE D == a.stream.data
             id == b.transid
             part == SubSeq(D, 3, 10)
  <1>1. /\ data[1] < 16384 /\ data[2] % 4 = 0 /\ data[2] <= MAX_STUN_MESSAGE_SIZE
        /\ id \in Seq(Nat) /\ Len(id) = 8
    BY MessageIs
  <1>2. HasId(data, id)
    BY MessageIs
  <1>3. Len(D) = m /\ \A i \in 1..m : D[i] = data[i]
    BY DEF Begins
  <1>4. D[1] = data[1] /\ D[2] = data[2] /\ D \in Seq(Nat)
    <2>1. 1 \in 1..m /\ 2 \in 1..m
      OBVIOUS
    <2>2. QED
      BY <1>3, <2>1, ReaderIs
  <1>5. ValidHeader(a)
    BY <1>1, <1>4 DEF ValidHeader
  <1>6. part = id
    <2> DEFINE from == 3
               to == 10
    <2>1. from \in Nat /\ to \in Nat /\ 1 <= from /\ from <= to + 1 /\ to <= Len(D)
          /\ (to - from) + 1 = 8 /\ from = 3 /\ part = SubSeq(D, from, to)
      BY <1>3
    <2> HIDE DEF from, to, part, D
    <2>2. /\ part \in Seq(Nat) /\ Len(part) = (to - from) + 1
          /\ \A i \in 1..((to - from) + 1) : part[i] = D[(from + i) - 1]
      BY <1>4, <2>1, PartIs, SMTT(20)
    <2>3. ASSUME NEW i \in 1..8 PROVE part[i] = id[i]
      <3>1. (from + i) - 1 = 2 + i /\ 2 + i \in 1..m
        BY <2>1
      <3>2. part[i] = D[2 + i]
        BY <2>1, <2>2, <3>1
      <3>3. D[2 + i] = data[2 + i]
        BY <1>3, <3>1
      <3>4. data[2 + i] = id[i]
        BY <1>2 DEF HasId
      <3>5. QED
        BY <3>2, <3>3, <3>4
    <2> HIDE DEF id
    <2>4. Begins(part, id, Len(id)) /\ part \in Seq(Nat) /\ id \in Seq(Nat)
      <3>1. Len(part) = Len(id)
        BY <1>1, <2>1, <2>2
      <3>2. \A i \in 1..Len(id) : part[i] = id[i]
        BY <1>1, <2>3, SMTT(20)
      <3>3. Begins(part, id, Len(id))
        BY <3>1, <3>2, Zenon DEF Begins
      <3>4. QED
        BY <1>1, <2>2, <3>3
    <2>5. QED
      BY <2>4, SameWords
  <1>7. Len(a.stream.data) >= 10
    BY <1>3
  <1>8. QED
    BY <1>4, <1>5, <1>6, <1>7, HeaderIs

LEMMA KeptAdvances ==
    ASSUME NEW data, NEW attrs, NEW b, NEW at, Message(data, attrs, b, at),
           NEW r, NEW m \in Nat, Kept(r, m, data, attrs, b, at),
           NEW n \in Nat, n > 0, m + n <= Len(data)
    PROVE  Kept(AddBytes(r, SubSeq(data, m + 1, m + n)), m + n, data, attrs, b, at)
  <1> DEFINE words == SubSeq(data, m + 1, m + n)
             k == m + n
             L == Len(data)
  <1>1. /\ data \in Seq(Nat) /\ L \in Nat /\ L >= 10 /\ k \in Nat /\ k <= L /\ m < L
        /\ data[2] = 2 * L - 20 /\ r \in Readers
        /\ L = 10 => Len(attrs) = 0
    BY MessageIs DEF Kept
  <1>2. words \in Seq(Nat) /\ words # <<>>
    <2> DEFINE from == m + 1
    <2>1. from \in Nat /\ 1 <= from /\ from <= k + 1 /\ k <= L /\ (k - from) + 1 = n
      BY <1>1
    <2>2. words = SubSeq(data, from, k)
      OBVIOUS
    <2> HIDE DEF words, from, k
    <2>3. words \in Seq(Nat) /\ Len(words) = n
      BY <1>1, <2>1, <2>2, PartIs
    <2>4. words # <<>>
      BY <2>3, EmptySeq
    <2>5. QED
      BY <2>3, <2>4
  <1>3. /\ r.state # "ParseError" /\ r.attributes = <<>>
        /\ Begins(r.stream.data, data, m)
        /\ m < 10 => r.state = "HeaderNotRead" /\ r.allowLegacy
        /\ ~(m < 10) => /\ r.state = "HeaderValidated" /\ r.msgLength = data[2]
                        /\ r.transid = b.transid
    <2>1. /\ m < 10 => r.state = "HeaderNotRead" /\ r.allowLegacy
          /\ m < L => r.attributes = <<>>
          /\ m >= 10 => r.msgLength = data[2] /\ r.transid = b.transid
          /\ m >= 10 /\ m < L => r.state = "HeaderValidated"
          /\ Begins(r.stream.data, data, m)
      BY DEF Kept
    <2> HIDE DEF L
    <2>2. m < 10 \/ m >= 10
      OBVIOUS
    <2>3. QED
      BY <1>1, <2>1, <2>2
  <1>4. PICK a \in Readers :
            /\ AddBytes(r, words) = Advance(a)
            /\ Joined(a.stream.data, r.stream.data, words)
            /\ a.state = r.state /\ a.attributes = r.attributes /\ a.msgLength = r.msgLength
            /\ a.transid = r.transid /\ a.allowLegacy = r.allowLegacy
    <2> HIDE DEF words
    <2>1. QED
      BY <1>1, <1>2, <1>3, BytesAppended
  <1>5. Begins(a.stream.data, data, k)
    <2> DEFINE old == r.stream.data
               new == a.stream.data
    <2>1. /\ Begins(old, data, m) /\ data \in Seq(Nat)
          /\ Joined(new, old, SubSeq(data, m + 1, m + n))
      BY <1>1, <1>3, <1>4
    <2> HIDE DEF old, new, words, k, L
    <2>2. Begins(new, data, m + n)
      BY <2>1, NextWords
    <2>3. QED
      BY <2>2 DEF new, k
  <1> DEFINE h == HeaderRead(a)
             q == Advance(a)
             size == GetSize(a.stream)
  <1>6. q = AddBytes(r, words)
    BY <1>4
  <1>7. size = 2 * k
    BY <1>5 DEF GetSize, Begins
  <1> SUFFICES Kept(q, k, data, attrs, b, at)
    BY <1>6
  <1> HIDE DEF words, k, L, size
  <1>8. CASE k < 10
    <2>1. a.state = "HeaderNotRead" /\ ~(size >= 20) /\ m < 10
      BY <1>1, <1>3, <1>4, <1>7, <1>8 DEF k
    <2>2. h = a
      BY <2>1 DEF HeaderRead, STUN_HEADER_SIZE, size
    <2>3. q = a
      BY <2>1, <2>2, AdvanceIs
    <2> HIDE DEF q, h
    <2>4. k # L /\ k < L /\ ~(k >= 10)
      BY <1>1, <1>8
    <2>5. a.attributes = <<>> /\ a.allowLegacy
      BY <1>3, <1>4, <2>1
    <2>6. QED
      BY <1>1, <1>5, <2>1, <2>3, <2>4, <2>5 DEF Kept, L
  <1>9. CASE k >= 10
    <2>1. /\ h \in Readers /\ h.stream = a.stream /\ h.attributes = <<>>
          /\ h.msgLength = data[2] /\ h.transid = b.transid
          /\ h.state = IF data[2] = 0 THEN "BodyValidated" ELSE "HeaderValidated"
      <3>1. CASE m < 10
        <4>1. a.state = "HeaderNotRead" /\ size >= 20 /\ a.allowLegacy /\ a.attributes = <<>>
          BY <1>1, <1>3, <1>4, <1>7, <1>9, <3>1
        <4>2. h = ReadHeader(a)
          BY <4>1 DEF HeaderRead, STUN_HEADER_SIZE, size
        <4> HIDE DEF h, q
        <4>3. k <= Len(data)
          BY <1>1 DEF L
        <4>4. QED
          BY <1>1, <1>5, <1>9, <4>1, <4>2, <4>3, HeaderOfMessage
      <3>2. CASE ~(m < 10)
        <4>1. a.state = "HeaderValidated" /\ a.msgLength = data[2] /\ a.transid = b.transid
              /\ a.attributes = <<>> /\ data[2] # 0
          <5>1. L > 10
            BY <1>1, <3>2
          <5>2. QED
            BY <1>1, <1>3, <1>4, <3>2, <5>1
        <4>2. h = a
          BY <4>1 DEF HeaderRead
        <4> HIDE DEF h, q
        <4>3. QED
          BY <4>1, <4>2
      <3>3. QED
        BY <3>1, <3>2
    <2>2. Whole(h) = 2 * L
      <3> HIDE DEF h, q
      <3>1. QED
        BY <1>1, <2>1 DEF Whole, STUN_HEADER_SIZE
    <2>3. ~(size > Whole(h)) /\ (size = Whole(h) <=> k = L)
      <3> HIDE DEF h, q
      <3>1. QED
        BY <1>1, <1>7, <2>2
    <2>4. CASE data[2] # 0 /\ k = L
      <3>1. q = ReadBody(h)
        <4>1. h.state = "HeaderValidated" /\ size = Whole(h) /\ ~(size > Whole(h))
          BY <2>1, <2>3, <2>4
        <4>2. QED
          BY <4>1, AdvanceIs DEF size
      <3> HIDE DEF h, q
      <3>2. h.stream.data = data
        <4> DEFINE D == a.stream.data
        <4>1. D \in Seq(Nat) /\ Begins(D, data, Len(data))
          BY <1>5, <2>4, ReaderIs DEF L
        <4> HIDE DEF D
        <4>2. D = data
          BY <1>1, <4>1, SameWords
        <4>3. QED
          BY <2>1, <4>2 DEF D
      <3>3. /\ SameMessage(q, h) /\ q.state = "BodyValidated"
            /\ Lists(q.attributes, attrs, b, at, Len(attrs))
        BY <2>1, <2>4, <3>1, <3>2, BodyListed
      <3>4. /\ q \in Readers /\ q.stream.data = data /\ q.msgLength = data[2]
            /\ q.transid = b.transid
        BY <2>1, <3>2, <3>3 DEF SameMessage
      <3>5. ~(k < 10) /\ ~(k < L)
        BY <1>1, <1>9, <2>4
      <3>6. k <= Len(data) /\ k = Len(data) /\ Begins(q.stream.data, data, k)
        BY <1>1, <1>5, <2>1, <2>4, <3>3 DEF L, SameMessage
      <3>7. QED
        BY <3>3, <3>4, <3>5, <3>6 DEF Kept, L
    <2>5. CASE data[2] # 0 /\ k # L
      <3>1. q = h
        BY <2>1, <2>3, <2>5, AdvanceIs DEF size
      <3> HIDE DEF h, q
      <3>2. ~(k < 10) /\ h.state = "HeaderValidated"
        BY <1>1, <1>9, <2>1, <2>5
      <3>3. QED
        BY <1>1, <1>5, <1>9, <2>1, <2>5, <3>1, <3>2 DEF Kept, L
    <2>6. CASE data[2] = 0
      <3>1. h.state = "BodyValidated"
        BY <2>1, <2>6
      <3>2. q = h
        BY <2>3, <3>1, AdvanceIs DEF size
      <3> HIDE DEF h, q
      <3>3. L = 10 /\ k = L /\ Len(attrs) = 0
        BY <1>1, <1>9, <2>6
      <3>4. Lists(h.attributes, attrs, b, at, 0)
        <4>1. <<>> \in Seq(Entries) /\ Len(<<>>) = 0
          OBVIOUS
        <4>2. QED
          BY <2>1, <4>1 DEF Lists
      <3>5. ~(k < 10) /\ ~(k < L)
        BY <1>1, <1>9, <3>3
      <3>6. QED
        BY <1>1, <1>5, <1>9, <2>1, <3>1, <3>2, <3>3, <3>4, <3>5 DEF Kept, L
    <2>7. QED
      BY <2>4, <2>5, <2>6
  <1>10. QED
    BY <1>1, <1>8, <1>9

(* -------- what was sent and not altered ------------------------------------ *)

(* Within the limits, what travels is a whole message.                     *)
LEMMA SentIsMessage ==
    ASSUME BuildInv, WireInv, wire # <<>>, ~altered, Sendable
    PROVE  \E at : Message(wire, added, builder, at)
  <1> DEFINE b == builder
             data == builder.stream.data
             c == FixLengthField(builder)
  <1>1. /\ Sound(b) /\ Headed(b) /\ Layout(b, added) /\ added \in Seq(Additions)
        /\ b.transid \in TransactionIds
    BY DEF BuildInv, Headed
  <1>2. Len(c.stream.data) = Len(data)
    BY <1>1, FixKeeps
  <1>3. Len(data) \in Nat /\ Len(data) >= 10 /\ b.legacy \in BOOLEAN /\ data \in Seq(Nat)
    BY <1>1, SoundIs DEF Streams
  <1>4. 2 * Len(data) <= MAX_STUN_MESSAGE_SIZE /\ GetSize(b.stream) <= MAX_STUN_MESSAGE_SIZE
    <2>1. GetSize(c.stream) <= MAX_STUN_MESSAGE_SIZE
      BY DEF Sendable, Built, GetResult
    <2> HIDE DEF c
    <2>2. QED
      BY <1>2, <1>3, <2>1 DEF GetSize
  <1>5. wire = data /\ wire[2] = 2 * Len(wire) - 20
    BY <1>4 DEF WireInv
  <1>6. Len(added) \in Nat /\ Len(added) <= MAX_NUM_ATTRIBUTES /\ DOMAIN added = 1..Len(added)
    BY <1>1, LenProperties DEF Sendable
  <1>7. ASSUME NEW i \in 1..Len(added)
        PROVE  /\ Aligned(added[i], b.legacy)
               /\ SizeOf(added[i], b.legacy, b.transid) <= MAX_STUN_ATTRIBUTE_SIZE
    <2>1. added[i] \in Additions
      BY <1>1, <1>7, ElementOfSeq
    <2>2. /\ added[i].kind = "unknown" => b.legacy \/ Len(added[i].value) % 2 = 0
          /\ added[i].kind = "padding" =>
                added[i].value + Padding(added[i].value) <= MAX_STUN_ATTRIBUTE_SIZE
      BY <1>6, <1>7 DEF Sendable
    <2> DEFINE a == added[i]
    <2> HIDE DEF a
    <2>3. CASE a.kind = "padding"
      <3>1. SizeOf(a, b.legacy, b.transid) = a.value + Padding(a.value)
        BY <2>3 DEF SizeOf
      <3>2. QED
        BY <2>2, <2>3, <3>1 DEF Aligned, a
    <2>4. CASE a.kind # "padding"
      <3>1. SizeOf(a, b.legacy, b.transid) <= MAX_STUN_ATTRIBUTE_SIZE
        BY <1>1, <1>3, <2>1, <2>4, AdditionSize DEF a
      <3>2. QED
        BY <2>2, <3>1 DEF Aligned, a
    <2>5. QED
      BY <2>3, <2>4
  <1>8. PICK at : LaidOut(data, added, b, at)
    BY <1>1, <1>7 DEF Layout
  <1>9. data[1] < 16384 /\ HasId(data, b.transid)
    BY <1>1 DEF Headed, HasId
  <1>10. data[2] <= MAX_STUN_MESSAGE_SIZE
    BY <1>3, <1>4, <1>5, ReaderAssumption
  <1>11. SizesFit(added, b)
    BY <1>7 DEF SizesFit
  <1> HIDE DEF data
  <1>12. Message(data, added, b, at)
    BY <1>1, <1>3, <1>5, <1>6, <1>8, <1>9, <1>10, <1>11 DEF Message, HasId
  <1>13. QED
    BY <1>5, <1>12

(* The reader has read what of the message it was given.                   *)
KeptInv ==
    /\ delivered = 0 => reader = NewReader(TRUE)
    /\ wire # <<>> /\ ~altered /\ Sendable =>
          \A at : Message(wire, added, builder, at) =>
                     Kept(reader, delivered, wire, added, builder, at)

LEMMA NewKept ==
    ASSUME NEW data, NEW attrs, NEW b, NEW at, Message(data, attrs, b, at)
    PROVE  Kept(NewReader(TRUE), 0, data, attrs, b, at)
  <1> DEFINE s == Attach(MAX_STUN_MESSAGE_SIZE)
             r == NewReader(TRUE)
             m == 0
  <1>1. s \in Streams /\ s.data = <<>> /\ Len(s.data) = 0
    BY ReaderAssumption DEF Attach, Streams
  <1>2. r = [state |-> "HeaderNotRead", stream |-> s, attributes |-> <<>>, msgLength |-> 0,
             msgClass |-> "Invalid", transid |-> <<>>, allowLegacy |-> TRUE]
    BY DEF NewReader
  <1> HIDE DEF s, r
  <1>3. /\ r \in Readers /\ r.state = "HeaderNotRead" /\ r.attributes = <<>> /\ r.stream = s
        /\ r.allowLegacy
    BY <1>1, <1>2 DEF Readers, ReaderStates, MessageClasses
  <1>4. Len(data) \in Nat /\ Len(data) >= 10
    BY MessageIs
  <1>5. m = 0
    OBVIOUS
  <1> HIDE DEF m
  <1>6. Begins(r.stream.data, data, m)
    BY <1>1, <1>3, <1>5 DEF Begins
  <1>7. m <= Len(data) /\ ~(m >= 10) /\ m # Len(data) /\ m < Len(data)
    BY <1>4, <1>5
  <1>8. Kept(r, m, data, attrs, b, at)
    BY <1>3, <1>6, <1>7 DEF Kept
  <1>9. QED
    BY <1>5, <1>8 DEF r

LEMMA KeptStart == Init => KeptInv
  BY DEF Init, KeptInv

LEMMA KeptAdd == KeptInv /\ Add => KeptInv'
  BY DEF KeptInv, Add

LEMMA KeptAlter == KeptInv /\ Alter => KeptInv'
  BY DEF KeptInv, Alter

LEMMA KeptSend == WireInv /\ KeptInv /\ Send => KeptInv'
  <1> SUFFICES ASSUME WireInv, KeptInv, Send PROVE KeptInv'
    OBVIOUS
  <1>1. delivered = 0 /\ reader = NewReader(TRUE) /\ delivered' = 0 /\ reader' = NewReader(TRUE)
    BY DEF Send, WireInv, KeptInv
  <1>2. ASSUME NEW at, Message(wire', added', builder', at)
        PROVE  Kept(reader', delivered', wire', added', builder', at)
    BY <1>1, <1>2, NewKept
  <1>3. QED
    BY <1>1, <1>2 DEF KeptInv

LEMMA SendableKept == UNCHANGED <<builder, added>> => (Sendable' <=> Sendable)
  BY DEF Sendable, Built, GetResult

LEMMA KeptDeliver ==
    WireInv /\ Covered(reader) /\ KeptInv /\ (DeliverDatagram \/ DeliverPiece) => KeptInv'
  <1> SUFFICES ASSUME WireInv, Covered(reader), KeptInv, DeliverDatagram \/ DeliverPiece
               PROVE  KeptInv'
    OBVIOUS
  <1>1. PICK n \in Nat : Deliver(n) /\ n > 0 /\ delivered + n <= Len(wire)
    BY DeliveryIs
  <1>2. /\ reader' = AddBytes(reader, SubSeq(wire, delivered + 1, delivered + n))
        /\ delivered' = delivered + n /\ wire' = wire /\ altered' = altered
        /\ builder' = builder /\ added' = added
    BY <1>1 DEF Deliver
  <1>3. delivered \in Nat
    BY DEF WireInv
  <1>4. ASSUME wire # <<>>, ~altered, Sendable, NEW at, Message(wire, added, builder, at)
        PROVE  Kept(reader', delivered', wire, added, builder, at)
    <2>1. Kept(reader, delivered, wire, added, builder, at)
      BY <1>4 DEF KeptInv
    <2>2. QED
      BY <1>1, <1>2, <1>3, <1>4, <2>1, KeptAdvances
  <1>5. Sendable' <=> Sendable
    BY <1>2, SendableKept
  <1>6. delivered' # 0
    BY <1>1, <1>2, <1>3
  <1>7. QED
    BY <1>2, <1>4, <1>5, <1>6 DEF KeptInv

LEMMA KeptInvHolds == Spec => []KeptInv
  <1>1. Init => KeptInv
    BY KeptStart
  <1>2. MessageInv /\ KeptInv /\ [Next]_vars => KeptInv'
    <2> SUFFICES ASSUME MessageInv, KeptInv, [Next]_vars PROVE KeptInv'
      OBVIOUS
    <2>1. WireInv /\ Covered(reader)
      BY DEF MessageInv
    <2>2. CASE Add
      BY <2>2, KeptAdd
    <2>3. CASE Send
      BY <2>1, <2>3, KeptSend
    <2>4. CASE Alter
      BY <2>4, KeptAlter
    <2>5. CASE DeliverDatagram \/ DeliverPiece
      BY <2>1, <2>5, KeptDeliver
    <2>6. CASE UNCHANGED vars
      <3>1. Sendable' <=> Sendable
        BY <2>6, SendableKept DEF vars
      <3>2. QED
        BY <2>6, <3>1 DEF KeptInv, vars
    <2>7. QED
      BY <2>2, <2>3, <2>4, <2>5, <2>6 DEF Next
  <1>3. QED
    BY <1>1, <1>2, MessageInvHolds, PTL DEF Spec

(* A reader in the middle of a message always asks for at least one byte,  *)
(* and for none beyond the message: HowManyBytesNeeded counts from the     *)
(* header size, then from the length the header promises.                  *)
THEOREM NeededTheorem == Spec => []NeededStaysInMessage
  <1>1. MessageInv /\ KeptInv => NeededStaysInMessage
    <2> SUFFICES ASSUME MessageInv, KeptInv, wire # <<>>, ~altered, Sendable
                 PROVE  /\ reader.state # "ParseError"
                        /\ reader.state # "BodyValidated" => HowManyBytesNeeded(reader) > 0
                        /\ 2 * delivered + HowManyBytesNeeded(reader) <= 2 * Len(wire)
      BY DEF NeededStaysInMessage
    <2>1. BuildInv /\ WireInv /\ delivered \in Nat
      BY DEF MessageInv, WireInv
    <2>2. PICK at : Message(wire, added, builder, at)
      BY <2>1, SentIsMessage
    <2>3. Kept(reader, delivered, wire, added, builder, at)
      BY <2>2 DEF KeptInv
    <2> DEFINE m == delivered
               L == Len(wire)
               length == wire[2]
               needed == HowManyBytesNeeded(reader)
               size == GetSize(reader.stream)
    <2>4. L \in Nat /\ L >= 10 /\ length = 2 * L - 20
      BY <2>2, MessageIs
    <2>5. /\ m <= L /\ size = 2 * m
          /\ m < 10 => reader.state = "HeaderNotRead"
          /\ m >= 10 => reader.msgLength = length
          /\ m >= 10 /\ m < L => reader.state = "HeaderValidated"
          /\ m = L => reader.state = "BodyValidated"
      BY <2>3 DEF Kept, Begins, GetSize
    <2>6. /\ reader.state = "HeaderNotRead" => needed = 20 - size
          /\ reader.state = "HeaderValidated" => needed = reader.msgLength + 20 - size
          /\ reader.state = "BodyValidated" => needed = 0
      BY DEF HowManyBytesNeeded, STUN_HEADER_SIZE
    <2> HIDE DEF m, L, length, needed, size
    <2>7. m \in Nat
      BY <2>1 DEF m
    <2>8. CASE m < 10
      <3>1. reader.state = "HeaderNotRead" /\ needed = 20 - 2 * m
        BY <2>5, <2>6, <2>8
      <3>2. needed > 0 /\ 2 * m + needed <= 2 * L
        BY <2>4, <2>7, <2>8, <3>1
      <3>3. QED
        BY <3>1, <3>2 DEF m, L, needed
    <2>9. CASE m >= 10 /\ m < L
      <3>1. reader.state = "HeaderValidated" /\ needed = length + 20 - 2 * m
        BY <2>5, <2>6, <2>9
      <3>2. needed > 0 /\ 2 * m + needed <= 2 * L
        BY <2>4, <2>7, <2>9, <3>1
      <3>3. QED
        BY <3>1, <3>2 DEF m, L, needed
    <2>10. CASE m = L
      <3>1. reader.state = "BodyValidated" /\ needed = 0
        BY <2>5, <2>6, <2>10
      <3>2. 2 * m + needed <= 2 * L
        BY <2>4, <2>7, <2>10, <3>1
      <3>3. QED
        BY <3>1, <3>2 DEF m, L, needed
    <2>11. QED
      BY <2>4, <2>5, <2>7, <2>8, <2>9, <2>10
  <1>2. QED
    BY <1>1, MessageInvHolds, KeptInvHolds, PTL

(* -------- what the getters find -------------------------------------------- *)

Kinds == {"mapped", "xor", "origin", "other", "change", "port", "error", "realm", "unknown",
          "padding", "integrity", "fingerprint"}

(* A reader that has listed the attributes of a whole message.             *)
Listed(r, data, attrs, b, at) ==
    /\ Message(data, attrs, b, at)
    /\ r \in Readers /\ r.stream.data = data /\ r.transid = b.transid
    /\ Lists(r.attributes, attrs, b, at, Len(attrs))

Newest(I) == CHOOSE i \in I : \A j \in I : j <= i

(* The newest value of a kind, ValuesOf for any sequence.                  *)
LatestOf(attrs, kind) ==
    LET I == {i \in DOMAIN attrs : attrs[i].kind = kind}
    IN  IF I = {} THEN {} ELSE {attrs[CHOOSE i \in I : \A j \in I : j <= i].value}

LEMMA NewestIs ==
    ASSUME NEW n \in Nat, NEW I \in SUBSET (1..n), I # {}
    PROVE  Newest(I) \in I /\ \A j \in I : j <= Newest(I)
  <1> DEFINE J == {n - i : i \in I}
  <1>1. J \in SUBSET Nat /\ J # {}
    <2>1. PICK i \in I : TRUE
      OBVIOUS
    <2>2. n - i \in J
      BY <2>1
    <2>3. ASSUME NEW x \in J PROVE x \in Nat
      <3>1. PICK j \in I : x = n - j
        BY <2>3
      <3>2. j \in 1..n
        OBVIOUS
      <3>3. QED
        BY <3>1, <3>2
    <2>4. QED
      BY <2>2, <2>3
  <1>2. PICK x \in J : \A y \in J : x <= y
    <2> HIDE DEF J
    <2>1. QED
      BY <1>1, FirstPlace
  <1>3. PICK i \in I : x = n - i
    BY <1>2
  <1>4. ASSUME NEW j \in I PROVE j <= i
    <2>1. n - j \in J
      OBVIOUS
    <2>2. x <= n - j
      BY <1>2, <2>1
    <2>3. i \in Nat /\ j \in Nat
      OBVIOUS
    <2>4. QED
      BY <1>3, <2>2, <2>3
  <1>5. \E k \in I : \A j \in I : j <= k
    BY <1>4
  <1>6. QED
    BY <1>5 DEF Newest

(* In one mode every kind has a type of its own.                           *)
LEMMA TypesDiffer ==
    ASSUME NEW k \in Kinds, NEW l \in Kinds, NEW legacy \in BOOLEAN,
           TypeOf(k, legacy) = TypeOf(l, legacy)
    PROVE  k = l
  BY DEF Kinds, TypeOf, STUN_ATTRIBUTE_MAPPEDADDRESS, STUN_ATTRIBUTE_CHANGEREQUEST,
         STUN_ATTRIBUTE_SOURCEADDRESS, STUN_ATTRIBUTE_CHANGEDADDRESS,
         STUN_ATTRIBUTE_MESSAGEINTEGRITY, STUN_ATTRIBUTE_ERRORCODE,
         STUN_ATTRIBUTE_UNKNOWNATTRIBUTES, STUN_ATTRIBUTE_REALM,
         STUN_ATTRIBUTE_XORMAPPEDADDRESS, STUN_ATTRIBUTE_PADDING,
         STUN_ATTRIBUTE_RESPONSE_PORT, STUN_ATTRIBUTE_XORMAPPEDADDRESS_OPTIONAL,
         STUN_ATTRIBUTE_FINGERPRINT, STUN_ATTRIBUTE_RESPONSE_ORIGIN,
         STUN_ATTRIBUTE_OTHER_ADDRESS

(* Types that the other mode alone uses.                                   *)
Foreign(legacy) ==
    IF legacy THEN {STUN_ATTRIBUTE_XORMAPPEDADDRESS, STUN_ATTRIBUTE_RESPONSE_ORIGIN,
                    STUN_ATTRIBUTE_OTHER_ADDRESS}
    ELSE {STUN_ATTRIBUTE_XORMAPPEDADDRESS_OPTIONAL, STUN_ATTRIBUTE_SOURCEADDRESS,
          STUN_ATTRIBUTE_CHANGEDADDRESS}

LEMMA ForeignTypes ==
    ASSUME NEW k \in Kinds, NEW legacy \in BOOLEAN
    PROVE  TypeOf(k, legacy) \notin Foreign(legacy)
  BY DEF Foreign, Kinds, TypeOf, STUN_ATTRIBUTE_MAPPEDADDRESS, STUN_ATTRIBUTE_CHANGEREQUEST,
         STUN_ATTRIBUTE_SOURCEADDRESS, STUN_ATTRIBUTE_CHANGEDADDRESS,
         STUN_ATTRIBUTE_MESSAGEINTEGRITY, STUN_ATTRIBUTE_ERRORCODE,
         STUN_ATTRIBUTE_UNKNOWNATTRIBUTES, STUN_ATTRIBUTE_REALM,
         STUN_ATTRIBUTE_XORMAPPEDADDRESS, STUN_ATTRIBUTE_PADDING,
         STUN_ATTRIBUTE_RESPONSE_PORT, STUN_ATTRIBUTE_XORMAPPEDADDRESS_OPTIONAL,
         STUN_ATTRIBUTE_FINGERPRINT, STUN_ATTRIBUTE_RESPONSE_ORIGIN,
         STUN_ATTRIBUTE_OTHER_ADDRESS

(* The list, entry by entry.                                               *)
LEMMA EntryIs ==
    ASSUME NEW r, NEW data, NEW attrs, NEW b, NEW at, Listed(r, data, attrs, b, at)
    PROVE  /\ DOMAIN r.attributes = 1..Len(attrs) /\ DOMAIN attrs = 1..Len(attrs)
           /\ Len(attrs) \in Nat /\ b.legacy \in BOOLEAN
           /\ \A i \in 1..Len(attrs) :
                 /\ r.attributes[i].type = TypeOf(attrs[i].kind, b.legacy)
                 /\ r.attributes[i].size = SizeOf(attrs[i], b.legacy, b.transid)
                 /\ r.attributes[i].offset = 2 * at[i] + 4
                 /\ attrs[i] \in Additions /\ attrs[i].kind \in Kinds
  <1> DEFINE n == Len(attrs)
             A == r.attributes
  <1>1. attrs \in Seq(Additions) /\ Lists(A, attrs, b, at, n) /\ b.legacy \in BOOLEAN
    BY DEF Listed, Message
  <1>2. n \in Nat /\ DOMAIN attrs = 1..n
    BY <1>1, LenProperties
  <1>3. A \in Seq(Entries) /\ Len(A) = n
    BY <1>1 DEF Lists
  <1>4. DOMAIN A = 1..n
    BY <1>3, LenProperties
  <1>5. ASSUME NEW i \in 1..n PROVE attrs[i] \in Additions /\ attrs[i].kind \in Kinds
    <2>1. attrs[i] \in Additions
      BY <1>1, ElementOfSeq
    <2>2. QED
      BY <2>1, AdditionIs DEF Kinds
  <1>6. QED
    BY <1>1, <1>2, <1>4, <1>5 DEF Lists

(* A lookup finds the attribute that holds the newest value of its kind.   *)
LEMMA Found ==
    ASSUME NEW r, NEW data, NEW attrs, NEW b, NEW at, Listed(r, data, attrs, b, at),
           NEW kind \in Kinds
    PROVE  \/ Lookup(r, TypeOf(kind, b.legacy)) = {} /\ LatestOf(attrs, kind) = {}
           \/ \E i \in 1..Len(attrs) :
                 /\ attrs[i].kind = kind
                 /\ Lookup(r, TypeOf(kind, b.legacy)) = {r.attributes[i]}
                 /\ LatestOf(attrs, kind) = {attrs[i].value}
  <1> DEFINE type == TypeOf(kind, b.legacy)
             n == Len(attrs)
             I == {i \in 1..n : attrs[i].kind = kind}
             A == r.attributes
  <1>1. /\ DOMAIN A = 1..n /\ DOMAIN attrs = 1..n /\ n \in Nat /\ b.legacy \in BOOLEAN
        /\ \A i \in 1..n : A[i].type = TypeOf(attrs[i].kind, b.legacy) /\ attrs[i].kind \in Kinds
    BY EntryIs
  <1>2. ASSUME NEW i \in 1..n PROVE A[i].type = type <=> attrs[i].kind = kind
    BY <1>1, TypesDiffer
  <1>3. Indexes(r, type) = I
    BY <1>1, <1>2 DEF Indexes
  <1>4. Lookup(r, type) = IF I = {} THEN {} ELSE {A[Newest(I)]}
    BY <1>3 DEF Lookup, Newest
  <1>5. LatestOf(attrs, kind) = IF I = {} THEN {} ELSE {attrs[Newest(I)].value}
    BY <1>1 DEF LatestOf, Newest
  <1>6. CASE I = {}
    BY <1>4, <1>5, <1>6
  <1>7. CASE I # {}
    <2>1. Newest(I) \in I
      BY <1>1, <1>7, NewestIs
    <2>2. PICK i \in 1..n : i = Newest(I) /\ attrs[i].kind = kind
      BY <2>1
    <2> HIDE DEF I
    <2>3. Lookup(r, type) = {A[i]} /\ LatestOf(attrs, kind) = {attrs[i].value}
      BY <1>4, <1>5, <1>7, <2>2
    <2>4. QED
      BY <2>2, <2>3
  <1>8. QED
    BY <1>6, <1>7

LEMMA NotFound ==
    ASSUME NEW r, NEW data, NEW attrs, NEW b, NEW at, Listed(r, data, attrs, b, at),
           NEW type, \A k \in Kinds : TypeOf(k, b.legacy) # type
    PROVE  Lookup(r, type) = {}
  <1>1. Indexes(r, type) = {}
    BY EntryIs DEF Indexes
  <1>2. QED
    BY <1>1 DEF Lookup

(* Where the value of an attribute lies in the message.                    *)
LEMMA ContentIs ==
    ASSUME NEW r, NEW data, NEW attrs, NEW b, NEW at, Listed(r, data, attrs, b, at),
           NEW i \in 1..Len(attrs)
    PROVE  LET value == ValueOf(attrs[i], b.legacy, b.transid)
               p == at[i]
           IN  /\ data \in Seq(Nat) /\ Len(data) \in Nat
               /\ p \in Nat /\ value \in Seq(Nat) /\ Len(value) \in Nat
               /\ p + 2 + Len(value) <= Len(data)
               /\ \A j \in 1..Len(value) : data[p + 2 + j] = value[j]
  <1> DEFINE a == attrs[i]
             value == ValueOf(a, b.legacy, b.transid)
             size == SizeOf(a, b.legacy, b.transid)
             p == at[i]
             q == at[i + 1]
             x == Extent(size)
             v == Len(value)
             L == Len(data)
  <1>1. Message(data, attrs, b, at) /\ data \in Seq(Nat) /\ L \in Nat
        /\ b.legacy \in BOOLEAN /\ b.transid \in TransactionIds
    BY LenProperties DEF Listed, Message
  <1>2. /\ a \in Additions /\ size \in Nat /\ p \in Nat /\ q \in Nat
        /\ 2 * q = 2 * p + 4 + size + Padding(size) /\ q <= L
        /\ IsAt(data, p, a, b)
    BY <1>1, PlaceIs
  <1>3. value \in Seq(Nat) /\ 2 + v <= x /\ size % 2 = 0
    BY <1>1, <1>2, ValueFits, AdditionSize
  <1>4. v \in Nat
    BY <1>3, LenProperties
  <1>5. \A j \in 1..v : data[p + 2 + j] = value[j]
    BY <1>2 DEF IsAt, Holds
  <1> HIDE DEF size, value, p, q, L
  <1>6. x \in Nat /\ 2 * x = 4 + size + Padding(size)
    BY <1>2, <1>3, ExtentOfEven
  <1>7. Padding(size) \in Nat
    <2>1. Padding(size) \in 0..3
      BY <1>2, PaddingCompletes
    <2>2. QED
      BY <2>1
  <1> HIDE DEF x, v
  <1>8. q = p + x
    BY <1>2, <1>6, <1>7
  <1>9. p + 2 + v <= L
    BY <1>1, <1>2, <1>3, <1>4, <1>6, <1>8
  <1>10. QED
    BY <1>1, <1>2, <1>3, <1>4, <1>5, <1>9 DEF p, value, v, L

(* The words of an attribute that the getters look at.                     *)
LEMMA WordsAre ==
    ASSUME NEW r, NEW data, NEW attrs, NEW b, NEW at, Listed(r, data, attrs, b, at),
           NEW i \in 1..Len(attrs)
    PROVE  LET value == ValueOf(attrs[i], b.legacy, b.transid)
               e == r.attributes[i]
           IN  /\ Len(value) >= 1 => WordAt(r, e, 0) = value[1]
               /\ Len(value) >= 2 => WordAt(r, e, 2) = value[2]
  <1> DEFINE value == ValueOf(attrs[i], b.legacy, b.transid)
             e == r.attributes[i]
             p == at[i]
             v == Len(value)
  <1>1. /\ p \in Nat /\ v \in Nat /\ \A j \in 1..v : data[p + 2 + j] = value[j]
    <2>1. /\ p \in Nat /\ value \in Seq(Nat) /\ v \in Nat
          /\ \A j \in 1..v : data[p + 2 + j] = value[j]
      BY ContentIs
    <2> HIDE DEF value, p, v
    <2>2. QED
      BY <2>1
  <1>2. e.offset = 2 * p + 4 /\ r.stream.data = data
    <2>1. e.offset = 2 * p + 4
      BY EntryIs
    <2>2. QED
      BY <2>1 DEF Listed
  <1> HIDE DEF value, p, v, e
  <1>3. (2 * p + 4 + 0) \div 2 + 1 = p + 3 /\ (2 * p + 4 + 2) \div 2 + 1 = p + 4
    BY <1>1
  <1>4. WordAt(r, e, 0) = data[p + 3] /\ WordAt(r, e, 2) = data[p + 4]
    BY <1>2, <1>3 DEF WordAt, Peek
  <1>5. v >= 1 => data[p + 3] = value[1]
    <2>1. v >= 1 => 1 \in 1..v
      BY <1>1
    <2>2. p + 2 + 1 = p + 3
      BY <1>1
    <2>3. QED
      BY <1>1, <2>1, <2>2
  <1>6. v >= 2 => data[p + 4] = value[2]
    <2>1. v >= 2 => 2 \in 1..v
      BY <1>1
    <2>2. p + 2 + 2 = p + 4
      BY <1>1
    <2>3. QED
      BY <1>1, <2>1, <2>2
  <1>7. QED
    BY <1>4, <1>5, <1>6 DEF value, v, e

(* A run of n words of the value, after the first k.                       *)
Run(r, e, k, n) == Bytes(r.stream, e.offset + 2 * k, e.offset + 2 * (k + n))

IsRun(words, value, k, n) ==
    /\ words \in Seq(Nat) /\ Len(words) = n
    /\ \A j \in 1..n : words[j] = value[k + j]

LEMMA BytesAre ==
    ASSUME NEW r, NEW data, NEW attrs, NEW b, NEW at, Listed(r, data, attrs, b, at),
           NEW i \in 1..Len(attrs), NEW k \in Nat, NEW n \in Nat,
           k + n <= Len(ValueOf(attrs[i], b.legacy, b.transid))
    PROVE  IsRun(Run(r, r.attributes[i], k, n), ValueOf(attrs[i], b.legacy, b.transid), k, n)
  <1> DEFINE value == ValueOf(attrs[i], b.legacy, b.transid)
             words == Run(r, r.attributes[i], k, n)
             from == r.attributes[i].offset + 2 * k
             to == r.attributes[i].offset + 2 * (k + n)
             p == at[i]
             v == Len(value)
             L == Len(data)
             first == p + 3 + k
             last == p + 2 + k + n
  <1>1. /\ p \in Nat /\ v \in Nat /\ L \in Nat /\ data \in Seq(Nat)
        /\ p + 2 + v <= L /\ k + n <= v
        /\ \A j \in 1..v : data[p + 2 + j] = value[j]
    BY ContentIs
  <1>2. r.attributes[i].offset = 2 * p + 4 /\ r.stream.data = data
    <2>1. r.attributes[i].offset = 2 * p + 4
      BY EntryIs
    <2>2. QED
      BY <2>1 DEF Listed
  <1> HIDE DEF value, p, v, L
  <1>3. from \div 2 + 1 = first /\ to \div 2 = last
    <2> DEFINE x == p + 2 + k
               y == p + 2 + k + n
    <2>1. x \in Nat /\ y \in Nat /\ from = 2 * x /\ to = 2 * y
      <3> DEFINE o == r.attributes[i].offset
      <3>1. o = 2 * p + 4 /\ from = o + 2 * k /\ to = o + 2 * (k + n)
        BY <1>2
      <3> HIDE DEF o
      <3>2. from = 2 * p + 4 + 2 * k /\ to = 2 * p + 4 + 2 * (k + n)
        BY <3>1
      <3>3. p \in Nat /\ x \in Nat /\ y \in Nat
        BY <1>1
      <3>4. 2 * x = 2 * p + 4 + 2 * k /\ 2 * y = 2 * p + 4 + 2 * (k + n)
        BY <3>3
      <3>5. QED
        BY <3>2, <3>3, <3>4
    <2>2. x + 1 = first /\ y = last
      BY <1>1
    <2> HIDE DEF x, y, first, last
    <2>3. from \div 2 = x /\ to \div 2 = y
      BY <2>1, Half
    <2>4. QED
      BY <2>2, <2>3
  <1>4. /\ first \in Nat /\ last \in Nat /\ 1 <= first /\ first <= last + 1 /\ last <= L
        /\ (last - first) + 1 = n
    BY <1>1
  <1>5. words = SubSeq(data, first, last)
    BY <1>2, <1>3 DEF Bytes, Run
  <1>6. ASSUME NEW j \in 1..n
        PROVE  (first + j) - 1 = p + 2 + (k + j) /\ k + j \in 1..v
    <2>1. (first + j) - 1 = p + 2 + (k + j)
      BY <1>1
    <2>2. k + j \in Nat /\ k + j >= 1 /\ k + j <= v
      BY <1>1
    <2>3. QED
      BY <1>1, <2>1, <2>2
  <1> HIDE DEF words, first, last
  <1>7. /\ words \in Seq(Nat) /\ Len(words) = n
        /\ \A j \in 1..n : words[j] = data[(first + j) - 1]
    <2>1. /\ words \in Seq(Nat) /\ Len(words) = (last - first) + 1
          /\ \A j \in 1..((last - first) + 1) : words[j] = data[(first + j) - 1]
      BY <1>1, <1>4, <1>5, PartIs, ZenonT(40) DEF L
    <2>2. QED
      BY <1>4, <2>1
  <1>8. ASSUME NEW j \in 1..n PROVE words[j] = value[k + j]
    <2>1. words[j] = data[(first + j) - 1]
      BY <1>7
    <2>2. (first + j) - 1 = p + 2 + (k + j) /\ k + j \in 1..v
      BY <1>6
    <2> DEFINE x == k + j
    <2> HIDE DEF x
    <2>3. x \in 1..v /\ words[j] = data[p + 2 + x]
      BY <2>1, <2>2 DEF x
    <2>4. QED
      BY <1>1, <2>3 DEF x
  <1>9. QED
    BY <1>7, <1>8 DEF value, words, IsRun

(* -------- addresses -------------------------------------------------------- *)

AddressKinds == {"mapped", "xor", "origin", "other"}

(* The address that stands in the attribute.                               *)
Written(kind, addr, transid) == IF kind = "xor" THEN ApplyStunXorMap(addr, transid) ELSE addr

LEMMA WrittenIs ==
    ASSUME NEW a \in Additions, a.kind \in AddressKinds, NEW legacy \in BOOLEAN,
           NEW transid \in TransactionIds
    PROVE  LET addr == Written(a.kind, a.value, transid)
           IN  /\ addr \in WellFormedAddress /\ a.value \in Addresses
               /\ SizeOf(a, legacy, transid) = AddressSize(addr)
               /\ ValueOf(a, legacy, transid) = AddressWords(addr)
  <1>1. a.value \in Addresses
    BY AdditionIs DEF AddressKinds
  <1>2. a.value \in WellFormedAddress /\ ApplyStunXorMap(a.value, transid) \in WellFormedAddress
    BY <1>1, AddressAssumption
  <1>3. QED
    BY <1>1, <1>2 DEF Written, SizeOf, ValueOf, AddressKinds

LEMMA SameAddress ==
    ASSUME NEW addr \in WellFormedAddress, NEW family, NEW port, NEW ip,
           family = addr.family, port = addr.port, ip = addr.ip
    PROVE  [family |-> family, port |-> port, ip |-> ip] = addr
  BY DEF WellFormedAddress

(* An attribute that holds an address is decoded to it.                    *)
LEMMA AddressRead ==
    ASSUME NEW r, NEW data, NEW attrs, NEW b, NEW at, Listed(r, data, attrs, b, at),
           NEW i \in 1..Len(attrs), attrs[i].kind \in AddressKinds
    PROVE  AddressIn(r, r.attributes[i]) = {Written(attrs[i].kind, attrs[i].value, b.transid)}
  <1> DEFINE a == attrs[i]
             e == r.attributes[i]
             addr == Written(a.kind, a.value, b.transid)
             value == ValueOf(a, b.legacy, b.transid)
             size == SizeOf(a, b.legacy, b.transid)
             long == AddressSize(addr)
             ipLength == IF e.size >= 4 /\ WordAt(r, e, 0) % 256 = IPv4 THEN 4 ELSE 16
             n == Len(addr.ip)
             from == e.offset + 4
             to == from + ipLength
             ip == Bytes(r.stream, from, to)
  <1>1. a \in Additions /\ b.legacy \in BOOLEAN /\ b.transid \in TransactionIds /\ e.size = size
    <2>1. a \in Additions /\ b.legacy \in BOOLEAN /\ e.size = size
      BY EntryIs
    <2>2. b.transid \in TransactionIds
      BY DEF Listed, Message
    <2>3. QED
      BY <2>1, <2>2
  <1>2. /\ addr \in WellFormedAddress /\ size = long /\ value = AddressWords(addr)
    BY <1>1, WrittenIs
  <1> HIDE DEF addr
  <1>3. /\ AddressWords(addr) \in Seq(Nat) /\ long \in {8, 20}
        /\ 2 * Len(AddressWords(addr)) = long
        /\ addr.ip \in Seq(Nat) /\ 2 * n = long - 4
        /\ addr.family = IF long = 8 THEN IPv4 ELSE IPv6
        /\ AddressWords(addr)[1] = addr.family /\ AddressWords(addr)[2] = addr.port
        /\ \A j \in 1..n : AddressWords(addr)[2 + j] = addr.ip[j]
    BY <1>2, AddressIs
  <1>4. n \in Nat /\ Len(value) = n + 2
    <2> DEFINE v == Len(value)
    <2>1. v \in Nat /\ n \in Nat /\ 2 * v = long
      BY <1>2, <1>3, LenProperties
    <2> HIDE DEF v, n, long
    <2>2. v = n + 2
      BY <1>3, <2>1
    <2>3. QED
      BY <2>1, <2>2 DEF v
  <1>5. WordAt(r, e, 0) = addr.family /\ WordAt(r, e, 2) = addr.port
    <2>1. /\ Len(value) >= 1 => WordAt(r, e, 0) = value[1]
          /\ Len(value) >= 2 => WordAt(r, e, 2) = value[2]
      BY WordsAre
    <2> HIDE DEF value, n, e
    <2>2. Len(value) >= 1 /\ Len(value) >= 2
      BY <1>4
    <2>3. QED
      BY <1>2, <1>3, <2>1, <2>2
  <1> HIDE DEF a, e, value, size, long, n
  <1>6. ipLength = long - 4 /\ ~(e.size < 4 + ipLength)
        /\ (IF ipLength = 4 THEN IPv4 ELSE IPv6) = addr.family
    <2>1. e.size = long /\ long \in {8, 20}
      BY <1>1, <1>2, <1>3
    <2>2. CASE long = 8
      <3>1. WordAt(r, e, 0) = 1
        BY <1>3, <1>5, <2>2 DEF IPv4
      <3>2. QED
        BY <1>3, <2>1, <2>2, <3>1 DEF IPv4
    <2>3. CASE long = 20
      <3>1. WordAt(r, e, 0) = 2
        BY <1>3, <1>5, <2>3 DEF IPv6
      <3>2. QED
        BY <1>3, <2>1, <2>3, <3>1 DEF IPv4
    <2>4. QED
      BY <2>1, <2>2, <2>3
  <1>7. ip = addr.ip
    <2> DEFINE k == 2
    <2>1. k = 2 /\ k \in Nat
      OBVIOUS
    <2> HIDE DEF k
    <2>2. k + n <= Len(ValueOf(attrs[i], b.legacy, b.transid))
      BY <1>4, <2>1 DEF value, a
    <2>3. from = r.attributes[i].offset + 2 * k
          /\ to = r.attributes[i].offset + 2 * (k + n)
      <3> DEFINE o == e.offset
      <3>1. o \in Nat
        <4> DEFINE p == at[i]
        <4>1. p \in Nat
          BY ContentIs
        <4>2. o = 2 * p + 4
          BY EntryIs DEF e
        <4> HIDE DEF o, p
        <4>3. QED
          BY <4>1, <4>2
      <3>2. from = o + 4 /\ to = o + 4 + 2 * n
        BY <1>3, <1>6, <3>1
      <3> HIDE DEF o, from, to
      <3>3. from = o + 2 * k /\ to = o + 2 * (k + n)
        BY <1>4, <2>1, <3>1, <3>2
      <3>4. QED
        BY <3>3 DEF o, e
    <2>4. ip = Run(r, r.attributes[i], k, n)
      BY <2>3 DEF Run
    <2> HIDE DEF ip, from, to
    <2>5. IsRun(ip, ValueOf(attrs[i], b.legacy, b.transid), k, n)
      BY <1>4, <2>1, <2>2, <2>4, BytesAre
    <2>6. /\ ip \in Seq(Nat) /\ Len(ip) = n
          /\ \A j \in 1..n : ip[j] = ValueOf(attrs[i], b.legacy, b.transid)[k + j]
      BY <2>5 DEF IsRun
    <2>7. ASSUME NEW j \in 1..n PROVE ip[j] = addr.ip[j]
      <3>1. ip[j] = value[2 + j]
        BY <2>1, <2>6 DEF value, a
      <3>2. QED
        BY <1>2, <1>3, <3>1
    <2>8. Begins(ip, addr.ip, Len(addr.ip))
      BY <2>6, <2>7 DEF Begins, n
    <2>9. QED
      BY <1>3, <2>6, <2>8, SameWords
  <1>8. AddressIn(r, e) = {addr}
    <2>1. AddressIn(r, e) = {[family |-> IF ipLength = 4 THEN IPv4 ELSE IPv6,
                              port |-> WordAt(r, e, 2), ip |-> ip]}
      BY <1>6 DEF AddressIn
    <2> HIDE DEF ip, ipLength
    <2>2. QED
      BY <1>2, <1>5, <1>6, <1>7, <2>1, SameAddress
  <1>9. QED
    BY <1>8 DEF addr, e, a

LEMMA AddressFound ==
    ASSUME NEW r, NEW data, NEW attrs, NEW b, NEW at, Listed(r, data, attrs, b, at),
           NEW kind \in AddressKinds
    PROVE  GetAddressHelper(r, TypeOf(kind, b.legacy))
              = {Written(kind, addr, b.transid) : addr \in LatestOf(attrs, kind)}
  <1>1. kind \in Kinds
    BY DEF Kinds, AddressKinds
  <1> DEFINE type == TypeOf(kind, b.legacy)
  <1> HIDE DEF type
  <1>2. CASE Lookup(r, type) = {} /\ LatestOf(attrs, kind) = {}
    BY <1>2 DEF GetAddressHelper, type
  <1>3. CASE \E i \in 1..Len(attrs) : /\ attrs[i].kind = kind
                                      /\ Lookup(r, type) = {r.attributes[i]}
                                      /\ LatestOf(attrs, kind) = {attrs[i].value}
    <2>1. PICK i \in 1..Len(attrs) : /\ attrs[i].kind = kind
                                     /\ Lookup(r, type) = {r.attributes[i]}
                                     /\ LatestOf(attrs, kind) = {attrs[i].value}
      BY <1>3
    <2>2. AddressIn(r, r.attributes[i]) = {Written(kind, attrs[i].value, b.transid)}
      BY <2>1, AddressRead
    <2>3. GetAddressHelper(r, type) = AddressIn(r, r.attributes[i])
      BY <2>1 DEF GetAddressHelper
    <2>4. QED
      BY <2>1, <2>2, <2>3 DEF type
  <1>4. QED
    BY <1>1, <1>2, <1>3, Found, SMTT(20) DEF type

(* One of the two types is that of the message's mode.                     *)
LEMMA FallbackFound ==
    ASSUME NEW r, NEW data, NEW attrs, NEW b, NEW at, Listed(r, data, attrs, b, at),
           NEW kind \in AddressKinds, NEW new, NEW old,
           \/ old = TypeOf(kind, b.legacy) /\ new \in Foreign(b.legacy)
           \/ new = TypeOf(kind, b.legacy) /\ old \in Foreign(b.legacy)
    PROVE  WithFallback(GetAddressHelper(r, new), GetAddressHelper(r, old))
              = {Written(kind, addr, b.transid) : addr \in LatestOf(attrs, kind)}
  <1> DEFINE legacy == b.legacy
             written == {Written(kind, addr, b.transid) : addr \in LatestOf(attrs, kind)}
  <1>1. legacy \in BOOLEAN
    BY EntryIs
  <1>2. GetAddressHelper(r, TypeOf(kind, legacy)) = written
    BY AddressFound
  <1>3. ASSUME NEW type \in Foreign(legacy) PROVE GetAddressHelper(r, type) = {}
    <2>1. \A k \in Kinds : TypeOf(k, legacy) # type
      <3> HIDE DEF legacy
      <3>1. QED
        BY <1>1, ForeignTypes
    <2>2. Lookup(r, type) = {}
      BY <2>1, NotFound
    <2>3. QED
      BY <2>2 DEF GetAddressHelper
  <1> SUFFICES WithFallback(GetAddressHelper(r, new), GetAddressHelper(r, old)) = written
    OBVIOUS
  <1> HIDE DEF written
  <1>4. CASE old = TypeOf(kind, legacy) /\ new \in Foreign(legacy)
    BY <1>2, <1>3, <1>4 DEF WithFallback
  <1>5. CASE new = TypeOf(kind, legacy) /\ old \in Foreign(legacy)
    BY <1>2, <1>3, <1>5 DEF WithFallback
  <1>6. QED
    BY <1>4, <1>5

(* What is found of a kind was added.                                      *)
LEMMA LatestIs ==
    ASSUME NEW r, NEW data, NEW attrs, NEW b, NEW at, Listed(r, data, attrs, b, at),
           NEW kind \in Kinds, NEW value \in LatestOf(attrs, kind)
    PROVE  \E a \in Additions : a.kind = kind /\ a.value = value
  BY Found, EntryIs

LEMMA AddressesFound ==
    ASSUME NEW r, NEW data, NEW attrs, NEW b, NEW at, Listed(r, data, attrs, b, at)
    PROVE  /\ GetMappedAddress(r) = LatestOf(attrs, "mapped")
           /\ GetResponseOriginAddress(r) = LatestOf(attrs, "origin")
           /\ GetOtherAddress(r) = LatestOf(attrs, "other")
           /\ GetXorMappedAddress(r) = LatestOf(attrs, "xor")
  <1>1. b.legacy \in BOOLEAN
    BY EntryIs
  <1>2. ASSUME NEW kind, kind # "xor", NEW S PROVE {Written(kind, addr, b.transid) : addr \in S} = S
    BY <1>2 DEF Written
  <1>3. GetMappedAddress(r) = LatestOf(attrs, "mapped")
    <2> DEFINE kind == "mapped"
    <2>1. TypeOf(kind, b.legacy) = STUN_ATTRIBUTE_MAPPEDADDRESS /\ kind \in AddressKinds
          /\ kind # "xor"
      BY DEF TypeOf, AddressKinds
    <2> HIDE DEF kind
    <2> DEFINE S == LatestOf(attrs, kind)
               T == GetAddressHelper(r, STUN_ATTRIBUTE_MAPPEDADDRESS)
    <2>2. T = {Written(kind, addr, b.transid) : addr \in S}
      BY <2>1, AddressFound
    <2> HIDE DEF S, T
    <2>3. T = S
      BY <1>2, <2>1, <2>2
    <2>4. QED
      BY <2>3 DEF S, T, GetMappedAddress, kind
  <1>4. GetResponseOriginAddress(r) = LatestOf(attrs, "origin")
    <2> DEFINE kind == "origin"
               new == STUN_ATTRIBUTE_RESPONSE_ORIGIN
               old == STUN_ATTRIBUTE_SOURCEADDRESS
    <2>1. \/ old = TypeOf(kind, b.legacy) /\ new \in Foreign(b.legacy)
          \/ new = TypeOf(kind, b.legacy) /\ old \in Foreign(b.legacy)
      BY DEF TypeOf, Foreign
    <2>2. kind \in AddressKinds /\ kind # "xor"
      BY DEF AddressKinds
    <2> HIDE DEF kind, new, old
    <2> DEFINE S == LatestOf(attrs, kind)
               T == WithFallback(GetAddressHelper(r, new), GetAddressHelper(r, old))
    <2>3. T = {Written(kind, addr, b.transid) : addr \in S}
      BY <2>1, <2>2, FallbackFound
    <2> HIDE DEF S, T
    <2>4. T = S
      BY <1>2, <2>2, <2>3
    <2>5. QED
      BY <2>4 DEF S, T, GetResponseOriginAddress, kind, new, old
  <1>5. GetOtherAddress(r) = LatestOf(attrs, "other")
    <2> DEFINE kind == "other"
               new == STUN_ATTRIBUTE_OTHER_ADDRESS
               old == STUN_ATTRIBUTE_CHANGEDADDRESS
    <2>1. \/ old = TypeOf(kind, b.legacy) /\ new \in Foreign(b.legacy)
          \/ new = TypeOf(kind, b.legacy) /\ old \in Foreign(b.legacy)
      BY DEF TypeOf, Foreign
    <2>2. kind \in AddressKinds /\ kind # "xor"
      BY DEF AddressKinds
    <2> HIDE DEF kind, new, old
    <2> DEFINE S == LatestOf(attrs, kind)
               T == WithFallback(GetAddressHelper(r, new), GetAddressHelper(r, old))
    <2>3. T = {Written(kind, addr, b.transid) : addr \in S}
      BY <2>1, <2>2, FallbackFound
    <2> HIDE DEF S, T
    <2>4. T = S
      BY <1>2, <2>2, <2>3
    <2>5. QED
      BY <2>4 DEF S, T, GetOtherAddress, kind, new, old
  <1>6. GetXorMappedAddress(r) = LatestOf(attrs, "xor")
    <2> DEFINE kind == "xor"
               new == STUN_ATTRIBUTE_XORMAPPEDADDRESS
               old == STUN_ATTRIBUTE_XORMAPPEDADDRESS_OPTIONAL
               S == LatestOf(attrs, kind)
               T == WithFallback(GetAddressHelper(r, new), GetAddressHelper(r, old))
               id == b.transid
    <2>1. \/ old = TypeOf(kind, b.legacy) /\ new \in Foreign(b.legacy)
          \/ new = TypeOf(kind, b.legacy) /\ old \in Foreign(b.legacy)
      BY DEF TypeOf, Foreign
    <2>2. kind \in AddressKinds /\ kind \in Kinds /\ kind = "xor"
      BY DEF AddressKinds, Kinds
    <2> HIDE DEF kind, new, old
    <2>3. T = {Written(kind, addr, id) : addr \in S}
      BY <2>1, <2>2, FallbackFound
    <2>4. GetXorMappedAddress(r) = {ApplyStunXorMap(addr, id) : addr \in T}
      BY DEF GetXorMappedAddress, new, old, Listed
    <2>5. ASSUME NEW addr \in S
          PROVE  /\ Written(kind, addr, id) = ApplyStunXorMap(addr, id)
                 /\ ApplyStunXorMap(ApplyStunXorMap(addr, id), id) = addr
      <3>1. PICK a \in Additions : a.kind = kind /\ a.value = addr
        BY <2>2, LatestIs
      <3>2. addr \in Addresses
        BY <2>2, <3>1, AdditionIs
      <3>3. id \in TransactionIds
        BY DEF Listed, Message
      <3>4. QED
        BY <2>2, <3>2, <3>3, AddressAssumption DEF Written
    <2> HIDE DEF S, T, id
    <2>6. {ApplyStunXorMap(addr, id) : addr \in T} = S
      BY <2>3, <2>5
    <2>7. QED
      BY <2>4, <2>6 DEF S, kind
  <1>7. QED
    BY <1>3, <1>4, <1>5, <1>6

(* -------- the other values ------------------------------------------------- *)

(* The first words of a padded value.                                      *)
LEMMA PaddedWords ==
    ASSUME NEW r, NEW data, NEW attrs, NEW b, NEW at, Listed(r, data, attrs, b, at),
           NEW i \in 1..Len(attrs), NEW words \in Seq(Nat),
           ValueOf(attrs[i], b.legacy, b.transid) = Padded(words)
    PROVE  /\ Len(words) >= 1 => WordAt(r, r.attributes[i], 0) = words[1]
           /\ Len(words) >= 2 => WordAt(r, r.attributes[i], 2) = words[2]
  <1> DEFINE value == ValueOf(attrs[i], b.legacy, b.transid)
             e == r.attributes[i]
             n == Len(words)
             v == Len(value)
  <1>1. /\ v >= 1 => WordAt(r, e, 0) = value[1]
        /\ v >= 2 => WordAt(r, e, 2) = value[2]
    BY WordsAre
  <1>2. b.legacy \in BOOLEAN
    BY EntryIs
  <1>3. /\ value \in Seq(Nat) /\ Padding(2 * n) \in {0, 2}
        /\ 2 * v = 2 * n + Padding(2 * n)
        /\ \A j \in 1..n : value[j] = words[j]
    BY <1>2, PaddedIs
  <1>4. n \in Nat /\ v \in Nat
    BY <1>3, LenProperties
  <1> HIDE DEF value, e, n, v
  <1>5. v >= n
    BY <1>3, <1>4
  <1>6. n >= 1 => 1 \in 1..n /\ v >= 1
    BY <1>4, <1>5
  <1>7. n >= 2 => 2 \in 1..n /\ v >= 2
    BY <1>4, <1>5
  <1>8. QED
    BY <1>1, <1>3, <1>6, <1>7 DEF n, e

LEMMA TwoFlags ==
    ASSUME NEW ip \in BOOLEAN, NEW port \in BOOLEAN
    PROVE  LET w == (IF ip THEN 4 ELSE 0) + (IF port THEN 2 ELSE 0)
           IN  ((w \div 4) % 2 = 1) = ip /\ ((w \div 2) % 2 = 1) = port
  OBVIOUS

LEMMA Hundreds ==
    ASSUME NEW n \in 300..600
    PROVE  LET w == ((n \div 100) * 256) + (n % 100)
           IN  (((w \div 256) % 8) * 100) + (w % 256) = n
  <1> DEFINE q == n \div 100
             t == n % 100
  <1>1. q \in 3..6 /\ t \in 0..99 /\ n = 100 * q + t
    OBVIOUS
  <1> HIDE DEF q, t
  <1> DEFINE w == (q * 256) + t
  <1>2. w \div 256 = q /\ w % 256 = t
    BY <1>1
  <1>3. q % 8 = q
    BY <1>1
  <1> HIDE DEF w
  <1>4. (((w \div 256) % 8) * 100) + (w % 256) = n
    BY <1>1, <1>2, <1>3
  <1>5. QED
    BY <1>4 DEF w, q, t

LEMMA ChangeFound ==
    ASSUME NEW r, NEW data, NEW attrs, NEW b, NEW at, Listed(r, data, attrs, b, at)
    PROVE  GetChangeRequest(r) = LatestOf(attrs, "change")
  <1> DEFINE kind == "change"
             type == TypeOf(kind, b.legacy)
  <1>1. kind \in Kinds /\ type = STUN_ATTRIBUTE_CHANGEREQUEST
    BY DEF Kinds, TypeOf
  <1>2. GetChangeRequest(r) =
            {[fChangeIP |-> (WordAt(r, a, 2) \div 4) % 2 = 1,
              fChangePort |-> (WordAt(r, a, 2) \div 2) % 2 = 1] :
                a \in {e \in Lookup(r, type) : e.size = 4}}
    BY <1>1 DEF GetChangeRequest
  <1>3. CASE Lookup(r, type) = {} /\ LatestOf(attrs, kind) = {}
    BY <1>2, <1>3
  <1>4. ASSUME NEW i \in 1..Len(attrs), attrs[i].kind = kind,
               Lookup(r, type) = {r.attributes[i]}, LatestOf(attrs, kind) = {attrs[i].value}
        PROVE  GetChangeRequest(r) = LatestOf(attrs, kind)
    <2> DEFINE a == attrs[i]
               e == r.attributes[i]
               change == a.value
               words == ChangeWords(change)
               w == WordAt(r, e, 2)
    <2>1. a \in Additions /\ b.legacy \in BOOLEAN /\ e.size = SizeOf(a, b.legacy, b.transid)
      BY EntryIs
    <2>2. change \in [fChangeIP : BOOLEAN, fChangePort : BOOLEAN]
      BY <1>4, <2>1, ValueIs
    <2>3. words \in Seq(Nat) /\ Len(words) = 2
      BY <2>2, ChangeIs
    <2>4. e.size = 4
      <3>1. e.size = SizeWritten(b.legacy, words)
        BY <1>4, <2>1 DEF SizeOf
      <3> HIDE DEF words, e
      <3>2. SizeWritten(b.legacy, words) = 4
        BY <2>3 DEF SizeWritten, Padding
      <3>3. QED
        BY <3>1, <3>2
    <2>5. ValueOf(attrs[i], b.legacy, b.transid) = Padded(words)
      BY <1>4 DEF ValueOf
    <2>6. words[2] = (IF change.fChangeIP THEN 4 ELSE 0) + (IF change.fChangePort THEN 2 ELSE 0)
      BY DEF ChangeWords
    <2>7. w = words[2]
      <3> HIDE DEF words
      <3>1. Len(words) >= 2 => WordAt(r, r.attributes[i], 2) = words[2]
        BY <2>3, <2>5, PaddedWords
      <3>2. QED
        BY <2>3, <3>1
    <2> HIDE DEF w, words
    <2>8. ((w \div 4) % 2 = 1) = change.fChangeIP /\ ((w \div 2) % 2 = 1) = change.fChangePort
      <3> DEFINE ip == change.fChangeIP
                 port == change.fChangePort
      <3>1. ip \in BOOLEAN /\ port \in BOOLEAN
        BY <2>2
      <3>2. w = (IF ip THEN 4 ELSE 0) + (IF port THEN 2 ELSE 0)
        BY <2>6, <2>7
      <3> HIDE DEF ip, port
      <3>3. ((w \div 4) % 2 = 1) = ip /\ ((w \div 2) % 2 = 1) = port
        BY <3>1, <3>2, TwoFlags
      <3>4. QED
        BY <3>3 DEF ip, port
    <2>9. [fChangeIP |-> (w \div 4) % 2 = 1, fChangePort |-> (w \div 2) % 2 = 1] = change
      BY <2>2, <2>8
    <2>10. GetChangeRequest(r) = {[fChangeIP |-> (w \div 4) % 2 = 1,
                                   fChangePort |-> (w \div 2) % 2 = 1]}
      BY <1>2, <1>4, <2>4 DEF w
    <2>11. QED
      BY <1>4, <2>9, <2>10
  <1>5. \/ Lookup(r, type) = {} /\ LatestOf(attrs, kind) = {}
        \/ \E i \in 1..Len(attrs) : /\ attrs[i].kind = kind
                                    /\ Lookup(r, type) = {r.attributes[i]}
                                    /\ LatestOf(attrs, kind) = {attrs[i].value}
    <2>1. kind \in Kinds
      BY <1>1
    <2> HIDE DEF kind
    <2>2. QED
      BY <2>1, Found
  <1>6. QED
    BY <1>3, <1>4, <1>5

(* RESPONSE-PORT, in a message that is not legacy.                         *)
LEMMA PortFound ==
    ASSUME NEW r, NEW data, NEW attrs, NEW b, NEW at, Listed(r, data, attrs, b, at)
    PROVE  ~b.legacy => GetResponsePort(r) = LatestOf(attrs, "port")
  <1> DEFINE kind == "port"
             type == TypeOf(kind, b.legacy)
  <1>1. kind \in Kinds /\ type = STUN_ATTRIBUTE_RESPONSE_PORT
    BY DEF Kinds, TypeOf
  <1>2. GetResponsePort(r) = {WordAt(r, a, 0) : a \in {e \in Lookup(r, type) : e.size = 2}}
    BY <1>1 DEF GetResponsePort
  <1>3. CASE Lookup(r, type) = {} /\ LatestOf(attrs, kind) = {}
    BY <1>2, <1>3
  <1>4. ASSUME NEW i \in 1..Len(attrs), attrs[i].kind = kind,
               Lookup(r, type) = {r.attributes[i]}, LatestOf(attrs, kind) = {attrs[i].value},
               ~b.legacy
        PROVE  GetResponsePort(r) = LatestOf(attrs, kind)
    <2> DEFINE a == attrs[i]
               e == r.attributes[i]
               port == a.value
               words == <<port>>
    <2>1. a \in Additions /\ b.legacy \in BOOLEAN /\ e.size = SizeOf(a, b.legacy, b.transid)
      BY EntryIs
    <2>2. port \in Nat
      BY <1>4, <2>1, ValueIs
    <2>3. words \in Seq(Nat) /\ Len(words) = 1 /\ words[1] = port
      BY <2>2
    <2>4. e.size = 2
      <3>1. e.size = SizeWritten(b.legacy, words)
        BY <1>4, <2>1 DEF SizeOf
      <3> HIDE DEF words, e
      <3>2. SizeWritten(b.legacy, words) = 2
        BY <1>4, <2>3 DEF SizeWritten
      <3>3. QED
        BY <3>1, <3>2
    <2>5. ValueOf(attrs[i], b.legacy, b.transid) = Padded(words)
      BY <1>4 DEF ValueOf
    <2>6. WordAt(r, e, 0) = port
      <3> HIDE DEF words
      <3>1. Len(words) >= 1 => WordAt(r, r.attributes[i], 0) = words[1]
        BY <2>3, <2>5, PaddedWords
      <3>2. QED
        BY <2>3, <3>1
    <2>7. QED
      BY <1>2, <1>4, <2>4, <2>6
  <1>5. \/ Lookup(r, type) = {} /\ LatestOf(attrs, kind) = {}
        \/ \E i \in 1..Len(attrs) : /\ attrs[i].kind = kind
                                    /\ Lookup(r, type) = {r.attributes[i]}
                                    /\ LatestOf(attrs, kind) = {attrs[i].value}
    <2>1. kind \in Kinds
      BY <1>1
    <2> HIDE DEF kind
    <2>2. QED
      BY <2>1, Found
  <1>6. QED
    BY <1>3, <1>4, <1>5

LEMMA ErrorFound ==
    ASSUME NEW r, NEW data, NEW attrs, NEW b, NEW at, Listed(r, data, attrs, b, at)
    PROVE  GetErrorCode(r) = LatestOf(attrs, "error")
  <1> DEFINE kind == "error"
             type == TypeOf(kind, b.legacy)
  <1>1. kind \in Kinds /\ type = STUN_ATTRIBUTE_ERRORCODE
    BY DEF Kinds, TypeOf
  <1>2. GetErrorCode(r) =
            {(((WordAt(r, a, 2) \div 256) % 8) * 100) + (WordAt(r, a, 2) % 256) :
                a \in Lookup(r, type)}
    BY <1>1 DEF GetErrorCode
  <1>3. CASE Lookup(r, type) = {} /\ LatestOf(attrs, kind) = {}
    BY <1>2, <1>3
  <1>4. ASSUME NEW i \in 1..Len(attrs), attrs[i].kind = kind,
               Lookup(r, type) = {r.attributes[i]}, LatestOf(attrs, kind) = {attrs[i].value}
        PROVE  GetErrorCode(r) = LatestOf(attrs, kind)
    <2> DEFINE a == attrs[i]
               e == r.attributes[i]
               number == a.value
               words == ErrorWords(number)
               w == WordAt(r, e, 2)
    <2>1. a \in Additions
      BY EntryIs
    <2>2. number \in 300..600
      BY <1>4, <2>1, ValueIs
    <2>3. /\ words \in Seq(Nat) /\ Len(words) = 5
          /\ words[2] = ((number \div 100) * 256) + (number % 100)
      BY <2>2, ErrorIs, ZenonT(40)
    <2>4. ValueOf(attrs[i], b.legacy, b.transid) = Padded(words)
      BY <1>4 DEF ValueOf
    <2>5. w = words[2]
      <3> HIDE DEF words
      <3>1. Len(words) >= 2 => WordAt(r, r.attributes[i], 2) = words[2]
        BY <2>3, <2>4, PaddedWords
      <3>2. QED
        BY <2>3, <3>1
    <2> HIDE DEF w, words
    <2>6. (((w \div 256) % 8) * 100) + (w % 256) = number
      <3> DEFINE x == ((number \div 100) * 256) + (number % 100)
      <3> HIDE DEF number
      <3>1. (((x \div 256) % 8) * 100) + (x % 256) = number
        BY <2>2, Hundreds
      <3>2. w = x
        BY <2>3, <2>5
      <3> HIDE DEF x
      <3>3. QED
        BY <3>1, <3>2
    <2>7. GetErrorCode(r) = {(((w \div 256) % 8) * 100) + (w % 256)}
      BY <1>2, <1>4 DEF w
    <2>8. QED
      BY <1>4, <2>6, <2>7
  <1>5. \/ Lookup(r, type) = {} /\ LatestOf(attrs, kind) = {}
        \/ \E i \in 1..Len(attrs) : /\ attrs[i].kind = kind
                                    /\ Lookup(r, type) = {r.attributes[i]}
                                    /\ LatestOf(attrs, kind) = {attrs[i].value}
    <2>1. kind \in Kinds
      BY <1>1
    <2> HIDE DEF kind
    <2>2. QED
      BY <2>1, Found
  <1>6. QED
    BY <1>3, <1>4, <1>5

LEMMA PaddingFound ==
    ASSUME NEW r, NEW data, NEW attrs, NEW b, NEW at, Listed(r, data, attrs, b, at)
    PROVE  GetPaddingAttributeSize(r) = {n + Padding(n) : n \in LatestOf(attrs, "padding")}
  <1> DEFINE kind == "padding"
             type == TypeOf(kind, b.legacy)
  <1>1. kind \in Kinds /\ type = STUN_ATTRIBUTE_PADDING
    BY DEF Kinds, TypeOf
  <1>2. GetPaddingAttributeSize(r) = {a.size : a \in Lookup(r, type)}
    BY <1>1 DEF GetPaddingAttributeSize
  <1>3. CASE Lookup(r, type) = {} /\ LatestOf(attrs, kind) = {}
    BY <1>2, <1>3
  <1>4. ASSUME NEW i \in 1..Len(attrs), attrs[i].kind = kind,
               Lookup(r, type) = {r.attributes[i]}, LatestOf(attrs, kind) = {attrs[i].value}
        PROVE  GetPaddingAttributeSize(r) = {n + Padding(n) : n \in LatestOf(attrs, kind)}
    <2>1. r.attributes[i].size = SizeOf(attrs[i], b.legacy, b.transid)
      BY EntryIs
    <2>2. r.attributes[i].size = attrs[i].value + Padding(attrs[i].value)
      BY <1>4, <2>1 DEF SizeOf
    <2>3. QED
      BY <1>2, <1>4, <2>2
  <1>5. \/ Lookup(r, type) = {} /\ LatestOf(attrs, kind) = {}
        \/ \E i \in 1..Len(attrs) : /\ attrs[i].kind = kind
                                    /\ Lookup(r, type) = {r.attributes[i]}
                                    /\ LatestOf(attrs, kind) = {attrs[i].value}
    <2>1. kind \in Kinds
      BY <1>1
    <2> HIDE DEF kind
    <2>2. QED
      BY <2>1, Found
  <1>6. QED
    BY <1>3, <1>4, <1>5

(* A string ends where its padding begins.                                 *)
LEMMA TerminatedIs ==
    ASSUME NEW str \in Seq(Nat), NEW n \in Nat, n = Len(str), \A j \in 1..n : str[j] # 0,
           NEW words \in Seq(Nat), NEW s \in Nat, s = Len(words), s = n \/ s = n + 1,
           \A j \in 1..n : words[j] = str[j], s = n + 1 => words[n + 1] = 0
    PROVE  Terminated(words) = str
  <1> DEFINE zeros == {i \in DOMAIN words : words[i] = 0}
  <1>1. DOMAIN words = 1..s
    OBVIOUS
  <1>2. CASE s = n
    <2>1. zeros = {}
      BY <1>1, <1>2
    <2>2. words = str
      <3>1. Begins(words, str, Len(str))
        BY <1>2 DEF Begins
      <3>2. QED
        BY <3>1, SameWords
    <2>3. QED
      BY <2>1, <2>2 DEF Terminated
  <1>3. CASE s = n + 1
    <2> DEFINE end == n + 1
               first == 1
               part == SubSeq(words, first, n)
    <2>1. zeros = {end}
      <3>1. ASSUME NEW i \in 1..s PROVE words[i] = 0 <=> i = end
        <4>1. CASE i \in 1..n
          BY <4>1
        <4>2. CASE i = n + 1
          BY <1>3, <4>2
        <4>3. QED
          BY <1>3, <4>1, <4>2
      <3>2. end \in 1..s
        BY <1>3
      <3>3. QED
        BY <1>1, <3>1, <3>2
    <2>2. end \in Nat /\ end - 1 = n /\ first = 1 /\ first \in Nat /\ first <= n + 1 /\ n <= s
          /\ (n - first) + 1 = n
      BY <1>3
    <2>3. Min({end}) = end
      BY <2>2 DEF Min
    <2>4. Terminated(words) = part
      <3> HIDE DEF end
      <3>1. zeros # {} /\ Min(zeros) - 1 = n
        BY <2>1, <2>2, <2>3
      <3>2. Terminated(words) = SubSeq(words, 1, Min(zeros) - 1)
        BY <3>1 DEF Terminated
      <3>3. QED
        BY <3>1, <3>2
    <2> HIDE DEF part, first, end, zeros
    <2>5. /\ part \in Seq(Nat) /\ Len(part) = (n - first) + 1
          /\ \A j \in 1..((n - first) + 1) : part[j] = words[(first + j) - 1]
      BY <2>2, PartIs DEF part
    <2>6. ASSUME NEW j \in 1..n PROVE part[j] = str[j]
      <3>1. (first + j) - 1 = j
        BY <2>2
      <3>2. part[j] = words[j]
        BY <2>2, <2>5, <3>1
      <3>3. QED
        BY <3>2
    <2>7. Begins(part, str, Len(str))
      BY <2>2, <2>5, <2>6 DEF Begins
    <2>8. part = str
      BY <2>5, <2>7, SameWords
    <2>9. QED
      BY <2>4, <2>8
  <1>4. QED
    BY <1>2, <1>3

LEMMA RealmRead ==
    ASSUME NEW r, NEW data, NEW attrs, NEW b, NEW at, Listed(r, data, attrs, b, at),
           NEW i \in 1..Len(attrs), attrs[i].kind = "realm"
    PROVE  /\ r.attributes[i].size < 65
           /\ Terminated(Value(r, r.attributes[i])) = attrs[i].value
  <1> DEFINE a == attrs[i]
             e == r.attributes[i]
             realm == a.value
             n == Len(realm)
             pad == Padding(2 * n)
             value == ValueOf(a, b.legacy, b.transid)
             v == Len(value)
             s == IF b.legacy THEN v ELSE n
             k == 0
             words == Run(r, e, k, s)
  <1>1. a \in Additions /\ b.legacy \in BOOLEAN /\ e.size = SizeOf(a, b.legacy, b.transid)
    BY EntryIs
  <1>2. realm \in Seq(Nat \ {0}) /\ n \in 1..31
    <2>1. a.kind = "realm"
      OBVIOUS
    <2> HIDE DEF a
    <2>2. a.value \in Realms
      BY <1>1, <2>1, AdditionIs
    <2> HIDE DEF n
    <2>3. realm \in Realms
      BY <2>2
    <2> HIDE DEF realm
    <2>4. QED
      BY <2>3, ValueAssumption DEF n
  <1>3. realm \in Seq(Nat) /\ \A j \in 1..n : realm[j] # 0
    <2> HIDE DEF realm
    <2>1. realm \in Seq(Nat)
      BY <1>2, SeqMonotonic
    <2>2. QED
      BY <1>2, <2>1
  <1>4. value = Padded(realm) /\ e.size = SizeWritten(b.legacy, realm)
    BY <1>1 DEF ValueOf, SizeOf
  <1>5. /\ value \in Seq(Nat) /\ pad \in {0, 2} /\ 2 * v = 2 * n + pad
        /\ \A j \in 1..n : value[j] = realm[j]
        /\ \A j \in (n + 1)..v : value[j] = 0
        /\ v \in Nat
    <2> HIDE DEF value, realm
    <2>1. QED
      BY <1>1, <1>3, <1>4, PaddedIs, LenProperties
  <1>6. e.size = IF b.legacy THEN 2 * n + pad ELSE 2 * n
    BY <1>4 DEF SizeWritten
  <1> HIDE DEF realm, e, a, pad, n, v, value
  <1>7. v = n \/ v = n + 1
    BY <1>2, <1>5
  <1>8. s \in Nat /\ s <= v /\ e.size = 2 * s /\ (s = n \/ s = n + 1) /\ (s = n + 1 => s = v)
    <2>1. CASE b.legacy
      BY <1>2, <1>5, <1>6, <1>7, <2>1
    <2>2. CASE ~b.legacy
      BY <1>2, <1>5, <1>6, <1>7, <2>2
    <2>3. QED
      BY <2>1, <2>2
  <1> HIDE DEF s
  <1>9. e.size < 65
    BY <1>2, <1>8
  <1>10. k = 0 /\ k \in Nat
    OBVIOUS
  <1> HIDE DEF k
  <1>11. IsRun(words, value, k, s)
    <2>1. k + s <= Len(ValueOf(attrs[i], b.legacy, b.transid))
      BY <1>8, <1>10 DEF v, value, a
    <2>2. IsRun(Run(r, r.attributes[i], k, s), ValueOf(attrs[i], b.legacy, b.transid), k, s)
      BY <1>8, <1>10, <2>1, BytesAre
    <2>3. QED
      BY <2>2 DEF value, a, e
  <1>12. Value(r, e) = words
    <2> DEFINE o == e.offset
    <2>1. o \in Nat
      <3> DEFINE p == at[i]
      <3>1. p \in Nat
        BY ContentIs
      <3>2. o = 2 * p + 4
        BY EntryIs DEF e
      <3> HIDE DEF o, p
      <3>3. QED
        BY <3>1, <3>2
    <2>2. o + 2 * k = o /\ o + 2 * (k + s) = o + e.size
      <3> HIDE DEF o
      <3>1. QED
        BY <1>8, <1>10, <2>1
    <2>3. QED
      BY <2>2 DEF Value, Run
  <1> HIDE DEF words
  <1>13. /\ words \in Seq(Nat) /\ Len(words) = s
         /\ \A j \in 1..s : words[j] = value[j]
    BY <1>10, <1>11 DEF IsRun
  <1>14. \A j \in 1..n : words[j] = realm[j]
    <2>1. ASSUME NEW j \in 1..n PROVE words[j] = realm[j]
      <3>1. j \in 1..s
        BY <1>2, <1>8
      <3>2. words[j] = value[j] /\ value[j] = realm[j]
        BY <1>5, <1>13, <3>1
      <3>3. QED
        BY <3>2
    <2>2. QED
      BY <2>1
  <1>15. s = n + 1 => words[n + 1] = 0
    BY <1>2, <1>5, <1>8, <1>13
  <1>16. n \in Nat /\ n = Len(realm)
    BY <1>2 DEF n
  <1>17. Terminated(words) = realm
    BY <1>3, <1>8, <1>13, <1>14, <1>15, <1>16, TerminatedIs
  <1>18. QED
    BY <1>9, <1>12, <1>17 DEF e, realm, a

LEMMA RealmFound ==
    ASSUME NEW r, NEW data, NEW attrs, NEW b, NEW at, Listed(r, data, attrs, b, at)
    PROVE  GetStringAttributeByType(r, STUN_ATTRIBUTE_REALM, 65) = LatestOf(attrs, "realm")
  <1> DEFINE kind == "realm"
             type == TypeOf(kind, b.legacy)
             found == GetStringAttributeByType(r, STUN_ATTRIBUTE_REALM, 65)
  <1>1. kind \in Kinds /\ type = STUN_ATTRIBUTE_REALM
    BY DEF Kinds, TypeOf
  <1>2. found = {Terminated(Value(r, a)) : a \in {e \in Lookup(r, type) : e.size < 65}}
    BY <1>1 DEF GetStringAttributeByType
  <1>3. CASE Lookup(r, type) = {} /\ LatestOf(attrs, kind) = {}
    BY <1>2, <1>3
  <1>4. ASSUME NEW i \in 1..Len(attrs), attrs[i].kind = kind,
               Lookup(r, type) = {r.attributes[i]}, LatestOf(attrs, kind) = {attrs[i].value}
        PROVE  found = LatestOf(attrs, kind)
    <2>1. /\ r.attributes[i].size < 65
          /\ Terminated(Value(r, r.attributes[i])) = attrs[i].value
      BY <1>4, RealmRead
    <2> HIDE DEF found, type
    <2>2. QED
      BY <1>2, <1>4, <2>1
  <1>5. \/ Lookup(r, type) = {} /\ LatestOf(attrs, kind) = {}
        \/ \E i \in 1..Len(attrs) : /\ attrs[i].kind = kind
                                    /\ Lookup(r, type) = {r.attributes[i]}
                                    /\ LatestOf(attrs, kind) = {attrs[i].value}
    <2>1. kind \in Kinds
      BY <1>1
    <2> HIDE DEF kind
    <2>2. QED
      BY <2>1, Found
  <1>6. QED
    BY <1>3, <1>4, <1>5

(* -------- what the seals tell ---------------------------------------------- *)

(* The newest of a kind is looked up.                                      *)
LEMMA LastFound ==
    ASSUME NEW r, NEW data, NEW attrs, NEW b, NEW at, Listed(r, data, attrs, b, at),
           NEW i \in 1..Len(attrs), \A j \in 1..Len(attrs) : j > i => attrs[j].kind # attrs[i].kind
    PROVE  Lookup(r, TypeOf(attrs[i].kind, b.legacy)) = {r.attributes[i]}
  <1> DEFINE kind == attrs[i].kind
             type == TypeOf(kind, b.legacy)
             n == Len(attrs)
             I == {j \in 1..n : attrs[j].kind = kind}
             A == r.attributes
  <1>1. /\ DOMAIN A = 1..n /\ n \in Nat /\ b.legacy \in BOOLEAN
        /\ \A j \in 1..n : A[j].type = TypeOf(attrs[j].kind, b.legacy) /\ attrs[j].kind \in Kinds
    BY EntryIs
  <1>2. ASSUME NEW j \in 1..n PROVE A[j].type = type <=> attrs[j].kind = kind
    BY <1>1, TypesDiffer
  <1>3. Indexes(r, type) = I
    BY <1>1, <1>2 DEF Indexes
  <1>4. i \in I
    OBVIOUS
  <1>5. Lookup(r, type) = {A[Newest(I)]}
    BY <1>3, <1>4 DEF Lookup, Newest
  <1>6. Newest(I) \in I /\ i <= Newest(I)
    BY <1>1, <1>4, NewestIs
  <1>7. ASSUME NEW k \in I, i <= k PROVE k = i
    <2>1. k \in Nat /\ i \in Nat /\ ~(k > i)
      BY <1>1
    <2>2. QED
      BY <1>7, <2>1
  <1> HIDE DEF I
  <1>8. Newest(I) = i
    BY <1>6, <1>7
  <1>9. QED
    BY <1>5, <1>8

(* Where a seal is, and what it holds.                                     *)
LEMMA SealIs ==
    ASSUME NEW r, NEW data, NEW attrs, NEW b, NEW at, Listed(r, data, attrs, b, at),
           NEW i \in 1..Len(attrs)
    PROVE  /\ at[i] \in Nat /\ at[i] >= 10 /\ at[i + 1] \in Nat /\ at[i + 1] <= Len(data)
           /\ r.attributes[i].offset = 2 * at[i] + 4
           /\ attrs[i].kind = "integrity" =>
                 /\ r.attributes[i].size = 20 /\ at[i + 1] = at[i] + 12
                 /\ SealAt(data, at[i], 10, attrs[i].value)
           /\ attrs[i].kind = "fingerprint" =>
                 /\ r.attributes[i].size = 4 /\ at[i + 1] = at[i] + 4
                 /\ SealAt(data, at[i], 2, 0)
  <1> DEFINE a == attrs[i]
             size == SizeOf(a, b.legacy, b.transid)
             p == at[i]
             q == at[i + 1]
  <1>1. Message(data, attrs, b, at)
    BY DEF Listed
  <1>2. /\ p \in Nat /\ p >= 10 /\ q \in Nat /\ q <= Len(data)
        /\ 2 * q = 2 * p + 4 + size + Padding(size) /\ IsAt(data, p, a, b)
    BY <1>1, PlaceIs
  <1>3. r.attributes[i].size = size /\ r.attributes[i].offset = 2 * p + 4
    BY EntryIs
  <1>4. a.kind = "integrity" => size = 20 /\ SealAt(data, p, 10, a.value)
    BY <1>2 DEF SizeOf, IsAt, Sealed
  <1>5. a.kind = "fingerprint" => size = 4 /\ SealAt(data, p, 2, 0)
    BY <1>2 DEF SizeOf, IsAt, Sealed
  <1>6. Padding(20) = 0 /\ Padding(4) = 0
    BY DEF Padding
  <1> HIDE DEF a, size, p, q
  <1>7. (size = 20 => q = p + 12) /\ (size = 4 => q = p + 4)
    BY <1>2, <1>6
  <1>8. QED
    BY <1>2, <1>3, <1>4, <1>5, <1>7 DEF a, p, q

(* The bytes of a message up to a place.                                   *)
LEMMA FirstBytes ==
    ASSUME NEW r, NEW p \in Nat
    PROVE  Bytes(r.stream, 0, 2 * p) = SubSeq(r.stream.data, 1, p)
  <1>1. (0 \div 2) + 1 = 1 /\ (2 * p) \div 2 = p
    OBVIOUS
  <1>2. QED
    BY <1>1 DEF Bytes

LEMMA PlaceOfWord ==
    ASSUME NEW p \in Nat
    PROVE  /\ (2 * p + 4) \div 2 + 1 = p + 3 /\ (2 * p + 6) \div 2 + 1 = p + 4
           /\ (2 * p + 24) \div 2 = p + 12
  OBVIOUS

LEMMA LastIs ==
    ASSUME NEW r, NEW data, NEW attrs, NEW b, NEW at, Listed(r, data, attrs, b, at)
    PROVE  /\ Len(r.attributes) = Len(attrs) /\ Last(r.attributes) = r.attributes[Len(attrs)]
           /\ at[Len(attrs) + 1] = Len(data)
           /\ r.stream.data = data /\ data \in Seq(Nat) /\ Len(data) \in Nat
           /\ data[2] = 2 * Len(data) - 20
  <1>1. Message(data, attrs, b, at) /\ Lists(r.attributes, attrs, b, at, Len(attrs))
        /\ r.stream.data = data
    BY DEF Listed
  <1>2. Len(r.attributes) = Len(attrs)
    BY <1>1 DEF Lists
  <1>3. LaidOut(data, attrs, b, at)
    BY <1>1 DEF Message
  <1>4. at[Len(attrs) + 1] = Len(data)
    BY <1>3 DEF LaidOut
  <1>5. data \in Seq(Nat) /\ Len(data) \in Nat /\ data[2] = 2 * Len(data) - 20
    BY <1>1, MessageIs
  <1>6. QED
    BY <1>1, <1>2, <1>4, <1>5 DEF Last

(* An integrity attribute a reader has listed, at its place.               *)
IntegrityAt(r, e, data, p, key) ==
    /\ data \in Seq(Nat) /\ r.stream.data = data
    /\ p \in Nat /\ p >= 10 /\ p + 12 <= Len(data)
    /\ e.offset = 2 * p + 4 /\ e.size = 20
    /\ key \in Nat /\ SealAt(data, p, 10, key)

(* The value of an integrity attribute, as a reader compares it.           *)
LEMMA SealRead ==
    ASSUME NEW r, NEW e, NEW data, NEW p, NEW key, IntegrityAt(r, e, data, p, key)
    PROVE  Value(r, e) = <<Checksum(key, Signed(data, p, 10))>> \o Zeros(18)
  <1> DEFINE sum == Checksum(key, Signed(data, p, 10))
  <1>1. /\ data \in Seq(Nat) /\ r.stream.data = data /\ Len(data) \in Nat
        /\ p \in Nat /\ p >= 10 /\ p + 12 <= Len(data)
        /\ e.offset = 2 * p + 4 /\ e.size = 20
        /\ key \in Nat /\ SealAt(data, p, 10, key)
    BY LenProperties DEF IntegrityAt
  <1>2. sum \in Nat
    <2>1. p <= Len(data)
      BY <1>1
    <2> DEFINE w == 10
    <2>2. w \in Nat
      OBVIOUS
    <2> HIDE DEF w
    <2>3. Signed(data, p, w) \in Seq(Nat)
      BY <1>1, <2>1, <2>2, SignedIs
    <2>4. QED
      BY <1>1, <2>3, ChecksumIsWord DEF w
  <1>3. data[p + 3] = sum /\ \A j \in 2..10 : data[p + 2 + j] = 0
    BY <1>1 DEF SealAt
  <1> HIDE DEF sum
  <1> DEFINE words == SubSeq(data, p + 3, p + 12)
             one == <<sum>>
             zeros == Zeros(18)
             all == one \o zeros
             from == p + 3
             to == p + 12
  <1>4. Value(r, e) = words
    <2>1. (2 * p + 4) \div 2 + 1 = p + 3 /\ (2 * p + 24) \div 2 = p + 12
          /\ (2 * p + 4) + 20 = 2 * p + 24
      BY <1>1, PlaceOfWord
    <2>2. e.offset + e.size = 2 * p + 24
      BY <1>1, <2>1
    <2>3. QED
      BY <1>1, <2>1, <2>2 DEF Value, Bytes
  <1>5. zeros \in Seq(Nat) /\ Len(zeros) = 9 /\ \A j \in 1..9 : zeros[j] = 0
    <2> DEFINE size == 18
    <2>1. size \in Nat /\ size \div 2 = 9
      OBVIOUS
    <2> HIDE DEF size
    <2>2. /\ Zeros(size) \in Seq(Nat) /\ Len(Zeros(size)) = size \div 2
          /\ \A j \in 1..(size \div 2) : Zeros(size)[j] = 0
      BY <2>1, ZerosAre
    <2>3. zeros = Zeros(size)
      BY DEF size
    <2> HIDE DEF zeros
    <2>4. QED
      BY <2>1, <2>2, <2>3
  <1>6. one \in Seq(Nat) /\ Len(one) = 1 /\ one[1] = sum
    BY <1>2
  <1>7. from \in Nat /\ to \in Nat /\ 1 <= from /\ from <= to + 1 /\ to <= Len(data)
        /\ (to - from) + 1 = 10 /\ \A j \in 1..10 : (from + j) - 1 = p + 2 + j
    BY <1>1
  <1>8. words = SubSeq(data, from, to)
    OBVIOUS
  <1> HIDE DEF words, one, zeros, from, to
  <1>9. all \in Seq(Nat) /\ Joined(all, one, zeros)
    BY <1>5, <1>6, JoinedIs
  <1> HIDE DEF all
  <1>10. Len(all) = 10 /\ all[1] = sum /\ \A j \in 1..9 : all[1 + j] = 0
    BY <1>5, <1>6, <1>9 DEF Joined
  <1>11. /\ words \in Seq(Nat) /\ Len(words) = (to - from) + 1
         /\ \A j \in 1..((to - from) + 1) : words[j] = data[(from + j) - 1]
    <2>1. from \in Nat /\ to \in Nat /\ 1 <= from /\ from <= to + 1 /\ to <= Len(data)
      BY <1>7
    <2> DEFINE part == SubSeq(data, from, to)
    <2>2. /\ part \in Seq(Nat) /\ Len(part) = (to - from) + 1
          /\ \A j \in 1..((to - from) + 1) : part[j] = data[(from + j) - 1]
      BY <1>1, <2>1, PartIs
    <2> HIDE DEF part
    <2>3. words = part
      BY <1>8 DEF part
    <2>4. QED
      BY <2>2, <2>3
  <1>12. Len(words) = 10 /\ \A j \in 1..10 : words[j] = data[p + 2 + j]
    BY <1>7, <1>11
  <1>13. ASSUME NEW j \in 1..10 PROVE words[j] = all[j]
    <2>1. CASE j = 1
      <3>1. words[1] = data[p + 2 + 1] /\ p + 2 + 1 = p + 3
        BY <1>1, <1>12
      <3>2. QED
        BY <1>3, <1>10, <2>1, <3>1
    <2>2. CASE j # 1
      <3>1. j \in 2..10 /\ j - 1 \in 1..9 /\ 1 + (j - 1) = j
        BY <2>2
      <3>2. all[j] = 0
        BY <1>10, <3>1
      <3>3. words[j] = 0
        BY <1>3, <1>12, <3>1
      <3>4. QED
        BY <3>2, <3>3
    <2>3. QED
      BY <2>1, <2>2
  <1>14. words = all
    BY <1>9, <1>10, <1>11, <1>12, <1>13, SeqEqual
  <1>15. QED
    BY <1>4, <1>14 DEF all, one, zeros, sum

(* Integrity in its place validates under its key.                         *)
LEMMA IntegrityRead ==
    ASSUME NEW r, NEW data, NEW attrs, NEW b, NEW at, Listed(r, data, attrs, b, at),
           r.state = "BodyValidated", NEW i \in 1..Len(attrs), attrs[i].kind = "integrity",
           i # Len(attrs) => i + 1 = Len(attrs) /\ attrs[Len(attrs)].kind = "fingerprint"
    PROVE  ValidateMessageIntegrity(r, attrs[i].value)
  <1> DEFINE n == Len(attrs)
             A == r.attributes
             e == A[i]
             p == at[i]
             key == attrs[i].value
             L == Len(data)
  <1>1. /\ n \in Nat /\ attrs[i] \in Additions /\ A[i].type = TypeOf(attrs[i].kind, b.legacy)
        /\ \A j \in 1..n : A[j].type = TypeOf(attrs[j].kind, b.legacy)
    BY EntryIs
  <1>2. key \in Nat
    BY <1>1, ValueIs
  <1>3. /\ Len(A) = n /\ Last(A) = A[n] /\ at[n + 1] = L
        /\ r.stream.data = data /\ data \in Seq(Nat) /\ L \in Nat /\ data[2] = 2 * L - 20
    BY LastIs
  <1>4. /\ p \in Nat /\ p >= 10 /\ at[i + 1] <= L /\ e.offset = 2 * p + 4 /\ e.size = 20
        /\ at[i + 1] = p + 12 /\ SealAt(data, p, 10, key)
    BY SealIs
  <1>5. Lookup(r, STUN_ATTRIBUTE_MESSAGEINTEGRITY) = {e}
    <2>1. \A j \in 1..n : j > i => attrs[j].kind # attrs[i].kind
      <3>1. SUFFICES ASSUME NEW j \in 1..n, j > i PROVE attrs[j].kind # attrs[i].kind
        OBVIOUS
      <3>2. j = n
        BY <1>1, <3>1
      <3>3. i # n
        BY <1>1, <3>1
      <3>4. attrs[n].kind = "fingerprint"
        BY <3>3
      <3>5. QED
        BY <3>2, <3>4
    <2>2. TypeOf(attrs[i].kind, b.legacy) = STUN_ATTRIBUTE_MESSAGEINTEGRITY
      BY DEF TypeOf
    <2> DEFINE type == TypeOf(attrs[i].kind, b.legacy)
    <2>3. Lookup(r, type) = {r.attributes[i]}
      BY <2>1, LastFound
    <2> HIDE DEF type
    <2>4. type = STUN_ATTRIBUTE_MESSAGEINTEGRITY
      BY <2>2 DEF type
    <2>5. QED
      BY <2>3, <2>4
  <1>6. i # n => /\ Last(A).type = STUN_ATTRIBUTE_FINGERPRINT /\ e # Last(A)
                 /\ n > 1 /\ i = n - 1
    <2>1. SUFFICES ASSUME i # n PROVE /\ Last(A).type = STUN_ATTRIBUTE_FINGERPRINT /\ e # Last(A)
                                      /\ n > 1 /\ i = n - 1
      OBVIOUS
    <2>2. i + 1 = n /\ attrs[n].kind = "fingerprint"
      BY <2>1
    <2>3. n > 1 /\ i = n - 1 /\ n \in 1..n
      BY <1>1, <2>2
    <2>4. TypeOf("fingerprint", b.legacy) = STUN_ATTRIBUTE_FINGERPRINT
          /\ TypeOf("integrity", b.legacy) = STUN_ATTRIBUTE_MESSAGEINTEGRITY
      BY DEF TypeOf
    <2>5. A[n].type = STUN_ATTRIBUTE_FINGERPRINT /\ e.type = STUN_ATTRIBUTE_MESSAGEINTEGRITY
      BY <1>1, <2>2, <2>3, <2>4
    <2>6. STUN_ATTRIBUTE_FINGERPRINT # STUN_ATTRIBUTE_MESSAGEINTEGRITY
      BY DEF STUN_ATTRIBUTE_FINGERPRINT, STUN_ATTRIBUTE_MESSAGEINTEGRITY
    <2> HIDE DEF e, n
    <2>7. QED
      BY <1>3, <2>3, <2>5, <2>6
  <1>7. IsLast(r, e) <=> i = n
    BY <1>3, <1>6 DEF IsLast
  <1>8. IsLast(r, e) \/ FollowedByFingerprint(r, e)
    <2>1. CASE i = n
      BY <1>7, <2>1
    <2>2. CASE i # n
      BY <1>3, <1>6, <2>2 DEF FollowedByFingerprint
    <2>3. QED
      BY <2>1, <2>2
  <1>9. (IF IsLast(r, e) THEN Peek(r.stream, 2) ELSE Peek(r.stream, 2) - 8) = 2 * (p + 2 + 10) - 20
    <2>1. Peek(r.stream, 2) = data[2]
      <3>1. (2 \div 2) + 1 = 2
        OBVIOUS
      <3>2. QED
        BY <1>3, <3>1 DEF Peek
    <2>2. CASE i = n
      <3>1. L = p + 12
        BY <1>3, <1>4, <2>2
      <3>2. QED
        BY <1>3, <1>4, <1>7, <2>1, <2>2, <3>1
    <2>3. CASE i # n
      <3>1. i + 1 = n /\ attrs[n].kind = "fingerprint" /\ n \in 1..n
        BY <1>1, <2>3
      <3>2. at[n + 1] = at[n] + 4
        BY <3>1, SealIs
      <3>3. L = p + 16
        BY <1>3, <1>4, <3>1, <3>2
      <3>4. data[2] - 8 = 2 * (p + 2 + 10) - 20
        <4>1. data[2] = 2 * L - 20
          BY <1>3
        <4> DEFINE word == data[2]
        <4>2. word = 2 * L - 20 /\ p \in Nat
          BY <1>4, <4>1
        <4> HIDE DEF word, p, L
        <4>3. word - 8 = 2 * (p + 2 + 10) - 20
          BY <3>3, <4>2
        <4>4. QED
          BY <4>3 DEF word
      <3>5. ~IsLast(r, e)
        BY <1>7, <2>3
      <3>6. QED
        BY <2>1, <3>4, <3>5
    <2>4. QED
      BY <2>2, <2>3
  <1> DEFINE length == IF IsLast(r, e) THEN Peek(r.stream, 2) ELSE Peek(r.stream, 2) - 8
  <1>10. SignedBytes(r, e) = Signed(data, p, 10)
    <2>1. SignedBytes(r, e) = [Bytes(r.stream, 0, e.offset - 4) EXCEPT ![2] = length]
      BY DEF SignedBytes
    <2>2. length = 2 * (p + 2 + 10) - 20
      BY <1>9
    <2>3. e.offset - 4 = 2 * p
      BY <1>4
    <2>4. Bytes(r.stream, 0, 2 * p) = SubSeq(data, 1, p)
      BY <1>3, <1>4, FirstBytes
    <2> HIDE DEF length, e, p
    <2>5. QED
      BY <2>1, <2>2, <2>3, <2>4 DEF Signed
  <1>11. IntegrityAt(r, e, data, p, key)
    <2>1. p + 12 <= Len(data)
      BY <1>4
    <2> HIDE DEF e, p, key
    <2>2. QED
      BY <1>2, <1>3, <1>4, <2>1 DEF IntegrityAt
  <1> HIDE DEF e, p, A, key
  <1>12. Value(r, e) = <<Checksum(key, SignedBytes(r, e))>> \o Zeros(18)
    <2>1. Value(r, e) = <<Checksum(key, Signed(data, p, 10))>> \o Zeros(18)
      BY <1>11, SealRead
    <2>2. QED
      BY <1>10, <2>1
  <1>13. ValidateMessageIntegrity(r, key)
    BY <1>4, <1>5, <1>8, <1>12 DEF ValidateMessageIntegrity
  <1>14. QED
    BY <1>13 DEF key

(* A fingerprint at the end validates.                                     *)
LEMMA FingerprintRead ==
    ASSUME NEW r, NEW data, NEW attrs, NEW b, NEW at, Listed(r, data, attrs, b, at),
           r.state = "BodyValidated", Len(attrs) > 0, attrs[Len(attrs)].kind = "fingerprint"
    PROVE  IsFingerprintAttributeValid(r)
  <1> DEFINE n == Len(attrs)
             e == r.attributes[n]
             p == at[n]
             L == Len(data)
  <1>1. n \in Nat /\ n \in 1..n
    BY EntryIs
  <1>2. /\ at[n + 1] = L /\ r.stream.data = data /\ data \in Seq(Nat) /\ L \in Nat
        /\ data[2] = 2 * L - 20
    BY LastIs
  <1>3. /\ p \in Nat /\ p >= 10 /\ e.offset = 2 * p + 4 /\ e.size = 4
        /\ at[n + 1] = p + 4 /\ SealAt(data, p, 2, 0)
    BY <1>1, SealIs
  <1>4. Lookup(r, STUN_ATTRIBUTE_FINGERPRINT) = {e}
    <2>1. /\ n \in 1..Len(attrs)
          /\ \A j \in 1..Len(attrs) : j > n => attrs[j].kind # attrs[n].kind
      BY <1>1
    <2>2. TypeOf(attrs[n].kind, b.legacy) = STUN_ATTRIBUTE_FINGERPRINT
      BY DEF TypeOf
    <2> DEFINE type == TypeOf(attrs[n].kind, b.legacy)
    <2>3. Lookup(r, type) = {r.attributes[n]}
      <3> HIDE DEF n
      <3>1. QED
        BY <2>1, LastFound
    <2> HIDE DEF type
    <2>4. type = STUN_ATTRIBUTE_FINGERPRINT
      BY <2>2 DEF type
    <2>5. QED
      BY <2>3, <2>4
  <1> DEFINE signed == Signed(data, p, 2)
  <1>5. L = p + 4
    BY <1>2, <1>3
  <1>6. Bytes(r.stream, 0, GetSize(r.stream) - 8) = signed
    <2>1. GetSize(r.stream) - 8 = 2 * p
      BY <1>2, <1>3, <1>5 DEF GetSize
    <2>2. Bytes(r.stream, 0, 2 * p) = SubSeq(data, 1, p)
      BY <1>2, <1>3, FirstBytes
    <2>3. SubSeq(data, 1, p) = signed
      <3> DEFINE w == 2
                 word == data[2]
      <3>1. w \in Nat /\ p <= L /\ word = 2 * (p + 2 + w) - 20 /\ p \in Nat /\ p >= 10
        <4>1. word = 2 * L - 20 /\ p \in Nat /\ p >= 10
          BY <1>2, <1>3
        <4> HIDE DEF word, p, L
        <4>2. QED
          BY <1>5, <4>1
      <3>2. signed = Signed(data, p, w)
        OBVIOUS
      <3>3. data[2] = 2 * (p + 2 + w) - 20
        BY <3>1
      <3>4. data \in Seq(Nat) /\ p <= Len(data)
        BY <1>2, <3>1
      <3> HIDE DEF w, p, word, signed
      <3>5. SubSeq(data, 1, p) = Signed(data, p, w)
        BY <3>1, <3>3, <3>4, SignedAsIs
      <3>6. QED
        BY <3>2, <3>5
    <2>4. QED
      BY <2>1, <2>2, <2>3
  <1>7. data[p + 3] = Checksum(0, signed) /\ data[p + 2 + 2] = 0
    BY <1>3 DEF SealAt
  <1>8. WordAt(r, e, 0) = data[p + 3] /\ WordAt(r, e, 2) = data[p + 4]
    <2>1. /\ (2 * p + 4) \div 2 + 1 = p + 3 /\ (2 * p + 6) \div 2 + 1 = p + 4
          /\ (2 * p + 4) + 0 = 2 * p + 4 /\ (2 * p + 4) + 2 = 2 * p + 6
      BY <1>3, PlaceOfWord
    <2>2. e.offset + 0 = 2 * p + 4 /\ e.offset + 2 = 2 * p + 6
      BY <1>3, <2>1
    <2> HIDE DEF e, p
    <2>3. QED
      BY <1>2, <2>1, <2>2 DEF WordAt, Peek
  <1>9. p + 2 + 2 = p + 4
    BY <1>3
  <1>10. WordAt(r, e, 0) = Checksum(0, signed) /\ WordAt(r, e, 2) = 0
    BY <1>7, <1>8, <1>9
  <1> HIDE DEF e, signed
  <1>11. QED
    BY <1>3, <1>4, <1>6, <1>10 DEF IsFingerprintAttributeValid

(* A message that arrived as it was sent is listed attribute by attribute  *)
(* as it was built.                                                        *)
LEMMA ArrivedIsListed ==
    ASSUME MessageInv, KeptInv, Arrived, ~altered, Sendable
    PROVE  /\ reader.state = "BodyValidated" /\ reader.transid = builder.transid
           /\ \E at : Listed(reader, wire, added, builder, at)
  <1> DEFINE r == reader
             b == builder
  <1>1. BuildInv /\ WireInv /\ wire # <<>> /\ delivered = Len(wire)
    BY DEF MessageInv, Arrived
  <1>2. PICK at : Message(wire, added, b, at)
    BY <1>1, SentIsMessage
  <1>3. Kept(r, delivered, wire, added, b, at)
    BY <1>1, <1>2 DEF KeptInv
  <1>4. wire \in Seq(Nat) /\ Len(wire) \in Nat /\ Len(wire) >= 10
    BY <1>2, MessageIs
  <1>5. /\ r \in Readers /\ Begins(r.stream.data, wire, Len(wire))
        /\ r.transid = b.transid /\ r.state = "BodyValidated"
        /\ Lists(r.attributes, added, b, at, Len(added))
    BY <1>1, <1>3, <1>4 DEF Kept
  <1>6. r.stream.data = wire
    BY <1>4, <1>5, ReaderIs, SameWords
  <1>7. Listed(r, wire, added, b, at)
    BY <1>2, <1>5, <1>6 DEF Listed
  <1>8. QED
    BY <1>5, <1>7

(* What is written within the limits is read back as it was, in whatever   *)
(* pieces the message arrives: AddBytes keeps what it was given, ReadBody  *)
(* lists what the builder wrote, and every getter undoes what the method   *)
(* that added the attribute did.                                           *)
THEOREM RoundTripTheorem == Spec => []RoundTrip
  <1>1. MessageInv /\ KeptInv => RoundTrip
    <2> DEFINE r == reader
               b == builder
    <2> SUFFICES ASSUME MessageInv, KeptInv, wire # <<>>, delivered = Len(wire), ~altered, Sendable
                 PROVE  /\ r.state = "BodyValidated"
                        /\ r.transid = b.transid
                        /\ GetMappedAddress(r) = ValuesOf("mapped")
                        /\ GetXorMappedAddress(r) = ValuesOf("xor")
                        /\ GetResponseOriginAddress(r) = ValuesOf("origin")
                        /\ GetOtherAddress(r) = ValuesOf("other")
                        /\ GetChangeRequest(r) = ValuesOf("change")
                        /\ ~b.legacy => GetResponsePort(r) = ValuesOf("port")
                        /\ GetErrorCode(r) = ValuesOf("error")
                        /\ GetStringAttributeByType(r, STUN_ATTRIBUTE_REALM, 65)
                              = ValuesOf("realm")
                        /\ GetPaddingAttributeSize(r)
                              = {n + Padding(n) : n \in ValuesOf("padding")}
      BY DEF RoundTrip, Arrived
    <2>1. Arrived
      BY DEF Arrived
    <2>2. r.state = "BodyValidated" /\ r.transid = b.transid
      BY <2>1, ArrivedIsListed
    <2>3. PICK at : Listed(r, wire, added, b, at)
      BY <2>1, ArrivedIsListed
    <2>4. \A kind : ValuesOf(kind) = LatestOf(added, kind)
      BY DEF ValuesOf, LatestOf
    <2> HIDE DEF r, b
    <2>5. QED
      BY <2>2, <2>3, <2>4, AddressesFound, ChangeFound, PortFound, ErrorFound, RealmFound,
         PaddingFound
  <1>2. QED
    BY <1>1, MessageInvHolds, KeptInvHolds, PTL

(* A message that arrived as it was sent validates under what sealed it:   *)
(* the integrity attribute under its key, although the fingerprint that    *)
(* may follow changed the length in the header after the length was        *)
(* signed, and the fingerprint that ends it.  What AddMessageIntegrity and *)
(* AddFingerprint computed stays the checksum of what stands before it     *)
(* (SealAt), and the length ValidateMessageIntegrity puts back is the one  *)
(* that was signed.                                                        *)
THEOREM SealsTheorem == Spec => []SealsHold
  <1>1. MessageInv /\ KeptInv => SealsHold
    <2> DEFINE n == Len(added)
               s == Signer
    <2> SUFFICES ASSUME MessageInv, KeptInv, Arrived, ~altered, Sendable, added # <<>>
                 PROVE  /\ \A k \in Keys : added[s] = [kind |-> "integrity", value |-> k] =>
                              ValidateMessageIntegrity(reader, k)
                        /\ added[n].kind = "fingerprint" => IsFingerprintAttributeValid(reader)
      BY DEF SealsHold
    <2>1. reader.state = "BodyValidated"
      BY ArrivedIsListed
    <2>2. PICK at : Listed(reader, wire, added, builder, at)
      BY ArrivedIsListed
    <2>3. n \in Nat /\ n > 0
      <3>1. added \in Seq(Additions)
        BY DEF MessageInv, BuildInv
      <3>2. QED
        BY <3>1, LenProperties, EmptySeq
    <2>4. s \in 1..n /\ (s # n => s + 1 = n /\ added[n].kind = "fingerprint")
      BY <2>3 DEF Signer
    <2>5. ASSUME NEW k \in Keys, added[s] = [kind |-> "integrity", value |-> k]
          PROVE  ValidateMessageIntegrity(reader, k)
      <3>1. added[s].kind = "integrity" /\ added[s].value = k
        BY <2>5
      <3> HIDE DEF s
      <3>2. ValidateMessageIntegrity(reader, added[s].value)
        BY <2>1, <2>2, <2>4, <3>1, IntegrityRead
      <3>3. QED
        BY <3>1, <3>2
    <2>6. added[n].kind = "fingerprint" => IsFingerprintAttributeValid(reader)
      BY <2>1, <2>2, <2>3, FingerprintRead
    <2>7. QED
      BY <2>5, <2>6
  <1>2. QED
    BY <1>1, MessageInvHolds, KeptInvHolds, PTL
=============================================================================
