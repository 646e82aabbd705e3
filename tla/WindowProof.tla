----------------------------- MODULE WindowProof -----------------------------
(***************************************************************************)
(* Proofs that the shell and its clients stay in step while nothing        *)
(* disturbs them: no message is read before it is complete, no client      *)
(* writes into a message of another, and the pipe does not run over.       *)
(***************************************************************************)
EXTENDS Window, WellFoundedInduction, TLAPS, SequenceTheorems

\* A set of natural numbers that is not empty has a least element:
\* here the place where a client falls out of step first.
LEMMA LeastExists ==
    ASSUME NEW S, S \subseteq Nat, S # {}
    PROVE  \E s \in S : \A t \in S : s <= t
PROOF
  <1>1. PICK x \in S : \A y \in S : ~ (<<y, x>> \in OpToRel(<, Nat))
    BY NatLessThanWellFounded, WFMin
  <1>2. \A y \in S : ~ (y < x)
    BY <1>1 DEF OpToRel
  <1> QED  BY <1>2

\* The units of a window's frame.
Area(c) == Height[c] * Width[c]

\* What the shell has taken from the pipe of the message it is at, behind its
\* pid.
Taken ==
    CASE pc = "name"  -> <<U(Window, "REGISTER", 0)>> \o name[Window]
      [] pc = "size"  -> <<U(Window, "SET_SIZE", 0)>>
      [] pc = "frame" -> <<U(Window, "FRAMEBUFFER_DATA", 0)>>
      [] OTHER        -> << >>

\* The stream from there on.
Stream == Taken \o queue

\* The unit of a name with a given number, its NUL included.
NameUnit(c, i) == IF i <= NameLength THEN U(c, "char", i) ELSE U(c, "NUL", 0)

\* May a unit stand right behind another?
Follows(u, v) ==
    CASE u.field = "pid"              -> \E t \in Type : v = U(u.pid, t, 0)
      [] u.field = "REGISTER"         -> v = NameUnit(u.pid, 1)
      [] u.field = "char"             -> v = NameUnit(u.pid, u.value + 1)
      [] u.field = "SET_SIZE"         -> v = U(u.pid, "height", Height[u.pid])
      [] u.field = "height"           -> v = U(u.pid, "width", Width[u.pid])
      [] u.field = "FRAMEBUFFER_DATA" -> \E k \in {0, 1} : v = U(u.pid, "pixel", 2 + k)
      [] u.field = "pixel" /\ u.value < 2 * Area(u.pid) -> v = U(u.pid, "pixel", u.value + 2)
      [] OTHER                        -> v.field = "pid" /\ v.value = 0

\* The last unit of a message.
Ends(u) ==
    \/ u.field \in {"NUL", "width"}
    \/ u.field = "pixel" /\ u.value >= 2 * Area(u.pid)

Chained(s) == \A i, j \in 1 .. Len(s) : j = i + 1 => Follows(s[i], s[j])

\* The order of a client's messages.
Before(t, u) == u = "FRAMEBUFFER_DATA" \/ (t = "REGISTER" /\ u = "SET_SIZE")

Ordered(s) ==
    \A i, j \in 1 .. Len(s) :
        i < j /\ s[i].field \in Type /\ s[j].field \in Type /\ s[i].pid = s[j].pid
            => Before(s[i].field, s[j].field)

Holds(s, c, type) == \E i \in 1 .. Len(s) : s[i].pid = c /\ s[i].field = type

\* The step at which a client is in the middle of a message, by its type.
MidStep(type) ==
    CASE type = "REGISTER" -> "name" [] type = "SET_SIZE" -> "size" [] OTHER -> "none"

\* The stream ends with a message that is written whole, or with the first
\* half of one whose client writes the other half next.
LastInv(s) ==
    /\ (s = << >> \/ Ends(s[Len(s)])) => \A c \in Client : ~MidMessage(c)
    /\ s # << >> /\ ~Ends(s[Len(s)]) =>
           \E c \in Client : \E t \in {"REGISTER", "SET_SIZE"} :
               /\ s[Len(s)] = U(c, t, 0)
               /\ step[c] = MidStep(t)
               /\ \A d \in Client \ {c} : ~MidMessage(d)

\* The stream begins with a message, or with the type of the one the shell is at.
FirstInv(s) ==
    /\ pc \in {"poll", "draw", "preamble"} => s = << >> \/ (s[1].field = "pid" /\ s[1].value = 0)
    /\ pc \in {"name", "size", "frame"} => Window \in Client
    /\ pc = "preamble" => s # << >>

\* The messages of a client come in their order; what is behind them is done.
ClientInv(s, c) ==
    /\ Holds(s, c, "REGISTER") => step[c] # "register" /\ size[c] = 0
    /\ Holds(s, c, "SET_SIZE") => step[c] \in {"size", "frame"} /\ size[c] = 0
    /\ Holds(s, c, "FRAMEBUFFER_DATA") => step[c] = "frame"
    /\ step[c] # "register" => Holds(s, c, "REGISTER") \/ name[c] = Name(c)
    /\ step[c] \in {"size", "frame"} => Holds(s, c, "SET_SIZE") \/ size[c] = Area(c)
    /\ size[c] # 0 => step[c] \in {"size", "frame"}

\* The name so far.
NameInv ==
    pc = "name" =>
        /\ Len(name[Window]) <= NameLength
        /\ \A i \in 1 .. Len(name[Window]) : name[Window][i] = U(Window, "char", i)

\* A whole frame of a window's client, or memory as it was.
Whole(c, s) ==
    \/ \E k \in {0, 1} : s = Pixels(c, k)
    \/ \A i \in DOMAIN s : s[i].field = "junk"

FramesInv == \A c \in Client : Whole(c, fd[c]) /\ Whole(c, shown[c])

WindowType ==
    /\ queue \in Seq(Unit)
    /\ step \in [Client -> {"register", "name", "set_size", "size", "frame"}]
    /\ colour \in [Client -> {0, 1}]
    /\ pc \in {"poll", "preamble", "name", "size", "frame", "draw"}
    /\ name \in [Client -> Seq(Unit)]
    /\ size \in [Client -> Nat]
    /\ fd \in [Client -> Seq(Unit)]
    /\ shown \in [Client -> Seq(Unit)]
    /\ dirty \in [Client -> BOOLEAN]

InStep ==
    /\ WindowType
    /\ Chained(Stream)
    /\ Ordered(Stream)
    /\ LastInv(Stream)
    /\ FirstInv(Stream)
    /\ \A c \in Client : ClientInv(Stream, c)
    /\ NameInv
    /\ FramesInv

IInv == Undisturbed => InStep

----------------------------------------------------------------------------
\* Sequences.

\* One sequence behind another, index by index.
LEMMA Joined ==
    ASSUME NEW s \in Seq(Unit), NEW t \in Seq(Unit)
    PROVE  /\ s \o t \in Seq(Unit) /\ Len(s) \in Nat /\ Len(t) \in Nat
           /\ Len(s \o t) = Len(s) + Len(t)
           /\ \A i \in 1 .. Len(s) : (s \o t)[i] = s[i]
           /\ \A i \in 1 .. Len(t) : (s \o t)[Len(s) + i] = t[i]
PROOF
  OBVIOUS

\* A sequence that is not empty has a last element, of its set.
LEMMA LastUnit ==
    ASSUME NEW s \in Seq(Unit), s # << >>
    PROVE  Len(s) \in Nat /\ Len(s) >= 1 /\ s[1] \in Unit /\ s[Len(s)] \in Unit
PROOF
  <1>1. Len(s) \in Nat \ {0}
    BY EmptySeq
  <1>2. 1 \in 1 .. Len(s) /\ Len(s) \in 1 .. Len(s) /\ Len(s) >= 1
    BY <1>1
  <1> QED  BY <1>1, <1>2, ElementOfSeq

\* A block alone is what is left of it when blocks are put together.
LEMMA FlattenOne ==
    ASSUME NEW S, NEW m \in Seq(S)
    PROVE  FlattenSeq(<<m>>) = m
PROOF
  <1> DEFINE seqs == <<m>>
             Equation(f) == f = [i \in 1 .. 1 |-> IF i = 1 THEN seqs[i] ELSE f[i - 1] \o seqs[i]]
             one == [i \in 1 .. 1 |-> m]
  <1>1. Len(seqs) = 1 /\ seqs[1] = m
    OBVIOUS
  <1>2. Equation(one)
    <2>1. \A i \in 1 .. 1 : i = 1
      OBVIOUS
    <2>2. \A i \in 1 .. 1 : (IF i = 1 THEN seqs[i] ELSE one[i - 1] \o seqs[i]) = m
      BY <1>1, <2>1
    <2> QED  BY <2>2
  <1>3. Equation(CHOOSE f : Equation(f))
    BY <1>2
  <1>4. (CHOOSE f : Equation(f))[1] = m
    <2> DEFINE g == CHOOSE f : Equation(f)
    <2>1. g = [i \in 1 .. 1 |-> IF i = 1 THEN seqs[i] ELSE g[i - 1] \o seqs[i]]
      BY <1>3
    <2> HIDE DEF g
    <2>2. g[1] = seqs[1]
      BY <2>1
    <2> QED  BY <1>1, <2>2 DEF g
  <1> QED  BY <1>1, <1>4 DEF FlattenSeq

\* A block that there is room for goes behind what is in the pipe.
LEMMA PutOne ==
    ASSUME NEW S, NEW q \in Seq(S), NEW m \in Seq(S), Capacity \in Nat,
           ~ (Len(q) + Len(m) > Capacity)
    PROVE  Put(q, <<m>>) = q \o m
PROOF
  <1>1. FlattenSeq(<<m>>) = m
    BY FlattenOne
  <1>2. Len(q \o m) <= Capacity
    BY ConcatProperties, LenProperties
  <1> QED  BY <1>1, <1>2 DEF Put, Newest

\* Streams that are chained stay so when one follows the other.
LEMMA ChainedJoined ==
    ASSUME NEW s \in Seq(Unit), NEW t \in Seq(Unit), Chained(s), Chained(t), t # << >>,
           s # << >> => Follows(s[Len(s)], t[1])
    PROVE  Chained(s \o t)
PROOF
  <1> SUFFICES ASSUME NEW i \in 1 .. Len(s \o t), NEW j \in 1 .. Len(s \o t), j = i + 1
               PROVE  Follows((s \o t)[i], (s \o t)[j])
    BY DEF Chained
  <1>1. /\ Len(s) \in Nat /\ Len(t) \in Nat /\ Len(s \o t) = Len(s) + Len(t)
        /\ \A n \in 1 .. Len(s) : (s \o t)[n] = s[n]
        /\ \A n \in 1 .. Len(t) : (s \o t)[Len(s) + n] = t[n]
    BY Joined
  <1>2. CASE j <= Len(s)
    BY <1>1, <1>2 DEF Chained
  <1>3. CASE i = Len(s)
    <2>1. s # << >> /\ i \in 1 .. Len(s)
      BY <1>1, <1>3
    <2>2. (s \o t)[i] = s[Len(s)] /\ (s \o t)[j] = t[1]
      <3>1. 1 \in 1 .. Len(t)
        BY LastUnit
      <3> QED  BY <1>1, <1>3, <2>1, <3>1
    <2> QED  BY <2>1, <2>2
  <1>4. CASE i > Len(s)
    <2>1. PICK n \in 1 .. Len(t) : i = Len(s) + n /\ n + 1 \in 1 .. Len(t)
      <3>1. i - Len(s) \in 1 .. Len(t) /\ (i - Len(s)) + 1 \in 1 .. Len(t) /\ i = Len(s) + (i - Len(s))
        BY <1>1, <1>4
      <3> QED  BY <3>1
    <2>2. j = Len(s) + (n + 1)
      BY <1>1, <2>1
    <2>3. (s \o t)[i] = t[n] /\ (s \o t)[j] = t[n + 1]
      BY <1>1, <2>1, <2>2
    <2> QED  BY <2>1, <2>3 DEF Chained
  <1> QED  BY <1>1, <1>2, <1>3, <1>4

\* A suffix of a stream, index by index.
Suffix(t, s, k) ==
    /\ Len(s) = Len(t) + k
    /\ \A i \in 1 .. Len(t) : t[i] = s[i + k]

\* A suffix of a chained and ordered stream is chained and ordered, and holds
\* nothing that the stream does not hold.
LEMMA SuffixKept ==
    ASSUME NEW s \in Seq(Unit), NEW t \in Seq(Unit), NEW k \in Nat, Suffix(t, s, k)
    PROVE  /\ Chained(s) => Chained(t)
           /\ Ordered(s) => Ordered(t)
           /\ \A c, type : Holds(t, c, type) => Holds(s, c, type)
           /\ t # << >> => t[Len(t)] = s[Len(s)]
PROOF
  <1>1. Len(s) \in Nat /\ Len(t) \in Nat /\ Len(s) = Len(t) + k
    BY DEF Suffix
  <1>2. \A i \in 1 .. Len(t) : i + k \in 1 .. Len(s) /\ t[i] = s[i + k]
    BY <1>1 DEF Suffix
  <1>3. Chained(s) => Chained(t)
    <2> SUFFICES ASSUME Chained(s), NEW i \in 1 .. Len(t), NEW j \in 1 .. Len(t), j = i + 1
                 PROVE  Follows(t[i], t[j])
      BY DEF Chained
    <2>1. j + k = (i + k) + 1
      BY <1>1
    <2> QED  BY <1>2, <2>1 DEF Chained
  <1>4. Ordered(s) => Ordered(t)
    <2> SUFFICES ASSUME Ordered(s), NEW i \in 1 .. Len(t), NEW j \in 1 .. Len(t), i < j,
                        t[i].field \in Type, t[j].field \in Type, t[i].pid = t[j].pid
                 PROVE  Before(t[i].field, t[j].field)
      BY DEF Ordered
    <2>1. i + k < j + k
      BY <1>1
    <2> QED  BY <1>2, <2>1 DEF Ordered
  <1>5. \A c, type : Holds(t, c, type) => Holds(s, c, type)
    BY <1>2 DEF Holds
  <1>6. t # << >> => t[Len(t)] = s[Len(s)]
    BY <1>1, <1>2, LastUnit
  <1> QED  BY <1>3, <1>4, <1>5, <1>6

----------------------------------------------------------------------------
\* Messages.

LEMMA AreaType == \A c \in Client : Area(c) \in Nat /\ Area(c) >= 1
PROOF
  <1> TAKE c \in Client
  <1>1. \A m, n \in Nat \ {0} : m * n \in Nat /\ m * n >= 1
    OBVIOUS
  <1>2. Height[c] \in Nat \ {0} /\ Width[c] \in Nat \ {0}
    BY WindowAssumption
  <1> QED  BY <1>1, <1>2 DEF Area

\* A unit is of the set when its parts are, and has the parts it is made of.
LEMMA UnitType ==
    ASSUME NEW c \in Client, NEW v \in Nat,
           NEW f \in Type \cup {"pid", "char", "NUL", "height", "width", "pixel", "junk"}
    PROVE  /\ U(c, f, v) \in Unit
           /\ U(c, f, v).pid = c /\ U(c, f, v).field = f /\ U(c, f, v).value = v
PROOF
  BY DEF U, Unit

LEMMA NameShape ==
    ASSUME NEW c \in Client
    PROVE  /\ Name(c) \in Seq(Unit) /\ Len(Name(c)) = NameLength + 1 /\ NameLength \in Nat
           /\ \A i \in 1 .. (NameLength + 1) : Name(c)[i] = NameUnit(c, i)
PROOF
  <1> DEFINE chars == [i \in 1 .. NameLength |-> U(c, "char", i)]
             end == <<U(c, "NUL", 0)>>
  <1>1. NameLength \in Nat
    BY WindowAssumption
  <1>2. U(c, "NUL", 0) \in Unit /\ \A i \in 1 .. NameLength : U(c, "char", i) \in Unit
    BY <1>1, UnitType
  <1>3. chars \in Seq(Unit) /\ Len(chars) = NameLength
    BY <1>1, <1>2
  <1>4. end \in Seq(Unit) /\ Len(end) = 1 /\ end[1] = U(c, "NUL", 0)
    BY <1>2
  <1>5. Name(c) = chars \o end
    BY DEF Name
  <1>6. \A i \in 1 .. NameLength : chars[i] = U(c, "char", i)
    OBVIOUS
  <1> HIDE DEF chars, end
  <1>7. /\ Name(c) \in Seq(Unit) /\ Len(Name(c)) = NameLength + 1
        /\ \A i \in 1 .. NameLength : Name(c)[i] = chars[i]
        /\ Name(c)[NameLength + 1] = end[1]
    <2>1. /\ chars \o end \in Seq(Unit) /\ Len(chars \o end) = Len(chars) + Len(end)
          /\ \A i \in 1 .. Len(chars) : (chars \o end)[i] = chars[i]
          /\ \A i \in 1 .. Len(end) : (chars \o end)[Len(chars) + i] = end[i]
      BY <1>3, <1>4, Joined
    <2>2. 1 \in 1 .. Len(end)
      BY <1>4
    <2> QED  BY <1>3, <1>4, <1>5, <2>1, <2>2
  <1>8. \A i \in 1 .. (NameLength + 1) : i \in 1 .. NameLength \/ (i = NameLength + 1 /\ ~(i <= NameLength))
    BY <1>1
  <1> QED  BY <1>1, <1>4, <1>6, <1>7, <1>8 DEF NameUnit

LEMMA PixelsShape ==
    ASSUME NEW c \in Client, NEW k \in {0, 1}
    PROVE  /\ Pixels(c, k) \in Seq(Unit) /\ Len(Pixels(c, k)) = Area(c)
           /\ \A i \in 1 .. Area(c) : Pixels(c, k)[i] = U(c, "pixel", 2 * i + k)
PROOF
  <1>1. Area(c) \in Nat
    BY AreaType
  <1>2. \A i \in 1 .. Area(c) : 2 * i + k \in Nat
    BY <1>1
  <1>3. \A i \in 1 .. Area(c) : U(c, "pixel", 2 * i + k) \in Unit
    BY <1>2, UnitType
  <1>4. Pixels(c, k) = [i \in 1 .. Area(c) |-> U(c, "pixel", 2 * i + k)]
    BY DEF Pixels, Area
  <1> QED  BY <1>1, <1>3, <1>4

\* The units of a message that say what it is.
TypeWritten == [register |-> "REGISTER", set_size |-> "SET_SIZE", frame |-> "FRAMEBUFFER_DATA"]

Opening(c) == step[c] \in {"register", "set_size", "frame"}

\* What the invariant needs to know of a message.
MessageFacts(c, m) ==
    /\ m \in Seq(Unit) /\ m # << >>
    /\ Chained(m)
    /\ Opening(c) => m[1] = U(c, "pid", 0)
    /\ step[c] = "name" => m[1] = NameUnit(c, 1)
    /\ step[c] = "size" => m[1] = U(c, "height", Height[c])
    /\ step[c] = "register" => m[Len(m)] = U(c, "REGISTER", 0)
    /\ step[c] = "set_size" => m[Len(m)] = U(c, "SET_SIZE", 0)
    /\ step[c] \in {"name", "size", "frame"} => Ends(m[Len(m)])
    /\ \A i \in 1 .. Len(m) : m[i].field \in Type => Opening(c) /\ i = 2
    /\ Opening(c) => 2 \in 1 .. Len(m) /\ m[2] = U(c, TypeWritten[step[c]], 0)

LEMMA PreambleShape ==
    ASSUME NEW c \in Client, NEW t \in Type
    PROVE  /\ Preamble(c, t) \in Seq(Unit) /\ Len(Preamble(c, t)) = 2
           /\ Preamble(c, t)[1] = U(c, "pid", 0) /\ Preamble(c, t)[2] = U(c, t, 0)
           /\ Chained(Preamble(c, t))
PROOF
  <1>1. U(c, "pid", 0) \in Unit /\ U(c, t, 0) \in Unit
    BY UnitType
  <1>2. /\ Preamble(c, t) \in Seq(Unit) /\ Len(Preamble(c, t)) = 2
        /\ Preamble(c, t)[1] = U(c, "pid", 0) /\ Preamble(c, t)[2] = U(c, t, 0)
    BY <1>1 DEF Preamble
  <1>3. Follows(U(c, "pid", 0), U(c, t, 0))
    BY DEF Follows, U
  <1>4. Chained(Preamble(c, t))
    <2>1. \A i, j \in 1 .. 2 : j = i + 1 => i = 1 /\ j = 2
      OBVIOUS
    <2> QED  BY <1>2, <1>3, <2>1 DEF Chained
  <1> QED  BY <1>2, <1>4

LEMMA OpeningFacts ==
    ASSUME NEW c \in Client, step[c] \in {"register", "set_size"}
    PROVE  MessageFacts(c, Message(c))
PROOF
  <1>1. PICK t \in Type : t = TypeWritten[step[c]] /\ Message(c) = Preamble(c, t)
    <2>1. CASE step[c] = "register"
      BY <2>1 DEF Message, TypeWritten, Type
    <2>2. CASE step[c] = "set_size"
      BY <2>2 DEF Message, TypeWritten, Type
    <2> QED  BY <2>1, <2>2
  <1> DEFINE m == Message(c)
  <1>2. /\ m \in Seq(Unit) /\ Len(m) = 2 /\ Chained(m)
        /\ m[1] = U(c, "pid", 0) /\ m[2] = U(c, t, 0)
    BY <1>1, PreambleShape
  <1> HIDE DEF m
  <1>3. m # << >>
    BY <1>2, EmptySeq
  <1>4. \A i \in 1 .. Len(m) : i = 1 \/ i = 2
    BY <1>2
  <1>5. m[1].field \notin Type
    BY <1>2 DEF U, Type
  <1>6. 2 \in 1 .. Len(m)
    BY <1>2
  <1>7. MessageFacts(c, m)
    BY <1>1, <1>2, <1>3, <1>4, <1>5, <1>6 DEF MessageFacts, Opening, TypeWritten
  <1> QED  BY <1>7 DEF m

LEMMA NameFacts ==
    ASSUME NEW c \in Client, step[c] = "name"
    PROVE  MessageFacts(c, Message(c))
PROOF
  <1> DEFINE m == Message(c)
  <1>1. /\ m \in Seq(Unit) /\ Len(m) = NameLength + 1 /\ NameLength \in Nat
        /\ \A i \in 1 .. Len(m) : m[i] = NameUnit(c, i)
    BY NameShape DEF Message
  <1> HIDE DEF m
  <1>2. m # << >> /\ Len(m) >= 1 /\ 1 \in 1 .. Len(m) /\ Len(m) \in 1 .. Len(m)
    BY <1>1, EmptySeq
  <1>3. Chained(m)
    <2> SUFFICES ASSUME NEW i \in 1 .. Len(m), NEW j \in 1 .. Len(m), j = i + 1
                 PROVE  Follows(m[i], m[j])
      BY DEF Chained
    <2>1. i <= NameLength /\ m[i] = U(c, "char", i) /\ m[j] = NameUnit(c, i + 1)
      BY <1>1 DEF NameUnit
    <2> QED  BY <2>1 DEF Follows, U
  <1>4. Ends(m[Len(m)])
    BY <1>1, <1>2 DEF Ends, NameUnit, U
  <1>5. \A i \in 1 .. Len(m) : m[i].field \notin Type
    BY <1>1 DEF NameUnit, U, Type
  <1>6. MessageFacts(c, m)
    BY <1>1, <1>2, <1>3, <1>4, <1>5 DEF MessageFacts, Opening
  <1> QED  BY <1>6 DEF m

LEMMA SizeFacts ==
    ASSUME NEW c \in Client, step[c] = "size"
    PROVE  MessageFacts(c, Message(c))
PROOF
  <1> DEFINE m == Message(c)
  <1>1. U(c, "height", Height[c]) \in Unit /\ U(c, "width", Width[c]) \in Unit
    BY WindowAssumption, UnitType
  <1>2. /\ m \in Seq(Unit) /\ Len(m) = 2 /\ m # << >>
        /\ m[1] = U(c, "height", Height[c]) /\ m[2] = U(c, "width", Width[c])
    BY <1>1 DEF Message
  <1> HIDE DEF m
  <1>3. Chained(m)
    <2>1. \A i, j \in 1 .. Len(m) : j = i + 1 => i = 1 /\ j = 2
      BY <1>2
    <2>2. Follows(m[1], m[2])
      BY <1>2 DEF Follows, U
    <2> QED  BY <2>1, <2>2 DEF Chained
  <1>4. Ends(m[Len(m)])
    BY <1>2 DEF Ends, U
  <1>5. \A i \in 1 .. Len(m) : m[i].field \notin Type
    <2>1. \A i \in 1 .. Len(m) : i = 1 \/ i = 2
      BY <1>2
    <2> QED  BY <1>2, <2>1 DEF U, Type
  <1>6. MessageFacts(c, m)
    BY <1>2, <1>3, <1>4, <1>5 DEF MessageFacts, Opening
  <1> QED  BY <1>6 DEF m

LEMMA FrameFacts ==
    ASSUME NEW c \in Client, step[c] = "frame", colour[c] \in {0, 1}
    PROVE  MessageFacts(c, Message(c))
PROOF
  <1> DEFINE m == Message(c)
             p == Preamble(c, "FRAMEBUFFER_DATA")
             x == Pixels(c, colour[c])
             n == Area(c)
  <1>1. /\ p \in Seq(Unit) /\ Len(p) = 2 /\ Chained(p)
        /\ p[1] = U(c, "pid", 0) /\ p[2] = U(c, "FRAMEBUFFER_DATA", 0)
    BY PreambleShape DEF Type
  <1>2. /\ x \in Seq(Unit) /\ Len(x) = n /\ n \in Nat /\ n >= 1
        /\ \A i \in 1 .. n : x[i] = U(c, "pixel", 2 * i + colour[c])
    BY PixelsShape, AreaType
  <1>3. m = p \o x
    BY DEF Message
  <1> HIDE DEF m, p, x
  <1>4. /\ m \in Seq(Unit) /\ Len(m) = n + 2
        /\ \A i \in 1 .. 2 : m[i] = p[i]
        /\ \A i \in 1 .. n : m[2 + i] = x[i]
    <2>1. /\ p \o x \in Seq(Unit) /\ Len(p \o x) = Len(p) + Len(x)
          /\ \A i \in 1 .. Len(p) : (p \o x)[i] = p[i]
          /\ \A i \in 1 .. Len(x) : (p \o x)[Len(p) + i] = x[i]
      BY <1>1, <1>2, Joined
    <2> QED  BY <1>1, <1>2, <1>3, <2>1
  <1>5. Chained(x)
    <2> SUFFICES ASSUME NEW i \in 1 .. n, NEW j \in 1 .. n, j = i + 1
                 PROVE  Follows(x[i], x[j])
      BY <1>2 DEF Chained
    <2> DEFINE v == 2 * i + colour[c]
    <2>1. v \in Nat /\ v < 2 * n /\ v + 2 = 2 * j + colour[c]
      BY <1>2
    <2>2. x[i] = U(c, "pixel", v) /\ x[j] = U(c, "pixel", v + 2)
      BY <1>2, <2>1
    <2> HIDE DEF v
    <2> QED  BY <2>1, <2>2 DEF Follows, U
  <1>6. x # << >> /\ p # << >>
    <2>1. Len(<< >>) = 0
      BY EmptySeq
    <2>2. Len(x) # 0 /\ Len(p) # 0
      BY <1>1, <1>2
    <2> QED  BY <2>1, <2>2, Zenon
  <1>7. Follows(p[Len(p)], x[1])
    <2>1. x[1] = U(c, "pixel", 2 + colour[c])
      BY <1>2
    <2> QED  BY <1>1, <2>1 DEF Follows, U
  <1>8. Chained(m)
    BY <1>1, <1>2, <1>3, <1>5, <1>6, <1>7, ChainedJoined
  <1>9. m[1] = U(c, "pid", 0) /\ m[2] = U(c, "FRAMEBUFFER_DATA", 0)
    BY <1>1, <1>4
  <1>10. m # << >> /\ 2 \in 1 .. Len(m)
    BY <1>2, <1>4, EmptySeq
  <1>11. Ends(m[Len(m)])
    <2>1. m[Len(m)] = U(c, "pixel", 2 * n + colour[c]) /\ 2 * n + colour[c] >= 2 * n
      <3>1. Len(m) = 2 + n /\ n \in 1 .. n
        BY <1>2, <1>4
      <3> QED  BY <1>2, <1>4, <3>1
    <2> QED  BY <2>1 DEF Ends, U
  <1>12. \A i \in 1 .. Len(m) : m[i].field \in Type => i = 2
    <2> SUFFICES ASSUME NEW i \in 1 .. Len(m), i # 2
                 PROVE  m[i].field \notin Type
      OBVIOUS
    <2>1. CASE i = 1
      BY <1>9, <2>1 DEF U, Type
    <2>2. CASE i # 1
      <3>1. PICK j \in 1 .. n : i = 2 + j
        <4>1. i - 2 \in 1 .. n /\ i = 2 + (i - 2)
          BY <1>2, <1>4, <2>2
        <4> QED  BY <4>1
      <3>2. m[i] = U(c, "pixel", 2 * j + colour[c])
        BY <1>2, <1>4, <3>1
      <3> QED  BY <3>2 DEF U, Type
    <2> QED  BY <2>1, <2>2
  <1>13. MessageFacts(c, m)
    BY <1>4, <1>8, <1>9, <1>10, <1>11, <1>12 DEF MessageFacts, Opening, TypeWritten
  <1> QED  BY <1>13 DEF m

\* Every message has the shape that the shell expects.
LEMMA MessageShape ==
    ASSUME WindowType, NEW c \in Client
    PROVE  MessageFacts(c, Message(c))
PROOF
  <1>1. step[c] \in {"register", "name", "set_size", "size", "frame"} /\ colour[c] \in {0, 1}
    BY DEF WindowType
  <1> QED  BY <1>1, OpeningFacts, NameFacts, SizeFacts, FrameFacts

----------------------------------------------------------------------------
\* The steps.

LEMMA StreamType ==
    ASSUME InStep
    PROVE  Taken \in Seq(Unit) /\ queue \in Seq(Unit) /\ Stream \in Seq(Unit)
PROOF
  <1>1. queue \in Seq(Unit)
    BY DEF InStep, WindowType
  <1>2. Taken \in Seq(Unit)
    <2>1. CASE pc = "name"
      <3>1. Window \in Client /\ name[Window] \in Seq(Unit)
        BY <2>1 DEF InStep, WindowType, FirstInv
      <3>2. U(Window, "REGISTER", 0) \in Unit
        BY <3>1, UnitType DEF Type
      <3>3. <<U(Window, "REGISTER", 0)>> \in Seq(Unit)
        BY <3>2
      <3> QED  BY <2>1, <3>1, <3>3, ConcatProperties DEF Taken
    <2>2. CASE pc = "size"
      <3>1. Window \in Client
        BY <2>2 DEF InStep, FirstInv
      <3>2. U(Window, "SET_SIZE", 0) \in Unit
        BY <3>1, UnitType DEF Type
      <3> QED  BY <2>2, <3>2 DEF Taken
    <2>3. CASE pc = "frame"
      <3>1. Window \in Client
        BY <2>3 DEF InStep, FirstInv
      <3>2. U(Window, "FRAMEBUFFER_DATA", 0) \in Unit
        BY <3>1, UnitType DEF Type
      <3> QED  BY <2>3, <3>2 DEF Taken
    <2>4. CASE pc \notin {"name", "size", "frame"}
      BY <2>4, EmptySeq DEF Taken
    <2> QED  BY <2>1, <2>2, <2>3, <2>4
  <1> QED  BY <1>1, <1>2, ConcatProperties DEF Stream

\* What may follow the end of a message.
LEMMA PidFollowsEnd ==
    ASSUME NEW u \in Unit, Ends(u), NEW c \in Client
    PROVE  Follows(u, U(c, "pid", 0))
PROOF
  <1>1. u.value \in Nat /\ u.pid \in Client /\ Area(u.pid) \in Nat
    BY AreaType DEF Unit
  <1>2. u.field = "pixel" => ~(u.value < 2 * Area(u.pid))
    BY <1>1 DEF Ends
  <1>3. u.field \in {"NUL", "width", "pixel"}
    BY DEF Ends
  <1> QED  BY <1>2, <1>3 DEF Follows, U

\* A client's message fits behind the stream.
LEMMA MessageFollows ==
    ASSUME InStep, NEW c \in Client, \A d \in Client \ {c} : ~MidMessage(d)
    PROVE  /\ Stream # << >> => Follows(Stream[Len(Stream)], Message(c)[1])
           /\ Stream = << >> => Opening(c)
PROOF
  <1>1. MessageFacts(c, Message(c)) /\ step[c] \in {"register", "name", "set_size", "size", "frame"}
    BY MessageShape DEF InStep, WindowType
  <1>2. LastInv(Stream) /\ Stream \in Seq(Unit)
    BY StreamType DEF InStep
  <1> DEFINE last == Stream[Len(Stream)]
  <1>3. CASE Stream = << >> \/ Ends(last)
    <2>1. Opening(c) /\ Message(c)[1] = U(c, "pid", 0)
      BY <1>1, <1>2, <1>3 DEF LastInv, MidMessage, Opening, MessageFacts
    <2>2. Stream # << >> => last \in Unit
      BY <1>2, LastUnit
    <2> QED  BY <1>3, <2>1, <2>2, PidFollowsEnd
  <1>4. CASE Stream # << >> /\ ~Ends(last)
    <2>1. PICK d \in Client, t \in {"REGISTER", "SET_SIZE"} : last = U(d, t, 0) /\ step[d] = MidStep(t)
      BY <1>2, <1>4 DEF LastInv
    <2>2. d = c
      BY <2>1 DEF MidStep, MidMessage
    <2>3. CASE t = "REGISTER"
      BY <1>1, <1>4, <2>1, <2>2, <2>3 DEF MidStep, MessageFacts, Follows, U
    <2>4. CASE t = "SET_SIZE"
      BY <1>1, <1>4, <2>1, <2>2, <2>4 DEF MidStep, MessageFacts, Follows, U
    <2> QED  BY <2>1, <2>3, <2>4
  <1> QED  BY <1>3, <1>4

LEMMA WriteStep ==
    ASSUME InStep, NEW c \in Client, write(c), Undisturbed'
    PROVE  InStep'
PROOF
  <1> DEFINE m == Message(c)
             s == Stream
  <1>1. /\ \A d \in Client \ {c} : ~MidMessage(d)
        /\ ~ (Len(queue) + Len(m) > Capacity)
    BY DEF write, Undisturbed
  <1>2. /\ queue' = Put(queue, <<m>>)
        /\ step' = [step EXCEPT ![c] = Following[@]]
        /\ colour' = IF step[c] = "frame" THEN [colour EXCEPT ![c] = 1 - @] ELSE colour
        /\ UNCHANGED <<pc, preamble, name, size, fd, dirty, shown>>
    BY DEF write, buffers, windows
  <1>3. /\ MessageFacts(c, m) /\ s \in Seq(Unit) /\ Taken \in Seq(Unit) /\ queue \in Seq(Unit)
        /\ WindowType /\ Chained(s) /\ Ordered(s) /\ LastInv(s) /\ FirstInv(s)
        /\ \A d \in Client : ClientInv(s, d)
    BY MessageShape, StreamType DEF InStep
  <1>4. /\ s # << >> => Follows(s[Len(s)], m[1])
        /\ s = << >> => Opening(c)
    BY <1>1, MessageFollows
  <1>5. m \in Seq(Unit) /\ m # << >>
    BY <1>3 DEF MessageFacts
  <1>6. queue' = queue \o m
    <2>1. Capacity \in Nat
      BY WindowAssumption
    <2> QED  BY <1>1, <1>2, <1>3, <1>5, <2>1, PutOne
  <1>7. Stream' = s \o m
    <2>1. Taken' = Taken
      BY <1>2 DEF Taken, Window
    <2>2. Taken \o (queue \o m) = (Taken \o queue) \o m
      BY <1>3, <1>5, ConcatAssociative
    <2> QED  BY <1>6, <2>1, <2>2 DEF Stream
  <1>8. /\ s \o m \in Seq(Unit) /\ Len(s) \in Nat /\ Len(m) \in Nat /\ Len(m) >= 1
        /\ Len(s \o m) = Len(s) + Len(m)
        /\ \A i \in 1 .. Len(s) : (s \o m)[i] = s[i]
        /\ \A i \in 1 .. Len(m) : (s \o m)[Len(s) + i] = m[i]
    BY <1>3, <1>5, Joined, LastUnit
  <1>9. step[c] \in {"register", "name", "set_size", "size", "frame"} /\ step \in [Client -> {"register", "name", "set_size", "size", "frame"}]
    BY <1>3 DEF WindowType
  <1> HIDE DEF m, s
  <1>10. \A i \in 1 .. Len(s \o m) :
            \/ i \in 1 .. Len(s) /\ (s \o m)[i] = s[i]
            \/ \E j \in 1 .. Len(m) : i = Len(s) + j /\ (s \o m)[i] = m[j]
    <2> TAKE i \in 1 .. Len(s \o m)
    <2>1. CASE i <= Len(s)
      BY <1>8, <2>1
    <2>2. CASE i > Len(s)
      <3>1. i - Len(s) \in 1 .. Len(m) /\ i = Len(s) + (i - Len(s))
        BY <1>8, <2>2
      <3> QED  BY <1>8, <3>1
    <2> QED  BY <1>8, <2>1, <2>2
  <1>11. \A d, t : Holds(s \o m, d, t) <=> Holds(s, d, t) \/ Holds(m, d, t)
    <2> TAKE d, t
    <2>1. ASSUME Holds(s, d, t) PROVE Holds(s \o m, d, t)
      <3>1. PICK i \in 1 .. Len(s) : s[i].pid = d /\ s[i].field = t
        BY <2>1 DEF Holds
      <3>2. i \in 1 .. Len(s \o m)
        BY <1>8
      <3> QED  BY <1>8, <3>1, <3>2 DEF Holds
    <2>2. ASSUME Holds(m, d, t) PROVE Holds(s \o m, d, t)
      <3>1. PICK i \in 1 .. Len(m) : m[i].pid = d /\ m[i].field = t
        BY <2>2 DEF Holds
      <3>2. Len(s) + i \in 1 .. Len(s \o m)
        BY <1>8
      <3> QED  BY <1>8, <3>1, <3>2 DEF Holds
    <2>3. ASSUME Holds(s \o m, d, t) PROVE Holds(s, d, t) \/ Holds(m, d, t)
      BY <1>10, <2>3 DEF Holds
    <2> QED  BY <2>1, <2>2, <2>3
  <1>12. \A d \in Client, t \in Type : Holds(m, d, t) <=> d = c /\ Opening(c) /\ t = TypeWritten[step[c]]
    <2>1. \A i \in 1 .. Len(m) : m[i].field \in Type => Opening(c) /\ i = 2
      BY <1>3 DEF MessageFacts
    <2>2. Opening(c) => 2 \in 1 .. Len(m) /\ m[2].pid = c /\ m[2].field = TypeWritten[step[c]]
      BY <1>3 DEF MessageFacts, U
    <2> QED  BY <2>1, <2>2 DEF Holds
  <1>13. Chained(Stream)'
    BY <1>3, <1>4, <1>5, <1>7, ChainedJoined DEF MessageFacts
  <1>14. Ordered(Stream)'
    <2> SUFFICES ASSUME NEW i \in 1 .. Len(s \o m), NEW j \in 1 .. Len(s \o m), i < j,
                        (s \o m)[i].field \in Type, (s \o m)[j].field \in Type,
                        (s \o m)[i].pid = (s \o m)[j].pid
                 PROVE  Before((s \o m)[i].field, (s \o m)[j].field)
      BY <1>7 DEF Ordered
    <2>1. CASE j <= Len(s)
      <3>1. i \in 1 .. Len(s) /\ j \in 1 .. Len(s)
        BY <1>8, <2>1
      <3> QED  BY <1>3, <1>8, <3>1 DEF Ordered
    <2>2. CASE j > Len(s)
      <3>1. PICK n \in 1 .. Len(m) : j = Len(s) + n /\ (s \o m)[j] = m[n]
        BY <1>8, <1>10, <2>2
      <3>2. Opening(c) /\ n = 2 /\ m[n] = U(c, TypeWritten[step[c]], 0)
        BY <1>3, <3>1 DEF MessageFacts
      <3>3. (s \o m)[j].pid = c /\ (s \o m)[j].field = TypeWritten[step[c]]
        BY <3>1, <3>2 DEF U
      <3>4. i \in 1 .. Len(s) /\ (s \o m)[i] = s[i]
        <4>1. ASSUME NEW k \in 1 .. Len(m), i = Len(s) + k, (s \o m)[i] = m[k] PROVE FALSE
          <5>1. k = 2
            BY <1>3, <4>1 DEF MessageFacts
          <5> QED  BY <1>8, <3>1, <3>2, <4>1, <5>1
        <4> QED  BY <1>10, <4>1
      <3>5. Holds(s, c, s[i].field) /\ s[i].field \in Type
        BY <3>3, <3>4 DEF Holds
      <3> QED  BY <1>3, <1>9, <3>2, <3>3, <3>4, <3>5 DEF ClientInv, Before, Type, TypeWritten, Opening
    <2> QED  BY <1>8, <2>1, <2>2
  <1>15. LastInv(Stream)'
    <2>1. s \o m # << >> /\ (s \o m)[Len(s \o m)] = m[Len(m)]
      <3>1. Len(m) \in 1 .. Len(m)
        BY <1>8
      <3>2. Len(<< >>) = 0
        BY EmptySeq
      <3>3. Len(s \o m) # 0
        BY <1>8
      <3> QED  BY <1>8, <3>1, <3>2, <3>3
    <2>2. CASE Ends(m[Len(m)])
      <3>1. step[c] \in {"name", "size", "frame"}
        BY <1>3, <1>9, <2>2 DEF MessageFacts, Ends, U
      <3>2. \A d \in Client : ~ (step'[d] \in {"name", "size"})
        BY <1>1, <1>2, <1>9, <3>1 DEF MidMessage, Following
      <3> QED  BY <1>7, <2>1, <2>2, <3>2 DEF LastInv, MidMessage
    <2>3. CASE ~Ends(m[Len(m)])
      <3>1. PICK t \in {"REGISTER", "SET_SIZE"} : m[Len(m)] = U(c, t, 0) /\ step'[c] = MidStep(t)
        BY <1>2, <1>3, <1>9, <2>3 DEF MessageFacts, Following, MidStep
      <3>2. \A d \in Client \ {c} : ~ (step'[d] \in {"name", "size"})
        BY <1>1, <1>2, <1>9 DEF MidMessage
      <3> QED  BY <1>7, <2>1, <2>3, <3>1, <3>2 DEF LastInv, MidMessage
    <2> QED  BY <2>2, <2>3
  <1>16. FirstInv(Stream)'
    <2>1. s \o m # << >> /\ (s = << >> => (s \o m)[1] = m[1]) /\ (s # << >> => (s \o m)[1] = s[1])
      <3>1. Len(<< >>) = 0
        BY EmptySeq
      <3>2. Len(s \o m) # 0 /\ 1 \in 1 .. Len(m)
        BY <1>8
      <3>3. s = << >> => Len(s) + 1 = 1
        BY <3>1
      <3>4. s # << >> => 1 \in 1 .. Len(s)
        BY <1>3, LastUnit
      <3> QED  BY <1>8, <3>1, <3>2, <3>3, <3>4
    <2>2. s = << >> => m[1] = U(c, "pid", 0)
      BY <1>3, <1>4 DEF MessageFacts
    <2> QED  BY <1>2, <1>3, <1>7, <2>1, <2>2 DEF FirstInv, Window, U
  <1>17. \A d \in Client : ClientInv(Stream, d)'
    <2> TAKE d \in Client
    <2>1. \A t \in Type : Holds(s \o m, d, t) <=> Holds(s, d, t) \/ (d = c /\ Opening(c) /\ t = TypeWritten[step[c]])
      BY <1>11, <1>12
    <2>2. {"REGISTER", "SET_SIZE", "FRAMEBUFFER_DATA"} = Type
      BY DEF Type
    <2>3. ClientInv(s, d)
      BY <1>3
    <2>4. CASE d # c
      BY <1>2, <1>7, <1>9, <2>1, <2>2, <2>3, <2>4 DEF ClientInv
    <2>5. CASE d = c
      BY <1>2, <1>7, <1>9, <2>1, <2>2, <2>3, <2>5 DEF ClientInv, Opening, TypeWritten, Following
    <2> QED  BY <2>4, <2>5
  <1>18. WindowType'
    <2>1. queue' \in Seq(Unit)
      BY <1>3, <1>5, <1>6, Joined
    <2>2. colour' \in [Client -> {0, 1}]
      <3>1. colour \in [Client -> {0, 1}]
        BY <1>3 DEF WindowType
      <3>2. 1 - colour[c] \in {0, 1}
        BY <3>1
      <3> QED  BY <1>2, <3>1, <3>2
    <2>3. step' \in [Client -> {"register", "name", "set_size", "size", "frame"}]
      BY <1>2, <1>9 DEF Following
    <2> QED  BY <1>2, <1>3, <2>1, <2>2, <2>3 DEF WindowType
  <1>19. NameInv' /\ FramesInv'
    BY <1>2 DEF InStep, NameInv, FramesInv, Window
  <1> QED  BY <1>13, <1>14, <1>15, <1>16, <1>17, <1>18, <1>19 DEF InStep

\* What is left of the stream is in step when what was taken away ended a
\* message, or when there is something left.
LEMMA Advance ==
    ASSUME InStep, NEW t \in Seq(Unit), NEW k \in Nat, Suffix(t, Stream, k),
           t = << >> => Stream # << >> /\ Ends(Stream[Len(Stream)])
    PROVE  /\ Chained(t) /\ Ordered(t) /\ LastInv(t)
           /\ \A c, type : Holds(t, c, type) => Holds(Stream, c, type)
           /\ \A c, type : Holds(Stream, c, type) =>
                  \/ Holds(t, c, type)
                  \/ \E i \in 1 .. k : i <= Len(Stream) /\ Stream[i].pid = c /\ Stream[i].field = type
PROOF
  <1>1. /\ Stream \in Seq(Unit) /\ Chained(Stream) /\ Ordered(Stream) /\ LastInv(Stream)
    BY StreamType DEF InStep
  <1>2. /\ Chained(t) /\ Ordered(t)
        /\ \A c, type : Holds(t, c, type) => Holds(Stream, c, type)
        /\ t # << >> => t[Len(t)] = Stream[Len(Stream)]
    BY <1>1, SuffixKept
  <1>3. LastInv(t)
    <2>1. CASE t = << >>
      BY <1>1, <2>1 DEF LastInv
    <2>2. CASE t # << >>
      <3>1. Stream # << >>
        <4>1. Len(t) \in Nat /\ Len(t) >= 1
          BY <2>2, LastUnit
        <4>2. Len(Stream) # 0
          BY <4>1 DEF Suffix
        <4> QED  BY <4>2, EmptySeq
      <3> QED  BY <1>1, <1>2, <2>2, <3>1 DEF LastInv
    <2> QED  BY <2>1, <2>2
  <1>4. ASSUME NEW c, NEW type, Holds(Stream, c, type),
               ~ \E i \in 1 .. k : i <= Len(Stream) /\ Stream[i].pid = c /\ Stream[i].field = type
        PROVE  Holds(t, c, type)
    <2>1. PICK i \in 1 .. Len(Stream) : Stream[i].pid = c /\ Stream[i].field = type
      BY <1>4 DEF Holds
    <2>2. Len(t) \in Nat /\ Len(Stream) = Len(t) + k
      BY DEF Suffix
    <2>3. i > k
      BY <1>4, <2>1, <2>2
    <2>4. i - k \in 1 .. Len(t) /\ (i - k) + k = i
      BY <2>1, <2>2, <2>3
    <2>5. t[i - k] = Stream[i]
      BY <2>4 DEF Suffix
    <2> QED  BY <2>1, <2>4, <2>5 DEF Holds
  <1> QED  BY <1>2, <1>3, <1>4

LEMMA PollStep ==
    ASSUME InStep, poll
    PROVE  InStep'
PROOF
  <1>1. pc = "poll" /\ pc' = (IF queue = << >> THEN "draw" ELSE "preamble")
        /\ UNCHANGED <<queue, step, colour, preamble, name, size, fd, dirty, shown>>
    BY DEF poll, clients, buffers, windows
  <1>2. queue \in Seq(Unit)
    BY StreamType
  <1>3. Stream' = Stream /\ Stream = queue
    BY <1>1, <1>2, ConcatEmptySeq DEF Stream, Taken
  <1>4. LastInv(Stream)' /\ \A c \in Client : ClientInv(Stream, c)'
    BY <1>1, <1>3 DEF InStep, LastInv, ClientInv, MidMessage
  <1>5. Chained(Stream)' /\ Ordered(Stream)'
    BY <1>3 DEF InStep, Chained, Ordered
  <1>6. FirstInv(Stream)' /\ NameInv' /\ FramesInv' /\ WindowType'
    BY <1>1, <1>3 DEF InStep, FirstInv, NameInv, FramesInv, WindowType
  <1> QED  BY <1>4, <1>5, <1>6 DEF InStep

LEMMA DrawStep ==
    ASSUME InStep, draw
    PROVE  InStep'
PROOF
  <1>1. /\ pc = "draw" /\ pc' = "poll"
        /\ shown' = [c \in Client |-> IF c \in Drawn THEN fd[c] ELSE shown[c]]
        /\ dirty' = [c \in Client |-> dirty[c] /\ c \notin Drawn]
        /\ UNCHANGED <<queue, step, colour, preamble, name, size, fd>>
    BY DEF draw, clients, buffers
  <1>2. queue \in Seq(Unit)
    BY StreamType
  <1>3. Stream' = Stream /\ Stream = queue
    BY <1>1, <1>2, ConcatEmptySeq DEF Stream, Taken
  <1>4. LastInv(Stream)' /\ \A c \in Client : ClientInv(Stream, c)'
    BY <1>1, <1>3 DEF InStep, LastInv, ClientInv, MidMessage
  <1>5. Chained(Stream)' /\ Ordered(Stream)'
    BY <1>3 DEF InStep, Chained, Ordered
  <1>6. FirstInv(Stream)' /\ NameInv'
    BY <1>1, <1>3 DEF InStep, FirstInv, NameInv
  <1>7. FramesInv'
    BY <1>1 DEF InStep, FramesInv
  <1>8. WindowType'
    <2>1. dirty' \in [Client -> BOOLEAN]
      BY <1>1, Zenon DEF InStep, WindowType
    <2>2. shown' \in [Client -> Seq(Unit)]
      BY <1>1, Zenon DEF InStep, WindowType
    <2> QED  BY <1>1, <2>1, <2>2 DEF InStep, WindowType
  <1> QED  BY <1>4, <1>5, <1>6, <1>7, <1>8 DEF InStep

\* The stream ends with the end of a message or with the type of one.
LEMMA LastKnown ==
    ASSUME InStep, Stream # << >>
    PROVE  Stream[Len(Stream)].field \in {"NUL", "width", "pixel", "REGISTER", "SET_SIZE"}
PROOF
  <1> DEFINE last == Stream[Len(Stream)]
  <1>1. Ends(last) \/ \E c \in Client : \E t \in {"REGISTER", "SET_SIZE"} : last = U(c, t, 0)
    BY DEF InStep, LastInv
  <1> HIDE DEF last
  <1>2. last.field \in {"NUL", "width", "pixel", "REGISTER", "SET_SIZE"}
    BY <1>1 DEF Ends, U
  <1> QED  BY <1>2 DEF last

LEMMA ReadPreambleStep ==
    ASSUME InStep, read_preamble
    PROVE  InStep'
PROOF
  <1> DEFINE w == queue[1].pid
             type == queue[2].field
  <1>1. /\ queue \in Seq(Unit) /\ Stream \in Seq(Unit) /\ pc = "preamble"
        /\ WindowType /\ Chained(Stream) /\ Ordered(Stream) /\ LastInv(Stream) /\ FirstInv(Stream)
    BY StreamType DEF InStep, read_preamble
  <1>2. Stream = queue
    BY <1>1, ConcatEmptySeq DEF Stream, Taken
  <1>3. queue # << >> /\ queue[1].field = "pid"
    BY <1>1, <1>2 DEF FirstInv
  <1>4. Len(queue) \in Nat /\ Len(queue) >= 2
    <2>1. Len(queue) \in Nat /\ Len(queue) >= 1
      BY <1>1, <1>3, LastUnit
    <2>2. Len(queue) # 1
      BY <1>2, <1>3, LastKnown
    <2> QED  BY <2>1, <2>2
  <1>5. queue[1] \in Unit /\ w \in Client
    BY <1>1, <1>3, LastUnit DEF Unit
  <1>6. type \in Type /\ queue[2] = U(w, type, 0)
    <2>1. Follows(queue[1], queue[2])
      <3>1. 1 \in 1 .. Len(queue) /\ 2 \in 1 .. Len(queue) /\ 2 = 1 + 1
        BY <1>4
      <3> QED  BY <1>1, <1>2, <3>1 DEF Chained
    <2>2. PICK t \in Type : queue[2] = U(w, t, 0)
      BY <1>3, <2>1 DEF Follows
    <2> QED  BY <2>2 DEF U
  <1>7. /\ preamble' = SubSeq(queue, 1, 2) /\ queue' = SubSeq(queue, 3, Len(queue))
        /\ UNCHANGED <<step, colour, size, fd, dirty, shown>>
    BY <1>4 DEF read_preamble, Enough, Took, clients
  <1>8. preamble' # << >> /\ preamble'[1] = queue[1] /\ preamble'[2] = queue[2]
    <2>1. \A i \in 1 .. 2 : queue[i] \in Unit
      BY <1>1, <1>4, ElementOfSeq
    <2>2. /\ preamble' \in Seq(Unit) /\ Len(preamble') = 2
          /\ \A i \in 1 .. 2 : preamble'[i] = queue[1 + i - 1]
      BY <1>7, <2>1, SubSeqProperties
    <2>3. Len(<< >>) = 0
      BY EmptySeq
    <2> QED  BY <2>2, <2>3
  <1>9. pc' = Branch(type) /\ name' = (IF pc' = "name" THEN [name EXCEPT ![w] = << >>] ELSE name)
    BY <1>3, <1>6, <1>8 DEF read_preamble, IsPreamble
  <1>10. Window' = w
    BY <1>8 DEF Window
  <1>11. queue' \in Seq(Unit) /\ Len(queue') = Len(queue) - 2 /\ \A i \in 1 .. Len(queue') : queue'[i] = queue[i + 2]
    <2>1. \A i \in 3 .. Len(queue) : queue[i] \in Unit
      BY <1>1, <1>4, ElementOfSeq
    <2>2. /\ queue' \in Seq(Unit)
          /\ Len(queue') = IF 3 <= Len(queue) THEN Len(queue) - 3 + 1 ELSE 0
          /\ \A i \in 1 .. (Len(queue) - 3 + 1) : queue'[i] = queue[3 + i - 1]
      BY <1>4, <1>7, <2>1, SubSeqProperties
    <2>3. Len(queue') = Len(queue) - 2
      <3>1. \A n \in Nat : n >= 2 => (IF 3 <= n THEN n - 3 + 1 ELSE 0) = n - 2
        OBVIOUS
      <3>2. Len(queue') = IF 3 <= Len(queue) THEN Len(queue) - 3 + 1 ELSE 0
        BY <2>2
      <3> QED  BY <1>4, <3>1, <3>2
    <2>4. \A i \in 1 .. Len(queue') : i \in 1 .. (Len(queue) - 3 + 1) /\ 3 + i - 1 = i + 2
      BY <1>4, <2>3
    <2> QED  BY <2>2, <2>3, <2>4
  <1>12. Taken' = <<queue[2]>>
    <2>1. type \in {"REGISTER", "SET_SIZE", "FRAMEBUFFER_DATA"}
      BY <1>6 DEF Type
    <2>2. CASE type = "REGISTER"
      <3>1. name'[w] = << >> /\ pc' = "name"
        BY <1>1, <1>5, <1>9, <2>2 DEF WindowType, Branch
      <3>2. <<queue[2]>> \o << >> = <<queue[2]>>
        BY <1>5, <1>6, UnitType
      <3> QED  BY <1>6, <1>10, <2>2, <3>1, <3>2 DEF Taken
    <2>3. CASE type = "SET_SIZE"
      BY <1>6, <1>9, <1>10, <2>3 DEF Taken, Branch
    <2>4. CASE type = "FRAMEBUFFER_DATA"
      BY <1>6, <1>9, <1>10, <2>4 DEF Taken, Branch
    <2> QED  BY <2>1, <2>2, <2>3, <2>4
  <1> HIDE DEF w, type
  <1> DEFINE t == Stream'
  <1>13. t \in Seq(Unit) /\ Len(t) = Len(queue) - 1 /\ t[1] = queue[2] /\ Suffix(t, Stream, 1)
    <2>1. <<queue[2]>> \in Seq(Unit) /\ Len(<<queue[2]>>) = 1 /\ <<queue[2]>>[1] = queue[2]
      BY <1>5, <1>6, UnitType
    <2>2. /\ t \in Seq(Unit) /\ Len(t) = 1 + Len(queue')
          /\ \A i \in 1 .. 1 : t[i] = queue[2]
          /\ \A i \in 1 .. Len(queue') : t[1 + i] = queue'[i]
      BY <1>11, <1>12, <2>1, Joined DEF Stream
    <2>3. \A i \in 1 .. Len(t) : t[i] = queue[i + 1]
      <3> TAKE i \in 1 .. Len(t)
      <3>1. CASE i = 1
        BY <2>2, <3>1
      <3>2. CASE i # 1
        <4>1. i - 1 \in 1 .. Len(queue') /\ i = 1 + (i - 1) /\ (i - 1) + 2 = i + 1
          BY <1>4, <1>11, <2>2, <3>2
        <4> QED  BY <1>11, <2>2, <4>1
      <3> QED  BY <3>1, <3>2
    <2>4. Len(t) = Len(queue) - 1 /\ Len(queue) = Len(t) + 1 /\ t[1] = queue[2]
      BY <1>4, <1>11, <2>2
    <2> QED  BY <1>2, <2>2, <2>3, <2>4 DEF Suffix
  <1>14. t # << >>
    <2>1. Len(<< >>) = 0
      BY EmptySeq
    <2> QED  BY <1>4, <1>13, <2>1
  <1> HIDE DEF t
  <1>15. /\ Chained(t) /\ Ordered(t) /\ LastInv(t)
         /\ \A c, ty : Holds(t, c, ty) => Holds(Stream, c, ty)
         /\ \A c, ty : Holds(Stream, c, ty) =>
                \/ Holds(t, c, ty)
                \/ \E i \in 1 .. 1 : i <= Len(Stream) /\ Stream[i].pid = c /\ Stream[i].field = ty
    BY <1>13, <1>14, Advance
  <1>16. \A c, ty : ty \in Type => (Holds(t, c, ty) <=> Holds(Stream, c, ty))
    BY <1>2, <1>3, <1>15 DEF Type
  <1>17. type = "REGISTER" => Holds(t, w, "REGISTER")
    <2>1. 1 \in 1 .. Len(t)
      BY <1>4, <1>13
    <2> QED  BY <1>6, <1>13, <2>1 DEF Holds, U
  <1>18. \A c \in Client : ClientInv(Stream, c)'
    <2> TAKE c \in Client
    <2>1. ClientInv(Stream, c)
      BY DEF InStep
    <2>2. name'[c] # name[c] => c = w /\ type = "REGISTER"
      BY <1>1, <1>5, <1>6, <1>9 DEF WindowType, Branch, Type
    <2>3. {"REGISTER", "SET_SIZE", "FRAMEBUFFER_DATA"} = Type
      BY DEF Type
    <2> QED  BY <1>7, <1>16, <1>17, <2>1, <2>2, <2>3 DEF t, ClientInv
  <1>19. LastInv(Stream)'
    BY <1>7, <1>15 DEF t, LastInv, MidMessage
  <1>20. FirstInv(Stream)' /\ FramesInv' /\ NameInv'
    <2>1. pc' \in {"name", "size", "frame"}
      BY <1>6, <1>9 DEF Branch, Type
    <2>2. pc' = "name" => Len(name'[w]) = 0 /\ NameLength \in Nat
      <3>1. Len(<< >>) = 0
        BY EmptySeq
      <3> QED  BY <1>1, <1>5, <1>9, <3>1, WindowAssumption DEF WindowType
    <2>3. NameInv'
      BY <1>10, <2>2 DEF NameInv
    <2> QED  BY <1>5, <1>7, <1>10, <2>1, <2>3 DEF InStep, FirstInv, FramesInv
  <1>21. WindowType'
    <2>1. name' \in [Client -> Seq(Unit)]
      <3>1. << >> \in Seq(Unit) /\ name \in [Client -> Seq(Unit)]
        BY <1>1, EmptySeq DEF WindowType
      <3> QED  BY <1>9, <3>1
    <2>2. pc' \in {"name", "size", "frame"}
      BY <1>6, <1>9 DEF Branch, Type
    <2> QED  BY <1>1, <1>7, <1>11, <2>1, <2>2 DEF WindowType
  <1> QED  BY <1>15, <1>18, <1>19, <1>20, <1>21 DEF InStep, t

\* The pipe is a suffix of the stream.
LEMMA PipeSuffix ==
    ASSUME InStep
    PROVE  /\ Len(Taken) \in Nat /\ Len(queue) \in Nat /\ Len(Stream) = Len(Taken) + Len(queue)
           /\ \A i \in 1 .. Len(Taken) : Stream[i] = Taken[i]
           /\ \A i \in 1 .. Len(queue) : Stream[Len(Taken) + i] = queue[i]
PROOF
  <1>1. Taken \in Seq(Unit) /\ queue \in Seq(Unit)
    BY StreamType
  <1> QED  BY <1>1, Joined DEF Stream

\* Taking units from the front of the pipe.
LEMMA Parted ==
    ASSUME NEW q \in Seq(Unit), NEW n \in Nat \ {0}, n <= Len(q)
    PROVE  /\ SubSeq(q, n + 1, Len(q)) \in Seq(Unit) /\ Len(q) \in Nat
           /\ Len(q) = Len(SubSeq(q, n + 1, Len(q))) + n
           /\ \A i \in 1 .. Len(SubSeq(q, n + 1, Len(q))) : SubSeq(q, n + 1, Len(q))[i] = q[i + n]
           /\ SubSeq(q, 1, n) \in Seq(Unit) /\ Len(SubSeq(q, 1, n)) = n
           /\ \A i \in 1 .. n : SubSeq(q, 1, n)[i] = q[i]
PROOF
  <1> DEFINE r == SubSeq(q, n + 1, Len(q))
             f == SubSeq(q, 1, n)
  <1>1. Len(q) \in Nat
    BY LenProperties
  <1>2. /\ r \in Seq(Unit) /\ Len(r) = (IF n + 1 <= Len(q) THEN Len(q) - (n + 1) + 1 ELSE 0)
        /\ \A i \in 1 .. (Len(q) - (n + 1) + 1) : r[i] = q[n + 1 + i - 1]
    <2>1. \A i \in (n + 1) .. Len(q) : q[i] \in Unit
      BY <1>1, ElementOfSeq
    <2> QED  BY <1>1, <2>1, SubSeqProperties
  <1>3. /\ f \in Seq(Unit) /\ Len(f) = (IF 1 <= n THEN n - 1 + 1 ELSE 0)
        /\ \A i \in 1 .. (n - 1 + 1) : f[i] = q[1 + i - 1]
    <2>1. \A i \in 1 .. n : q[i] \in Unit
      BY <1>1, ElementOfSeq
    <2> QED  BY <2>1, SubSeqProperties
  <1> HIDE DEF r, f
  <1>4. Len(r) = Len(q) - n
    <2>1. \A x \in Nat : n <= x => (IF n + 1 <= x THEN x - (n + 1) + 1 ELSE 0) = x - n
      OBVIOUS
    <2>2. Len(r) = (IF n + 1 <= Len(q) THEN Len(q) - (n + 1) + 1 ELSE 0)
      BY <1>2
    <2> QED  BY <1>1, <2>1, <2>2
  <1>5. \A i \in 1 .. Len(r) : r[i] = q[i + n]
    <2>1. \A i \in 1 .. Len(r) : i \in 1 .. (Len(q) - (n + 1) + 1) /\ n + 1 + i - 1 = i + n
      BY <1>1, <1>4
    <2> QED  BY <1>2, <2>1
  <1>6. Len(f) = n /\ \A i \in 1 .. n : f[i] = q[i]
    <2>1. \A i \in 1 .. n : i \in 1 .. (n - 1 + 1) /\ 1 + i - 1 = i
      OBVIOUS
    <2>2. Len(f) = n
      <3>1. (IF 1 <= n THEN n - 1 + 1 ELSE 0) = n
        OBVIOUS
      <3> QED  BY <1>3, <3>1
    <2> QED  BY <1>3, <2>1, <2>2
  <1> QED  BY <1>1, <1>2, <1>3, <1>4, <1>5, <1>6 DEF r, f

\* The end of a message that the shell is at: what is left begins with the next
\* one, and of this client nothing comes that should have come before.
LEMMA Finish ==
    ASSUME InStep, NEW w \in Client, NEW type \in Type,
           NEW t \in Seq(Unit), NEW k \in Nat \ {0}, Suffix(t, Stream, k),
           Stream[1] = U(w, type, 0), Ends(Stream[k]),
           \A i \in 2 .. k : Stream[i].field \notin Type
    PROVE  /\ Chained(t) /\ Ordered(t) /\ LastInv(t)
           /\ t = << >> \/ (t[1].field = "pid" /\ t[1].value = 0)
           /\ \A c, ty : Holds(t, c, ty) => Holds(Stream, c, ty)
           /\ \A c : \A ty \in Type : Holds(Stream, c, ty) => Holds(t, c, ty) \/ (c = w /\ ty = type)
           /\ \A ty \in Type : Holds(t, w, ty) => Before(type, ty)
PROOF
  <1>1. /\ Stream \in Seq(Unit) /\ Chained(Stream) /\ Ordered(Stream)
        /\ Len(t) \in Nat /\ Len(Stream) = Len(t) + k
        /\ \A i \in 1 .. Len(t) : t[i] = Stream[i + k]
    BY StreamType DEF InStep, Suffix
  <1>2. k \in 1 .. Len(Stream) /\ 1 \in 1 .. Len(Stream)
    BY <1>1
  <1>3. t = << >> => Stream # << >> /\ Ends(Stream[Len(Stream)])
    <2>1. Len(<< >>) = 0
      BY EmptySeq
    <2>2. Len(Stream) # 0
      BY <1>1
    <2> QED  BY <1>1, <2>1, <2>2
  <1>4. /\ Chained(t) /\ Ordered(t) /\ LastInv(t)
        /\ \A c, ty : Holds(t, c, ty) => Holds(Stream, c, ty)
        /\ \A c, ty : Holds(Stream, c, ty) =>
               \/ Holds(t, c, ty)
               \/ \E i \in 1 .. k : i <= Len(Stream) /\ Stream[i].pid = c /\ Stream[i].field = ty
    BY <1>3, Advance
  <1>5. t # << >> => t[1].field = "pid" /\ t[1].value = 0
    <2> SUFFICES ASSUME t # << >> PROVE t[1].field = "pid" /\ t[1].value = 0
      OBVIOUS
    <2>1. Len(t) >= 1
      BY LastUnit
    <2>2. t[1] = Stream[k + 1] /\ k + 1 \in 1 .. Len(Stream)
      <3>1. 1 \in 1 .. Len(t) /\ 1 + k = k + 1
        BY <1>1, <2>1
      <3> QED  BY <1>1, <2>1, <3>1
    <2>3. Follows(Stream[k], t[1])
      BY <1>1, <1>2, <2>2 DEF Chained
    <2>4. Stream[k] \in Unit
      BY <1>1, <1>2, ElementOfSeq
    <2>5. /\ Stream[k].value \in Nat /\ Area(Stream[k].pid) \in Nat
      BY <2>4, AreaType DEF Unit
    <2>6. Stream[k].field \in {"NUL", "width", "pixel"}
          /\ (Stream[k].field = "pixel" => ~(Stream[k].value < 2 * Area(Stream[k].pid)))
      BY <2>5 DEF Ends
    <2> QED  BY <2>3, <2>6 DEF Follows
  <1>6. \A c : \A ty \in Type : Holds(Stream, c, ty) => Holds(t, c, ty) \/ (c = w /\ ty = type)
    <2> TAKE c
    <2> TAKE ty \in Type
    <2>1. ASSUME NEW i \in 1 .. k, Stream[i].pid = c, Stream[i].field = ty
          PROVE  c = w /\ ty = type
      <3>1. i = 1
        <4>1. i \notin 2 .. k
          BY <2>1
        <4> QED  BY <4>1
      <3> QED  BY <2>1, <3>1 DEF U
    <2> QED  BY <1>4, <2>1
  <1>7. \A ty \in Type : Holds(t, w, ty) => Before(type, ty)
    <2> SUFFICES ASSUME NEW ty \in Type, NEW i \in 1 .. Len(t), t[i].pid = w, t[i].field = ty
                 PROVE  Before(type, ty)
      BY DEF Holds
    <2>1. i + k \in 1 .. Len(Stream) /\ 1 < i + k /\ Stream[i + k].pid = w /\ Stream[i + k].field = ty
      BY <1>1
    <2>2. Stream[1].pid = w /\ Stream[1].field = type
      BY DEF U
    <2> QED  BY <1>1, <1>2, <2>1, <2>2 DEF Ordered
  <1> QED  BY <1>4, <1>5, <1>6, <1>7

\* The unit behind those of the name that the shell has.
LEMMA NameContinues ==
    ASSUME InStep, pc = "name", queue # << >>
    PROVE  /\ Window \in Client /\ name[Window] \in Seq(Unit)
           /\ Len(name[Window]) \in 0 .. NameLength /\ NameLength \in Nat
           /\ \A i \in 1 .. Len(name[Window]) : name[Window][i] = U(Window, "char", i)
           /\ Len(Taken) = Len(name[Window]) + 1 /\ Taken[1] = U(Window, "REGISTER", 0)
           /\ \A i \in 1 .. Len(name[Window]) : Taken[i + 1] = U(Window, "char", i)
           /\ Len(queue) \in Nat /\ Len(queue) >= 1
           /\ queue[1] = NameUnit(Window, Len(name[Window]) + 1)
PROOF
  <1> DEFINE n == name[Window]
             r == <<U(Window, "REGISTER", 0)>>
  <1>1. Window \in Client /\ name[Window] \in Seq(Unit)
    BY DEF InStep, WindowType, FirstInv
  <1>2. /\ NameLength \in Nat /\ Len(n) \in 0 .. NameLength
        /\ \A i \in 1 .. Len(n) : n[i] = U(Window, "char", i)
    <2>1. Len(n) \in Nat
      BY <1>1, LenProperties
    <2>2. Len(n) <= NameLength /\ \A i \in 1 .. Len(n) : n[i] = U(Window, "char", i)
      BY DEF InStep, NameInv
    <2> QED  BY <2>1, <2>2, WindowAssumption
  <1>3. r \in Seq(Unit) /\ Len(r) = 1 /\ r[1] = U(Window, "REGISTER", 0)
    BY <1>1, UnitType DEF Type
  <1>4. Taken = r \o n
    BY DEF Taken
  <1> HIDE DEF n, r
  <1>5. /\ Len(Taken) = Len(n) + 1 /\ Taken[1] = U(Window, "REGISTER", 0)
        /\ \A i \in 1 .. Len(n) : Taken[i + 1] = U(Window, "char", i)
    <2>1. /\ Len(r \o n) = Len(r) + Len(n) /\ \A i \in 1 .. Len(r) : (r \o n)[i] = r[i]
          /\ \A i \in 1 .. Len(n) : (r \o n)[Len(r) + i] = n[i]
      BY <1>1, <1>3, Joined DEF n
    <2>2. \A i \in 1 .. Len(n) : Taken[1 + i] = n[i]
      BY <1>3, <1>4, <2>1
    <2>3. \A i \in 1 .. Len(n) : 1 + i = i + 1
      BY <1>2
    <2>4. Len(Taken) = Len(n) + 1 /\ Taken[1] = r[1]
      BY <1>2, <1>3, <1>4, <2>1
    <2> QED  BY <1>2, <1>3, <2>2, <2>3, <2>4
  <1>6. Len(queue) \in Nat /\ Len(queue) >= 1
    BY StreamType, LastUnit
  <1>7. queue[1] = NameUnit(Window, Len(n) + 1)
    <2> DEFINE k == Len(n) + 1
    <2>1. k \in 1 .. Len(Stream) /\ k + 1 \in 1 .. Len(Stream) /\ Stream[k] = Taken[k] /\ Stream[k + 1] = queue[1]
      BY <1>2, <1>5, <1>6, PipeSuffix
    <2>2. Follows(Taken[k], queue[1])
      BY <2>1 DEF InStep, Chained
    <2>3. CASE Len(n) = 0
      BY <1>5, <2>2, <2>3 DEF Follows, U
    <2>4. CASE Len(n) # 0
      <3>1. Len(n) \in 1 .. Len(n)
        BY <1>2, <2>4
      <3>2. Taken[k] = U(Window, "char", Len(n))
        BY <1>5, <3>1
      <3> QED  BY <2>2, <3>2 DEF Follows, U
    <2> QED  BY <2>3, <2>4
  <1> QED  BY <1>1, <1>2, <1>5, <1>6, <1>7 DEF n

\* The shell is at no message: what is left of the pipe is the stream.
LEMMA AtRest ==
    ASSUME pc' = "draw", queue' \in Seq(Unit)
    PROVE  Stream' = queue'
PROOF
  BY ConcatEmptySeq DEF Stream, Taken

LEMMA ReadCharStep ==
    ASSUME InStep, read_char, Undisturbed'
    PROVE  InStep'
PROOF
  <1> DEFINE w == Window
             n == name[w]
             u == queue[1]
             t == queue'
  <1>1. /\ pc = "name" /\ Enough(1) /\ char' = Head(queue) /\ Took(1)
        /\ name' = [name EXCEPT ![w] = Append(@, char')]
        /\ pc' = (IF char'.field \notin {"char", "NUL", "junk"} THEN "lost"
                  ELSE IF char'.field = "NUL" THEN "draw" ELSE "name")
        /\ UNCHANGED <<step, colour, preamble, size, fd, dirty, shown>>
    BY DEF read_char, Stored, IsLastChar, Early, Undisturbed, clients
  <1>2. queue \in Seq(Unit) /\ Taken \in Seq(Unit) /\ Stream \in Seq(Unit)
    BY StreamType
  <1>3. queue # << >>
    BY <1>1, EmptySeq DEF Enough
  <1>4. /\ w \in Client /\ n \in Seq(Unit) /\ Len(n) \in 0 .. NameLength /\ NameLength \in Nat
        /\ \A i \in 1 .. Len(n) : n[i] = U(w, "char", i)
        /\ Len(Taken) = Len(n) + 1 /\ Taken[1] = U(w, "REGISTER", 0)
        /\ \A i \in 1 .. Len(n) : Taken[i + 1] = U(w, "char", i)
        /\ Len(queue) \in Nat /\ Len(queue) >= 1
        /\ u = NameUnit(w, Len(n) + 1)
    BY <1>1, <1>3, NameContinues
  <1>5. char' = u /\ u \in Unit
    <2>1. u \in Unit
      BY <1>2, <1>3, LastUnit
    <2> QED  BY <1>1, <2>1
  <1>6. /\ t \in Seq(Unit) /\ Len(queue) = Len(t) + 1
        /\ \A i \in 1 .. Len(t) : t[i] = queue[i + 1]
    <2>1. 1 \in Nat \ {0} /\ 1 <= Len(queue)
      BY <1>4
    <2>2. t = SubSeq(queue, 1 + 1, Len(queue))
      BY <1>1 DEF Took
    <2> QED  BY <1>2, <2>1, <2>2, Parted
  <1>7. name' = [name EXCEPT ![w] = Append(n, u)] /\ name \in [Client -> Seq(Unit)]
    BY <1>1, <1>5 DEF InStep, WindowType
  <1>8. /\ Append(n, u) \in Seq(Unit) /\ Len(Append(n, u)) = Len(n) + 1
        /\ \A i \in 1 .. Len(n) : Append(n, u)[i] = n[i]
        /\ Append(n, u)[Len(n) + 1] = u
    BY <1>4, <1>5, AppendProperties
  <1>9. name'[w] = Append(n, u) /\ Window' = w /\ name' \in [Client -> Seq(Unit)]
    BY <1>1, <1>4, <1>7, <1>8 DEF Window
  <1> HIDE DEF w, n, u, t
  <1>10. CASE Len(n) < NameLength
    <2>1. u = U(w, "char", Len(n) + 1) /\ pc' = "name"
      BY <1>1, <1>4, <1>5, <1>10 DEF NameUnit, U
    <2>2. Stream' = Stream
      <3> DEFINE r == <<U(w, "REGISTER", 0)>>
      <3>1. r \in Seq(Unit) /\ <<u>> \in Seq(Unit)
        BY <1>4, <1>5, UnitType DEF Type
      <3>2. Append(n, u) = n \o <<u>>
        BY <1>4, <1>5, AppendIsConcat
      <3>3. queue = <<u>> \o t
        <4>1. SubSeq(queue, 1, Len(queue)) = <<queue[1]>> \o SubSeq(queue, 1 + 1, Len(queue))
          <5>1. 1 \in 1 .. Len(queue) /\ Len(queue) \in 1 .. Len(queue)
            BY <1>4
          <5> QED  BY <1>2, <5>1, SubSeqRecursiveFirst
        <4>2. SubSeq(queue, 1, Len(queue)) = queue
          BY <1>2, SubSeqFull
        <4> QED  BY <1>1, <4>1, <4>2 DEF Took, t, u
      <3>4. Stream = (r \o n) \o queue
        BY <1>1 DEF Stream, Taken, w, n
      <3>5. Stream' = (r \o Append(n, u)) \o t
        BY <1>9, <2>1 DEF Stream, Taken, t
      <3>6. r \o (n \o <<u>>) = (r \o n) \o <<u>> /\ r \o n \in Seq(Unit)
        BY <1>4, <3>1, ConcatAssociative, ConcatProperties
      <3> HIDE DEF r
      <3>7. ((r \o n) \o <<u>>) \o t = (r \o n) \o (<<u>> \o t)
        BY <1>6, <3>1, <3>6, ConcatAssociative
      <3> QED  BY <3>2, <3>3, <3>4, <3>5, <3>6, <3>7
    <2>3. LastInv(Stream)'
      BY <1>1, <2>2 DEF InStep, LastInv, MidMessage
    <2>4. Chained(Stream)' /\ Ordered(Stream)'
      BY <2>2 DEF InStep, Chained, Ordered
    <2>5. \A c \in Client : ClientInv(Stream, c)'
      <3> TAKE c \in Client
      <3>1. ClientInv(Stream, c)
        BY DEF InStep
      <3>2. c # w => name'[c] = name[c]
        BY <1>7
      <3>3. Holds(Stream, w, "REGISTER")
        <4>1. 1 \in 1 .. Len(Stream) /\ Stream[1] = U(w, "REGISTER", 0)
          <5>1. 1 \in 1 .. Len(Taken) /\ Len(Taken) \in Nat
            BY <1>4
          <5>2. Len(Stream) = Len(Taken) + Len(queue) /\ \A i \in 1 .. Len(Taken) : Stream[i] = Taken[i]
            BY PipeSuffix
          <5>3. 1 \in 1 .. Len(Stream)
            BY <1>4, <5>1, <5>2
          <5> QED  BY <1>4, <5>1, <5>2, <5>3
        <4> QED  BY <4>1 DEF Holds, U
      <3> QED  BY <1>1, <2>2, <3>1, <3>2, <3>3 DEF ClientInv
    <2>6. NameInv'
      <3>1. Len(name'[w]) <= NameLength
        BY <1>4, <1>8, <1>9, <1>10
      <3>2. \A i \in 1 .. Len(name'[w]) : name'[w][i] = U(w, "char", i)
        <4>1. \A i \in 1 .. (Len(n) + 1) : i \in 1 .. Len(n) \/ i = Len(n) + 1
          BY <1>4
        <4> QED  BY <1>4, <1>8, <1>9, <2>1, <4>1
      <3> QED  BY <1>9, <3>1, <3>2 DEF NameInv
    <2>7. FirstInv(Stream)' /\ FramesInv' /\ WindowType'
      BY <1>1, <1>4, <1>6, <1>9, <2>1 DEF t, InStep, FirstInv, FramesInv, WindowType
    <2> QED  BY <2>3, <2>4, <2>5, <2>6, <2>7 DEF InStep
  <1>11. CASE Len(n) = NameLength
    <2> DEFINE k == Len(n) + 2
    <2>1. u = U(w, "NUL", 0) /\ pc' = "draw"
      BY <1>1, <1>4, <1>5, <1>11 DEF NameUnit, U
    <2>2. Stream' = t
      BY <1>6, <2>1, AtRest DEF t
    <2>3. /\ Len(Stream) = Len(Taken) + Len(queue)
          /\ \A i \in 1 .. Len(Taken) : Stream[i] = Taken[i]
          /\ \A i \in 1 .. Len(queue) : Stream[Len(Taken) + i] = queue[i]
      BY PipeSuffix
    <2>4. k \in Nat \ {0} /\ Suffix(t, Stream, k)
      <3>1. Len(t) \in Nat
        BY <1>6, LenProperties
      <3>2. Len(Stream) = Len(t) + k /\ k \in Nat \ {0}
        BY <1>4, <1>6, <2>3, <3>1
      <3>3. \A i \in 1 .. Len(t) : i + 1 \in 1 .. Len(queue) /\ Len(Taken) + (i + 1) = i + k
        BY <1>4, <1>6, <3>1
      <3> QED  BY <1>6, <2>3, <3>2, <3>3 DEF Suffix
    <2>5. Stream[1] = U(w, "REGISTER", 0)
      <3>1. 1 \in 1 .. Len(Taken)
        BY <1>4
      <3> QED  BY <1>4, <2>3, <3>1
    <2>6. Stream[k] = u /\ Ends(Stream[k])
      <3>1. 1 \in 1 .. Len(queue) /\ Len(Taken) + 1 = k
        BY <1>4
      <3>2. Stream[k] = u
        BY <2>3, <3>1 DEF u
      <3> QED  BY <2>1, <3>2 DEF Ends, U
    <2>7. \A i \in 2 .. k : Stream[i].field \notin Type
      <3> TAKE i \in 2 .. k
      <3>1. CASE i = k
        BY <2>1, <2>6, <3>1 DEF Type, U
      <3>2. CASE i # k
        <4>1. i - 1 \in 1 .. Len(n) /\ (i - 1) + 1 = i /\ i \in 1 .. Len(Taken)
          BY <1>4, <3>2
        <4>2. Stream[i] = U(w, "char", i - 1)
          <5>1. Taken[(i - 1) + 1] = U(w, "char", i - 1)
            BY <1>4, <4>1
          <5> QED  BY <2>3, <4>1, <5>1
        <4> QED  BY <4>2 DEF Type, U
      <3> QED  BY <3>1, <3>2
    <2> HIDE DEF k
    <2>8. /\ Chained(t) /\ Ordered(t) /\ LastInv(t)
          /\ t = << >> \/ (t[1].field = "pid" /\ t[1].value = 0)
          /\ \A c, ty : Holds(t, c, ty) => Holds(Stream, c, ty)
          /\ \A c : \A ty \in Type : Holds(Stream, c, ty) => Holds(t, c, ty) \/ (c = w /\ ty = "REGISTER")
          /\ \A ty \in Type : Holds(t, w, ty) => Before("REGISTER", ty)
      <3>1. "REGISTER" \in Type
        BY DEF Type
      <3> QED  BY <1>4, <1>6, <2>4, <2>5, <2>6, <2>7, <3>1, Finish
    <2>9. name'[w] = Name(w)
      <3>1. /\ Name(w) \in Seq(Unit) /\ Len(Name(w)) = NameLength + 1
            /\ \A i \in 1 .. (NameLength + 1) : Name(w)[i] = NameUnit(w, i)
        BY <1>4, NameShape
      <3>2. \A i \in 1 .. (NameLength + 1) : Append(n, u)[i] = NameUnit(w, i)
        <4>1. \A i \in 1 .. (NameLength + 1) : (i \in 1 .. Len(n) /\ i <= NameLength) \/ i = Len(n) + 1
          BY <1>4, <1>11
        <4> QED  BY <1>4, <1>8, <4>1 DEF NameUnit
      <3>3. Len(Append(n, u)) = Len(Name(w)) /\ \A i \in 1 .. Len(Append(n, u)) : Append(n, u)[i] = Name(w)[i]
        BY <1>8, <1>11, <3>1, <3>2
      <3> QED  BY <1>8, <1>9, <3>1, <3>3, SeqEqual
    <2>10. \A c \in Client : ClientInv(Stream, c)'
      <3> TAKE c \in Client
      <3>1. ClientInv(Stream, c)
        BY DEF InStep
      <3>2. c # w => name'[c] = name[c]
        BY <1>7
      <3>3. {"REGISTER", "SET_SIZE", "FRAMEBUFFER_DATA"} = Type
        BY DEF Type
      <3> QED  BY <1>1, <2>2, <2>8, <2>9, <3>1, <3>2, <3>3 DEF ClientInv
    <2>11. LastInv(Stream)'
      BY <1>1, <2>2, <2>8 DEF LastInv, MidMessage
    <2>12. FirstInv(Stream)' /\ NameInv' /\ FramesInv' /\ WindowType'
      BY <1>1, <1>6, <1>9, <2>1, <2>2, <2>8 DEF t, InStep, FirstInv, NameInv, FramesInv, WindowType
    <2> QED  BY <2>2, <2>8, <2>10, <2>11, <2>12 DEF InStep
  <1> QED  BY <1>4, <1>10, <1>11

LEMMA ReadSizeStep ==
    ASSUME InStep, read_size, Undisturbed'
    PROVE  InStep'
PROOF
  <1> DEFINE w == Window
             t == queue'
             a == Area(w)
             junk == [i \in 1 .. a |-> U(w, "junk", 0)]
  <1>1. /\ pc = "size" /\ Enough(2) /\ set_size' = SubSeq(queue, 1, 2) /\ Took(2)
        /\ UNCHANGED <<step, colour, preamble, name, dirty, shown>>
    BY DEF read_size, Early, Undisturbed, clients
  <1>2. queue \in Seq(Unit) /\ Taken \in Seq(Unit) /\ Stream \in Seq(Unit) /\ WindowType /\ Chained(Stream)
    BY StreamType DEF InStep
  <1>3. w \in Client /\ a \in Nat /\ a >= 1
    BY <1>1, AreaType DEF InStep, FirstInv
  <1>4. Len(Taken) = 1 /\ Taken[1] = U(w, "SET_SIZE", 0)
    <2>1. U(w, "SET_SIZE", 0) \in Unit
      BY <1>3, UnitType DEF Type
    <2> QED  BY <1>1, <2>1 DEF Taken
  <1>5. /\ t \in Seq(Unit) /\ Len(queue) = Len(t) + 2 /\ Len(queue) \in Nat /\ Len(queue) >= 2
        /\ \A i \in 1 .. Len(t) : t[i] = queue[i + 2]
        /\ set_size' \in Seq(Unit) /\ Len(set_size') = 2
        /\ set_size'[1] = queue[1] /\ set_size'[2] = queue[2]
    <2>1. Len(queue) \in Nat /\ 2 <= Len(queue)
      BY <1>1, <1>2, LenProperties DEF Enough
    <2>2. /\ t \in Seq(Unit) /\ Len(queue) = Len(t) + 2
          /\ \A i \in 1 .. Len(t) : t[i] = queue[i + 2]
          /\ set_size' \in Seq(Unit) /\ Len(set_size') = 2
          /\ \A i \in 1 .. 2 : set_size'[i] = queue[i]
      BY <1>1, <1>2, <2>1, Parted DEF Took
    <2> QED  BY <2>1, <2>2
  <1>6. /\ Len(Stream) = 1 + Len(queue) /\ Stream[1] = U(w, "SET_SIZE", 0)
        /\ \A i \in 1 .. Len(queue) : Stream[1 + i] = queue[i]
    <2>1. /\ Len(Stream) = Len(Taken) + Len(queue)
          /\ \A i \in 1 .. Len(Taken) : Stream[i] = Taken[i]
          /\ \A i \in 1 .. Len(queue) : Stream[Len(Taken) + i] = queue[i]
      BY PipeSuffix
    <2> QED  BY <1>4, <2>1
  <1>7. Stream[2] = U(w, "height", Height[w]) /\ Stream[3] = U(w, "width", Width[w])
    <2>1. Follows(Stream[1], Stream[2]) /\ Follows(Stream[2], Stream[3])
      <3>1. 1 \in 1 .. Len(Stream) /\ 2 \in 1 .. Len(Stream) /\ 3 \in 1 .. Len(Stream) /\ 2 = 1 + 1 /\ 3 = 2 + 1
        BY <1>5, <1>6
      <3> QED  BY <1>2, <3>1 DEF Chained
    <2>2. Stream[2] = U(w, "height", Height[w])
      BY <1>6, <2>1 DEF Follows, U
    <2> QED  BY <2>1, <2>2 DEF Follows, U
  <1>8. queue[1] = Stream[2] /\ queue[2] = Stream[3]
    <2>1. 1 \in 1 .. Len(queue) /\ 2 \in 1 .. Len(queue) /\ 1 + 1 = 2 /\ 1 + 2 = 3
      BY <1>5
    <2> QED  BY <1>6, <2>1
  <1>9. IsSize(set_size') /\ set_size'[1].value * set_size'[2].value = a
    <2>1. Len(<< >>) = 0
      BY EmptySeq
    <2>2. set_size' # << >>
      BY <1>5, <2>1
    <2>3. set_size'[1].value = Height[w] /\ set_size'[2].value = Width[w]
      BY <1>5, <1>7, <1>8 DEF U
    <2>4. IsSize(set_size')
      BY <1>5, <1>7, <1>8, <2>2 DEF IsSize, U
    <2> QED  BY <2>3, <2>4, Zenon DEF Area
  <1>10. /\ size' = [size EXCEPT ![w] = a] /\ fd' = [fd EXCEPT ![w] = junk] /\ pc' = "draw"
    BY <1>9 DEF read_size
  <1>11. junk \in Seq(Unit) /\ \A i \in DOMAIN junk : junk[i].field = "junk"
    <2>1. U(w, "junk", 0) \in Unit /\ U(w, "junk", 0).field = "junk"
      BY <1>3, UnitType
    <2> QED  BY <1>3, <2>1
  <1> HIDE DEF w, t, a, junk
  <1>12. Stream' = t
    BY <1>5, <1>10, AtRest DEF t
  <1>13. Suffix(t, Stream, 3)
    <2>1. Len(t) \in Nat
      BY <1>5, LenProperties
    <2>2. \A i \in 1 .. Len(t) : i + 2 \in 1 .. Len(queue) /\ 1 + (i + 2) = i + 3
      BY <1>5, <2>1
    <2>3. \A i \in 1 .. Len(t) : t[i] = Stream[i + 3]
      <3> TAKE i \in 1 .. Len(t)
      <3>1. Stream[1 + (i + 2)] = queue[i + 2] /\ t[i] = queue[i + 2]
        BY <1>5, <1>6, <2>2
      <3> QED  BY <2>2, <3>1
    <2>4. Len(Stream) = Len(t) + 3
      BY <1>5, <1>6, <2>1
    <2> QED  BY <2>3, <2>4 DEF Suffix
  <1>14. Ends(Stream[3]) /\ \A i \in 2 .. 3 : Stream[i].field \notin Type
    <2>1. \A i \in 2 .. 3 : i = 2 \/ i = 3
      OBVIOUS
    <2> QED  BY <1>7, <2>1 DEF Ends, U, Type
  <1>15. /\ Chained(t) /\ Ordered(t) /\ LastInv(t)
         /\ t = << >> \/ (t[1].field = "pid" /\ t[1].value = 0)
         /\ \A c, ty : Holds(t, c, ty) => Holds(Stream, c, ty)
         /\ \A c : \A ty \in Type : Holds(Stream, c, ty) => Holds(t, c, ty) \/ (c = w /\ ty = "SET_SIZE")
         /\ \A ty \in Type : Holds(t, w, ty) => Before("SET_SIZE", ty)
    <2>1. "SET_SIZE" \in Type /\ 3 \in Nat \ {0}
      BY DEF Type
    <2> QED  BY <1>3, <1>5, <1>6, <1>13, <1>14, <2>1, Finish
  <1>16. size \in [Client -> Nat] /\ fd \in [Client -> Seq(Unit)]
    BY <1>2 DEF WindowType
  <1>17. \A c \in Client : ClientInv(Stream, c)'
    <2> TAKE c \in Client
    <2>1. ClientInv(Stream, c)
      BY DEF InStep
    <2>2. c # w => size'[c] = size[c]
      BY <1>10, <1>16
    <2>3. c = w => size'[c] = Area(c)
      BY <1>3, <1>10, <1>16 DEF a
    <2>4. {"REGISTER", "SET_SIZE", "FRAMEBUFFER_DATA"} = Type
      BY DEF Type
    <2>5. ~Holds(t, w, "REGISTER") /\ ~Holds(t, w, "SET_SIZE")
      BY <1>15, <2>4 DEF Before
    <2>6. Holds(Stream, w, "SET_SIZE")
      <3>1. 1 \in 1 .. Len(Stream)
        BY <1>5, <1>6
      <3> QED  BY <1>6, <3>1 DEF Holds, U
    <2> QED  BY <1>1, <1>12, <1>15, <2>1, <2>2, <2>3, <2>4, <2>5, <2>6 DEF ClientInv
  <1>18. LastInv(Stream)'
    BY <1>1, <1>12, <1>15 DEF LastInv, MidMessage
  <1>19. FirstInv(Stream)' /\ NameInv'
    BY <1>10, <1>12, <1>15 DEF FirstInv, NameInv
  <1>20. FramesInv'
    <2> SUFFICES ASSUME NEW c \in Client
                 PROVE  Whole(c, fd'[c]) /\ Whole(c, shown'[c])
      BY DEF FramesInv
    <2>1. Whole(c, fd[c]) /\ Whole(c, shown[c])
      BY DEF InStep, FramesInv
    <2>2. fd'[c] = fd[c] \/ fd'[c] = junk
      BY <1>10, <1>16
    <2> QED  BY <1>1, <1>11, <2>1, <2>2 DEF Whole
  <1>21. WindowType'
    <2>1. size' \in [Client -> Nat] /\ fd' \in [Client -> Seq(Unit)]
      BY <1>3, <1>10, <1>11, <1>16
    <2> QED  BY <1>1, <1>2, <1>5, <1>10, <2>1 DEF t, WindowType
  <1> QED  BY <1>12, <1>15, <1>17, <1>18, <1>19, <1>20, <1>21 DEF InStep

\* The pixels of a frame that the shell is at are one frame of one colour.
LEMMA FrameInPipe ==
    ASSUME InStep, pc = "frame", Len(queue) >= Area(Window)
    PROVE  \E k \in {0, 1} : \A i \in 1 .. Area(Window) : queue[i] = U(Window, "pixel", 2 * i + k)
PROOF
  <1> DEFINE w == Window
             a == Area(w)
  <1>1. /\ queue \in Seq(Unit) /\ Taken \in Seq(Unit) /\ Stream \in Seq(Unit) /\ Chained(Stream)
    BY StreamType DEF InStep
  <1>2. w \in Client /\ a \in Nat /\ a >= 1 /\ Len(queue) >= a
    BY AreaType DEF InStep, FirstInv
  <1>3. Len(Taken) = 1 /\ Taken[1] = U(w, "FRAMEBUFFER_DATA", 0)
    <2>1. U(w, "FRAMEBUFFER_DATA", 0) \in Unit
      BY <1>2, UnitType DEF Type
    <2> QED  BY <2>1 DEF Taken
  <1>4. /\ Len(queue) \in Nat /\ Len(Stream) = 1 + Len(queue) /\ Stream[1] = U(w, "FRAMEBUFFER_DATA", 0)
        /\ \A i \in 1 .. Len(queue) : Stream[1 + i] = queue[i]
    <2>1. /\ Len(queue) \in Nat /\ Len(Stream) = Len(Taken) + Len(queue)
          /\ \A i \in 1 .. Len(Taken) : Stream[i] = Taken[i]
          /\ \A i \in 1 .. Len(queue) : Stream[Len(Taken) + i] = queue[i]
      BY PipeSuffix
    <2> QED  BY <1>3, <2>1
  <1> HIDE DEF w, a
  <1>5. \A i \in 1 .. Len(queue) : i + 1 \in 1 .. Len(queue) => Follows(queue[i], queue[i + 1])
    <2> SUFFICES ASSUME NEW i \in 1 .. Len(queue), i + 1 \in 1 .. Len(queue)
                 PROVE  Follows(queue[i], queue[i + 1])
      OBVIOUS
    <2>1. 1 + i \in 1 .. Len(Stream) /\ 1 + (i + 1) \in 1 .. Len(Stream) /\ 1 + (i + 1) = (1 + i) + 1
      BY <1>4
    <2>2. Stream[1 + i] = queue[i] /\ Stream[1 + (i + 1)] = queue[i + 1]
      BY <1>4
    <2> QED  BY <1>1, <2>1, <2>2 DEF Chained
  <1>6. PICK k \in {0, 1} : queue[1] = U(w, "pixel", 2 + k)
    <2>1. 1 \in 1 .. Len(Stream) /\ 2 \in 1 .. Len(Stream) /\ 2 = 1 + 1 /\ 1 \in 1 .. Len(queue)
      BY <1>2, <1>4
    <2>2. Follows(Stream[1], Stream[2]) /\ Stream[2] = queue[1]
      BY <1>1, <1>4, <2>1 DEF Chained
    <2> QED  BY <1>4, <2>2 DEF Follows, U
  <1> DEFINE Pixel(i) == U(w, "pixel", 2 * i + k)
             Wrong == {i \in 1 .. a : queue[i] # Pixel(i)}
  <1>7. ASSUME Wrong # {} PROVE FALSE
    <2>1. Wrong \subseteq Nat
      BY <1>2
    <2>2. PICK b \in Wrong : \A i \in Wrong : b <= i
      BY <1>7, <2>1, LeastExists
    <2>3. b \in 1 .. a /\ queue[b] # Pixel(b)
      BY <2>2
    <2>4. b # 1
      <3>1. 2 * 1 + k = 2 + k
        OBVIOUS
      <3> QED  BY <1>6, <2>3, <3>1
    <2> DEFINE v == 2 * (b - 1) + k
    <2>5. b - 1 \in 1 .. a /\ ~(b <= b - 1) /\ v < 2 * a /\ v + 2 = 2 * b + k
          /\ b - 1 \in 1 .. Len(queue) /\ (b - 1) + 1 = b /\ b \in 1 .. Len(queue)
      BY <1>2, <1>4, <2>3, <2>4
    <2>6. queue[b - 1] = U(w, "pixel", v)
      BY <2>2, <2>5
    <2>7. Follows(queue[b - 1], queue[b])
      BY <1>5, <2>5
    <2> HIDE DEF v
    <2>8. queue[b] = U(w, "pixel", v + 2)
      BY <2>5, <2>6, <2>7 DEF Follows, U, a
    <2> QED  BY <2>3, <2>5, <2>8
  <1>8. \A i \in 1 .. a : queue[i] = U(w, "pixel", 2 * i + k)
    BY <1>7
  <1> QED  BY <1>8 DEF w, a

LEMMA ReadFrameStep ==
    ASSUME InStep, read_frame, Undisturbed'
    PROVE  InStep'
PROOF
  <1> DEFINE w == Window
             t == queue'
             a == Area(w)
  <1>1. pc = "frame" /\ UNCHANGED <<step, colour, preamble, name, size, shown>>
    BY DEF read_frame, clients, buffers
  <1>2. queue \in Seq(Unit) /\ Taken \in Seq(Unit) /\ Stream \in Seq(Unit) /\ WindowType /\ Chained(Stream) /\ Ordered(Stream)
    BY StreamType DEF InStep
  <1>3. w \in Client /\ a \in Nat /\ a >= 1
    BY <1>1, AreaType DEF InStep, FirstInv
  <1>4. Len(Taken) = 1 /\ Taken[1] = U(w, "FRAMEBUFFER_DATA", 0)
    <2>1. U(w, "FRAMEBUFFER_DATA", 0) \in Unit
      BY <1>3, UnitType DEF Type
    <2> QED  BY <1>1, <2>1 DEF Taken
  <1>5. /\ Len(queue) \in Nat /\ Len(Stream) = 1 + Len(queue) /\ Stream[1] = U(w, "FRAMEBUFFER_DATA", 0)
        /\ \A i \in 1 .. Len(queue) : Stream[1 + i] = queue[i]
    <2>1. /\ Len(queue) \in Nat /\ Len(Stream) = Len(Taken) + Len(queue)
          /\ \A i \in 1 .. Len(Taken) : Stream[i] = Taken[i]
          /\ \A i \in 1 .. Len(queue) : Stream[Len(Taken) + i] = queue[i]
      BY PipeSuffix
    <2> QED  BY <1>4, <2>1
  <1>6. size[w] = a
    <2>1. 1 \in 1 .. Len(Stream)
      BY <1>5
    <2>2. Holds(Stream, w, "FRAMEBUFFER_DATA")
      BY <1>5, <2>1 DEF Holds, U
    <2>3. ~Holds(Stream, w, "SET_SIZE")
      <3> SUFFICES ASSUME NEW i \in 1 .. Len(Stream), Stream[i].pid = w, Stream[i].field = "SET_SIZE"
                   PROVE  FALSE
        BY DEF Holds
      <3>1. i # 1 /\ Stream[1].pid = w /\ Stream[1].field = "FRAMEBUFFER_DATA"
        BY <1>5 DEF U
      <3>2. 1 < i
        BY <1>5, <3>1
      <3> QED  BY <1>2, <2>1, <3>1, <3>2 DEF Ordered, Before, Type
    <2>4. ClientInv(Stream, w)
      BY <1>3 DEF InStep
    <2> QED  BY <2>2, <2>3, <2>4 DEF ClientInv
  <1>7. /\ Len(queue) >= a /\ t = SubSeq(queue, a + 1, Len(queue))
        /\ fd' = [fd EXCEPT ![w] = SubSeq(queue, 1, a)]
        /\ dirty' = [dirty EXCEPT ![w] = TRUE] /\ pc' = "draw"
    <2>1. size[w] # 0
      BY <1>3, <1>6
    <2> QED  BY <1>6, <2>1 DEF read_frame, FrameUnits, Enough, Took, Early, Undisturbed
  <1>8. /\ t \in Seq(Unit) /\ Len(queue) = Len(t) + a
        /\ \A i \in 1 .. Len(t) : t[i] = queue[i + a]
        /\ SubSeq(queue, 1, a) \in Seq(Unit) /\ Len(SubSeq(queue, 1, a)) = a
        /\ \A i \in 1 .. a : SubSeq(queue, 1, a)[i] = queue[i]
    <2>1. a \in Nat \ {0} /\ a <= Len(queue)
      BY <1>3, <1>5, <1>7
    <2> HIDE DEF a
    <2> QED  BY <1>2, <1>7, <2>1, Parted
  <1>9. PICK k \in {0, 1} : \A i \in 1 .. a : queue[i] = U(w, "pixel", 2 * i + k)
    BY <1>1, <1>7, FrameInPipe
  <1>10. SubSeq(queue, 1, a) = Pixels(w, k)
    <2>1. /\ Pixels(w, k) \in Seq(Unit) /\ Len(Pixels(w, k)) = a
          /\ \A i \in 1 .. a : Pixels(w, k)[i] = U(w, "pixel", 2 * i + k)
      BY <1>3, PixelsShape
    <2>2. \A i \in 1 .. a : SubSeq(queue, 1, a)[i] = Pixels(w, k)[i]
      BY <1>8, <1>9, <2>1
    <2> HIDE DEF a
    <2> QED  BY <1>8, <2>1, <2>2, SeqEqual
  <1> HIDE DEF w, t, a
  <1>11. Stream' = t
    BY <1>7, <1>8, AtRest DEF t
  <1> DEFINE m == a + 1
  <1>12. m \in Nat \ {0} /\ Suffix(t, Stream, m)
    <2>1. Len(t) \in Nat /\ m \in Nat \ {0}
      BY <1>3, <1>8, LenProperties
    <2>2. \A i \in 1 .. Len(t) : i + a \in 1 .. Len(queue) /\ 1 + (i + a) = i + m
      BY <1>3, <1>8, <2>1
    <2>3. \A i \in 1 .. Len(t) : t[i] = Stream[i + m]
      <3> TAKE i \in 1 .. Len(t)
      <3>1. Stream[1 + (i + a)] = queue[i + a] /\ t[i] = queue[i + a]
        BY <1>5, <1>8, <2>2
      <3> QED  BY <2>2, <3>1
    <2>4. Len(Stream) = Len(t) + m
      BY <1>3, <1>5, <1>8, <2>1
    <2> HIDE DEF m
    <2> QED  BY <2>1, <2>3, <2>4 DEF Suffix
  <1>13. \A i \in 2 .. m : Stream[i] = U(w, "pixel", 2 * (i - 1) + k)
    <2> TAKE i \in 2 .. m
    <2>1. i - 1 \in 1 .. a /\ i - 1 \in 1 .. Len(queue) /\ 1 + (i - 1) = i
      BY <1>3, <1>5, <1>7
    <2> QED  BY <1>5, <1>9, <2>1
  <1>14. Ends(Stream[m]) /\ \A i \in 2 .. m : Stream[i].field \notin Type
    <2>1. m \in 2 .. m /\ 2 * (m - 1) + k >= 2 * a
      BY <1>3
    <2>2. Stream[m] = U(w, "pixel", 2 * (m - 1) + k)
      BY <1>13, <2>1
    <2>3. Ends(Stream[m])
      BY <2>1, <2>2 DEF Ends, U, a
    <2>4. \A i \in 2 .. m : Stream[i].field = "pixel"
      <3> TAKE i \in 2 .. m
      <3> DEFINE v == 2 * (i - 1) + k
      <3>1. Stream[i] = U(w, "pixel", v)
        BY <1>13
      <3> HIDE DEF v
      <3> QED  BY <3>1 DEF U
    <2> QED  BY <2>3, <2>4 DEF Type
  <1> HIDE DEF m
  <1>15. /\ Chained(t) /\ Ordered(t) /\ LastInv(t)
         /\ t = << >> \/ (t[1].field = "pid" /\ t[1].value = 0)
         /\ \A c, ty : Holds(t, c, ty) => Holds(Stream, c, ty)
         /\ \A c : \A ty \in Type : Holds(Stream, c, ty) => Holds(t, c, ty) \/ (c = w /\ ty = "FRAMEBUFFER_DATA")
    <2>1. "FRAMEBUFFER_DATA" \in Type
      BY DEF Type
    <2> QED  BY <1>3, <1>5, <1>8, <1>12, <1>14, <2>1, Finish
  <1>16. \A c \in Client : ClientInv(Stream, c)'
    <2> TAKE c \in Client
    <2>1. ClientInv(Stream, c)
      BY DEF InStep
    <2>2. {"REGISTER", "SET_SIZE", "FRAMEBUFFER_DATA"} = Type
      BY DEF Type
    <2> QED  BY <1>1, <1>11, <1>15, <2>1, <2>2 DEF ClientInv
  <1>17. LastInv(Stream)'
    BY <1>1, <1>11, <1>15 DEF LastInv, MidMessage
  <1>18. FirstInv(Stream)' /\ NameInv'
    BY <1>7, <1>11, <1>15 DEF FirstInv, NameInv
  <1>19. FramesInv'
    <2> SUFFICES ASSUME NEW c \in Client
                 PROVE  Whole(c, fd'[c]) /\ Whole(c, shown'[c])
      BY DEF FramesInv
    <2>1. Whole(c, fd[c]) /\ Whole(c, shown[c])
      BY DEF InStep, FramesInv
    <2>2. fd'[c] = fd[c] \/ (c = w /\ fd'[c] = Pixels(w, k))
      BY <1>2, <1>7, <1>10 DEF WindowType
    <2> QED  BY <1>1, <2>1, <2>2 DEF Whole
  <1>20. WindowType'
    <2>1. fd' \in [Client -> Seq(Unit)]
      BY <1>2, <1>7, <1>8 DEF WindowType
    <2>2. dirty' \in [Client -> BOOLEAN]
      BY <1>2, <1>7 DEF WindowType
    <2> QED  BY <1>1, <1>2, <1>7, <1>8, <2>1, <2>2 DEF t, WindowType
  <1> QED  BY <1>11, <1>15, <1>16, <1>17, <1>18, <1>19, <1>20 DEF InStep

----------------------------------------------------------------------------
\* The theorems.

LEMMA StartsInStep == WindowInit => IInv
PROOF
  <1> SUFFICES ASSUME WindowInit PROVE InStep
    BY DEF IInv
  <1>1. /\ queue = << >> /\ step = [c \in Client |-> "register"] /\ colour = [c \in Client |-> 0]
        /\ pc = "poll" /\ name = [c \in Client |-> << >>] /\ size = [c \in Client |-> 0]
        /\ fd = [c \in Client |-> << >>] /\ shown = [c \in Client |-> << >>]
        /\ dirty \in [Client -> BOOLEAN]
    BY DEF WindowInit
  <1>2. << >> \in Seq(Unit) /\ Len(<< >>) = 0
    BY EmptySeq
  <1>3. Stream = << >>
    BY <1>1, <1>2, ConcatEmptySeq DEF Stream, Taken
  <1>4. Chained(Stream) /\ Ordered(Stream) /\ \A c, ty : ~Holds(Stream, c, ty)
    <2>1. \A i \in 1 .. Len(Stream) : FALSE
      BY <1>2, <1>3
    <2> QED  BY <2>1 DEF Chained, Ordered, Holds
  <1>5. LastInv(Stream) /\ FirstInv(Stream) /\ NameInv
    BY <1>1, <1>3 DEF LastInv, FirstInv, NameInv, MidMessage
  <1>6. \A c \in Client : ClientInv(Stream, c)
    BY <1>1, <1>4 DEF ClientInv
  <1>7. FramesInv
    <2>1. DOMAIN << >> = {}
      OBVIOUS
    <2> QED  BY <1>1, <2>1 DEF FramesInv, Whole
  <1>8. WindowType
    BY <1>1, <1>2 DEF WindowType
  <1> QED  BY <1>3, <1>4, <1>5, <1>6, <1>7, <1>8 DEF InStep

\* What has been disturbed stays so.
LEMMA DisturbedStays == [WindowNext]_window_vars => (Undisturbed' => Undisturbed)
PROOF
  <1> SUFFICES ASSUME [WindowNext]_window_vars, Undisturbed' PROVE Undisturbed
    OBVIOUS
  <1>1. ASSUME NEW c \in Client, write(c) PROVE Undisturbed
    BY <1>1 DEF write, Undisturbed
  <1>2. ASSUME Shell PROVE Undisturbed
    BY <1>2 DEF Shell, poll, read_preamble, read_char, read_size, read_frame, draw, Early, histories, Undisturbed
  <1>3. ASSUME UNCHANGED window_vars PROVE Undisturbed
    BY <1>3 DEF window_vars, histories, Undisturbed
  <1> QED  BY <1>1, <1>2, <1>3 DEF WindowNext, Lost

LEMMA WindowStep == IInv /\ [WindowNext]_window_vars => IInv'
PROOF
  <1> SUFFICES ASSUME IInv, [WindowNext]_window_vars, Undisturbed' PROVE InStep'
    BY DEF IInv
  <1>1. InStep
    BY DisturbedStays DEF IInv
  <1>2. ASSUME NEW c \in Client, write(c) PROVE InStep'
    BY <1>1, <1>2, WriteStep
  <1>3. CASE poll
    BY <1>1, <1>3, PollStep
  <1>4. CASE read_preamble
    BY <1>1, <1>4, ReadPreambleStep
  <1>5. CASE read_char
    BY <1>1, <1>5, ReadCharStep
  <1>6. CASE read_size
    BY <1>1, <1>6, ReadSizeStep
  <1>7. CASE read_frame
    BY <1>1, <1>7, ReadFrameStep
  <1>8. CASE draw
    BY <1>1, <1>8, DrawStep
  <1>9. CASE UNCHANGED window_vars
    <2>1. UNCHANGED <<queue, step, colour, pc, preamble, name, size, fd, dirty, shown>>
      BY <1>9 DEF window_vars, clients, buffers, windows
    <2>2. Stream' = Stream /\ Taken' = Taken /\ Window' = Window
      BY <2>1 DEF Stream, Taken, Window
    <2> QED  BY <1>1, <2>1, <2>2 DEF InStep, WindowType, Chained, Ordered, LastInv, FirstInv, ClientInv,
                                      NameInv, FramesInv, MidMessage
  <1> QED  BY <1>2, <1>3, <1>4, <1>5, <1>6, <1>7, <1>8, <1>9 DEF WindowNext, Shell, Lost

\* While nothing disturbs them, the shell and its clients are in step: the
\* stream is a chain of messages from the place of the shell on, each client's
\* in their order: every read of the shell (shell.cpp:116-143) finds what a write
\* of a client (wintest.cpp:30-55) put there.
THEOREM WindowInductive == WindowSpec => []IInv
PROOF
  BY StartsInStep, WindowStep, PTL DEF WindowSpec

\* The shell never loses the boundaries of the messages (shell.cpp:111-144),
\* for any clients, sizes of windows, length of names and capacity of the pipe,
\* unless it reads a message before it is complete, a client writes into a
\* message of another, or the pipe runs over.
THEOREM WindowSyncKept == WindowSpec => []SyncKept
PROOF
  <1>1. IInv => SyncKept
    BY DEF IInv, InStep, WindowType, SyncKept
  <1> QED  BY <1>1, WindowInductive, PTL

\* Until then the screen shows whole frames of a window's own client: the read
\* of a frame (shell.cpp:143) takes exactly the pixels of one write.
THEOREM WindowShownWhole == WindowSpec => []ShownWhole
PROOF
  <1>1. IInv => ShownWhole
    BY DEF IInv, InStep, FramesInv, Whole, ShownWhole
  <1> QED  BY <1>1, WindowInductive, PTL

\* Until then a window that has a size has the name of its client, whole: the
\* loop over characters (shell.cpp:124-129) ends where the name ends, and no
\* later registration empties it.
THEOREM WindowNamesWhole == WindowSpec => []NamesWhole
PROOF
  <1>1. IInv => NamesWhole
    BY DEF IInv, InStep, ClientInv, NamesWhole
  <1> QED  BY <1>1, WindowInductive, PTL
=============================================================================
