------------------------- MODULE HeaderFieldsProofs -------------------------
(***************************************************************************)
(* Theorems about HeaderFields, for every byte that packets and assigned   *)
(* values may be made of and every number of assignments.                  *)
(***************************************************************************)
EXTENDS HeaderFields, TLAPS

USE HeaderFieldsAssumption

(* What the proofs need of an accessor: no byte has more than eight bits.  *)
Widths == {<<8>>, <<4>>, <<8, 8>>, <<8, 8, 8, 8>>, <<1, 0>>, <<5, 8>>,
           <<8, 0, 0, 0>>, <<8, 8, 4, 0>>, <<4, 0>>, <<2, 0>>}

Narrow(keep) ==
  /\ Len(keep) \in Nat
  /\ \A i \in 1 .. Len(keep) : keep[i] \in 0 .. 8

LEMMA WidthsNarrow == \A keep \in Widths : Narrow(keep)
<1>1. Narrow(<<8>>) /\ Narrow(<<4>>)
  BY DEF Narrow
<1>2. /\ Narrow(<<8, 8>>) /\ Narrow(<<1, 0>>) /\ Narrow(<<5, 8>>)
      /\ Narrow(<<4, 0>>) /\ Narrow(<<2, 0>>)
  BY DEF Narrow
<1>3. /\ Narrow(<<8, 8, 8, 8>>) /\ Narrow(<<8, 0, 0, 0>>)
      /\ Narrow(<<8, 8, 4, 0>>)
  BY DEF Narrow
<1> QED BY <1>1, <1>2, <1>3 DEF Widths

(* But for Psh a setter swaps if and only if its getter does, and whatever *)
(* has more than one whole byte is swapped.                                *)
Wide == {Word, DWord}
Ordered(a) == a.keep \in Widths /\ (a.keep \in Wide => a.swapGet)
Even(a) == Ordered(a) /\ a.swapGet = a.swapSet

(* What a getter may read as it lies: a byte, or the low bits of one.      *)
BitFields == {<<8>>, <<4>>, Flag}

LEMMA NotWide ==
  ASSUME NEW keep \in BitFields
  PROVE  keep \in Widths \ Wide
<1>1. keep \in Widths
  BY DEF BitFields, Widths, Flag
<1>2. keep # Word /\ keep # DWord
  BY DEF BitFields, Flag, Word, DWord
<1> QED BY <1>1, <1>2 DEF Wide

LEMMA EvenShapes ==
  /\ \A keep \in Widths \ Wide : Even(Plain(keep))
  /\ \A keep \in Widths : Even(Swapped(keep))
  BY DEF Even, Ordered, Plain, Swapped

LEMMA IPEven == \A f \in DOMAIN IPFields : Even(IPFields[f])
<1> USE DEF Word, Flag
<1>1. /\ <<4>> \in Widths /\ <<8>> \in Widths /\ Word \in Widths
      /\ <<5, 8>> \in Widths /\ Flag \in Widths
  BY DEF Widths
<1>2. \A f \in DOMAIN IPFields :
        IPFields[f] \in {Plain(<<4>>), Plain(<<8>>), Swapped(Word),
                         Swapped(<<5, 8>>), Swapped(Flag)}
  BY DEF IPFields
<1> HIDE DEF Word, Flag
<1> QED BY <1>1, <1>2, NotWide, EvenShapes DEF BitFields

LEMMA IPv6Even == \A f \in DOMAIN IPv6Fields : Even(IPv6Fields[f])
<1> USE DEF Word
<1>1. /\ <<4>> \in Widths /\ <<8>> \in Widths /\ Word \in Widths
      /\ <<8, 0, 0, 0>> \in Widths /\ <<8, 8, 4, 0>> \in Widths
  BY DEF Widths
<1>2. \A f \in DOMAIN IPv6Fields :
        IPv6Fields[f] \in {Plain(<<4>>), Plain(<<8>>), Swapped(Word),
                           Swapped(<<8, 0, 0, 0>>), Swapped(<<8, 8, 4, 0>>)}
  BY DEF IPv6Fields
<1> HIDE DEF Word
<1> QED BY <1>1, <1>2, NotWide, EvenShapes DEF BitFields

LEMMA TCPEven ==
  \A f \in DOMAIN TCPFields :
    /\ Ordered(TCPFields[f])
    /\ f # "Psh" => Even(TCPFields[f])
<1>1. /\ Word \in Widths /\ DWord \in Widths /\ <<4, 0>> \in Widths
      /\ <<2, 0>> \in Widths /\ Flag \in Widths
  BY DEF Widths, Word, DWord, Flag
<1>2. \A f \in DOMAIN TCPNumbers : Even(TCPNumbers[f])
  <2>1. \A f \in DOMAIN TCPNumbers :
          TCPNumbers[f] \in {Swapped(Word), Swapped(DWord), Swapped(<<4, 0>>),
                             Swapped(<<2, 0>>)}
    BY DEF TCPNumbers
  <2> QED BY <1>1, <2>1, EvenShapes
<1>3. \A f \in DOMAIN TCPFlags :
        /\ Ordered(TCPFlags[f])
        /\ f # "Psh" => Even(TCPFlags[f])
  BY <1>1, NotWide DEF BitFields, Even, Ordered, TCPFlags
<1> QED BY <1>2, <1>3 DEF TCPFields, Even

LEMMA UDPAndICMPEven ==
  /\ \A f \in DOMAIN UDPFields : Even(UDPFields[f])
  /\ \A f \in DOMAIN ICMPFields : Even(ICMPFields[f])
<1>1. Word \in Widths /\ DWord \in Widths /\ <<8>> \in Widths
  BY DEF Widths, Word, DWord
<1>2. \A f \in DOMAIN UDPFields : UDPFields[f] = Swapped(Word)
  BY DEF UDPFields
<1>3. \A f \in DOMAIN ICMPFields :
        ICMPFields[f] \in {Plain(<<8>>), Swapped(Word), Swapped(DWord)}
  BY DEF ICMPFields
<1> QED BY <1>1, <1>2, <1>3, NotWide, EvenShapes DEF BitFields

LEMMA LayoutEven ==
  ASSUME class \in DOMAIN Fields, NEW f \in DOMAIN Layout
  PROVE  /\ Narrow(Layout[f].keep)
         /\ Ordered(Layout[f])
         /\ (class = "tcp" => f # "Psh") =>
              Layout[f].swapGet = Layout[f].swapSet
<1>1. class \in {"ip", "ipv6", "tcp", "udp", "icmp", "icmpv6"}
  BY DEF Fields
<1>2. CASE class = "tcp"
  <2>1. Layout = TCPFields
    BY <1>2 DEF Layout, Fields
  <2> QED BY <1>2, <2>1, TCPEven, WidthsNarrow DEF Even, Ordered
<1>3. CASE class # "tcp"
  <2>1. Layout \in {IPFields, IPv6Fields, UDPFields, ICMPFields}
    BY <1>1, <1>3 DEF Layout, Fields, ICMPv6Fields
  <2>2. Even(Layout[f])
    BY <2>1, IPEven, IPv6Even, UDPAndICMPEven
  <2> QED BY <2>2, WidthsNarrow DEF Even, Ordered
<1> QED BY <1>2, <1>3

-----------------------------------------------------------------------------
(* Bytes.  Swapping twice is nothing, and a bit field keeps what it kept.  *)
LEMMA SwapTwice ==
  ASSUME NEW n \in Nat, NEW v \in [1 .. n -> 0 .. 255]
  PROVE  /\ ByteSwap(v) \in [1 .. n -> 0 .. 255]
         /\ ByteSwap(ByteSwap(v)) = v
<1>1. Len(v) = n
  OBVIOUS
<1>2. ByteSwap(v) \in [1 .. n -> 0 .. 255]
  BY <1>1 DEF ByteSwap
<1>3. Len(ByteSwap(v)) = n
  BY <1>2
<1> QED BY <1>1, <1>2, <1>3 DEF ByteSwap

PowerOf(k) == 2 ^ k

LEMMA Powers ==
  ASSUME NEW k \in 0 .. 8
  PROVE  PowerOf(k) \in 1 .. 256
<1> USE DEF PowerOf
<1>1. /\ 2 ^ 0 = 1 /\ 2 ^ 1 = 2 /\ 2 ^ 2 = 4 /\ 2 ^ 3 = 8 /\ 2 ^ 4 = 16
      /\ 2 ^ 5 = 32 /\ 2 ^ 6 = 64 /\ 2 ^ 7 = 128 /\ 2 ^ 8 = 256
  OBVIOUS
<1>2. CASE k = 0
  BY <1>1, <1>2
<1>3. CASE k = 1
  BY <1>1, <1>3
<1>4. CASE k = 2
  BY <1>1, <1>4
<1>5. CASE k = 3
  BY <1>1, <1>5
<1>6. CASE k = 4
  BY <1>1, <1>6
<1>7. CASE k = 5
  BY <1>1, <1>7
<1>8. CASE k = 6
  BY <1>1, <1>8
<1>9. CASE k = 7
  BY <1>1, <1>9
<1>10. CASE k = 8
  BY <1>1, <1>10
<1> QED BY <1>2, <1>3, <1>4, <1>5, <1>6, <1>7, <1>8, <1>9, <1>10

LEMMA ModTwice ==
  ASSUME NEW x \in Nat, NEW n \in Nat \ {0}
  PROVE  (x % n) % n = x % n /\ x % n \in 0 .. (n - 1)
  OBVIOUS

LEMMA Remainder ==
  ASSUME NEW x \in 0 .. 255, NEW n \in 1 .. 256
  PROVE  x % n \in 0 .. 255 /\ (x % n) % n = x % n
<1>1. x \in Nat /\ n \in Nat \ {0} /\ n <= 256
  OBVIOUS
<1>2. x % n \in 0 .. n - 1 /\ (x % n) % n = x % n
  BY <1>1, ModTwice
<1> QED BY <1>1, <1>2

Values(f) == [1 .. Width(f) -> 0 .. 255]

LEMMA KeptTwice ==
  ASSUME class \in DOMAIN Fields, NEW f \in DOMAIN Layout, NEW v \in Values(f)
  PROVE  /\ Kept(f, v) \in Values(f)
         /\ Kept(f, Kept(f, v)) = Kept(f, v)
<1>1. PICK m : m = [i \in 1 .. Width(f) |-> PowerOf(Layout[f].keep[i])]
  OBVIOUS
<1>2. ASSUME NEW i \in 1 .. Width(f)
      PROVE  m[i] \in 1 .. 256
  <2>1. PICK k \in 0 .. 8 : k = Layout[f].keep[i]
    BY LayoutEven DEF Narrow, Width
  <2>2. m[i] = PowerOf(k)
    BY <1>1, <2>1
  <2>3. PowerOf(k) \in 1 .. 256
    BY Powers
  <2> QED BY <2>2, <2>3
<1>3. \A w : Kept(f, w) = [i \in 1 .. Width(f) |-> w[i] % m[i]]
  BY <1>1 DEF Kept, PowerOf
<1>4. ASSUME NEW i \in 1 .. Width(f)
      PROVE  v[i] % m[i] \in 0 .. 255 /\ (v[i] % m[i]) % m[i] = v[i] % m[i]
  <2>1. v[i] \in 0 .. 255
    BY DEF Values
  <2> QED BY <1>2, <2>1, Remainder
<1>5. Kept(f, v) \in Values(f)
  <2>1. Kept(f, v) = [i \in 1 .. Width(f) |-> v[i] % m[i]]
    BY <1>3
  <2> QED BY <1>4, <2>1 DEF Values
<1>6. \A i \in 1 .. Width(f) : Kept(f, v)[i] % m[i] = v[i] % m[i]
  BY <1>3, <1>4
<1>7. Kept(f, Kept(f, v)) = [i \in 1 .. Width(f) |-> v[i] % m[i]]
  BY <1>3, <1>6
<1> QED BY <1>3, <1>5, <1>7

LEMMA StoredKept ==
  ASSUME class \in DOMAIN Fields, NEW f \in DOMAIN Layout, NEW v \in Values(f)
  PROVE  /\ Stored(f, v) \in Values(f)
         /\ Kept(f, Stored(f, v)) = Stored(f, v)
<1>1. Width(f) \in Nat
  BY LayoutEven DEF Narrow, Width
<1>2. ByteSwap(v) \in Values(f)
  BY <1>1, SwapTwice DEF Values
<1> QED BY <1>2, KeptTwice DEF Stored

-----------------------------------------------------------------------------
LEMMA CapturedType ==
  ASSUME class \in DOMAIN Fields, NEW b \in 0 .. 255
  PROVE  /\ DOMAIN Captured(b) = DOMAIN Layout
         /\ \A f \in DOMAIN Layout :
              /\ Captured(b)[f] \in Values(f)
              /\ Captured(b)[f] = Kept(f, Captured(b)[f])
<1>1. ASSUME NEW f \in DOMAIN Layout
      PROVE  /\ Captured(b)[f] \in Values(f)
             /\ Captured(b)[f] = Kept(f, Captured(b)[f])
  <2>1. Captured(b)[f] = Kept(f, [i \in 1 .. Width(f) |-> b])
    BY DEF Captured
  <2>2. [i \in 1 .. Width(f) |-> b] \in Values(f)
    BY DEF Values
  <2> QED BY <2>1, <2>2, KeptTwice
<1> QED BY <1>1 DEF Captured

LEMMA InitTypeOK == Init => TypeOK
<1> SUFFICES ASSUME Init PROVE TypeOK
  OBVIOUS
<1>1. class \in DOMAIN Fields /\ memory = Captured(0)
  BY DEF Init
<1>2. /\ DOMAIN memory = DOMAIN Layout
      /\ \A f \in DOMAIN Layout :
           memory[f] \in Values(f) /\ memory[f] = Kept(f, memory[f])
  BY <1>1, CapturedType
<1>3. valid \in BOOLEAN
  BY Zenon DEF Init
<1>4. edits \in 0 .. MaxEdits
  BY DEF Init
<1> QED BY <1>1, <1>2, <1>3, <1>4 DEF TypeOK, Values

(* As long as the class stays, so does what its fields keep.               *)
LEMMA SameLayout ==
  ASSUME class' = class
  PROVE  /\ Layout' = Layout
         /\ \A f : Width(f)' = Width(f)
         /\ \A f, v : Kept(f, v)' = Kept(f, v)
  BY DEF Layout, Width, Kept

LEMMA NextTypeOK == TypeOK /\ [Next]_vars => TypeOK'
<1> SUFFICES ASSUME TypeOK, [Next]_vars PROVE TypeOK'
  OBVIOUS
<1>1. SUFFICES /\ class' \in DOMAIN Fields /\ valid' \in BOOLEAN
               /\ class' = class /\ edits' \in 0 .. MaxEdits
               /\ DOMAIN memory' = DOMAIN Layout
               /\ \A f \in DOMAIN Layout :
                    /\ memory'[f] \in Values(f)
                    /\ memory'[f] = Kept(f, memory'[f])
  BY DEF TypeOK, Layout, Width, Kept, Values
<1>2. CASE UNCHANGED vars
  BY <1>2 DEF vars, TypeOK, Values
<1>3. ASSUME NEW b \in Bytes, NEW found \in BOOLEAN, Parse(b, found)
      PROVE  /\ class' = class /\ valid' \in BOOLEAN /\ edits' \in 0 .. MaxEdits
             /\ DOMAIN memory' = DOMAIN Layout
             /\ \A f \in DOMAIN Layout :
                  /\ memory'[f] \in Values(f)
                  /\ memory'[f] = Kept(f, memory'[f])
  <2>1. class \in DOMAIN Fields /\ b \in 0 .. 255
    BY DEF TypeOK
  <2>2. /\ class' = class /\ valid' \in BOOLEAN /\ edits' \in 0 .. MaxEdits
        /\ memory' = Captured(b)
    BY <1>3 DEF Parse
  <2> QED BY <2>1, <2>2, CapturedType
<1>4. ASSUME NEW f \in DOMAIN Layout, NEW v \in [1 .. Width(f) -> Bytes],
             Set(f, v)
      PROVE  /\ class' = class /\ valid' \in BOOLEAN /\ edits' \in 0 .. MaxEdits
             /\ DOMAIN memory' = DOMAIN Layout
             /\ \A g \in DOMAIN Layout :
                  /\ memory'[g] \in Values(g)
                  /\ memory'[g] = Kept(g, memory'[g])
  <2>1. class' = class /\ valid' \in BOOLEAN /\ edits' \in 0 .. MaxEdits
    BY <1>4 DEF Set, TypeOK
  <2>2. v \in Values(f)
    BY DEF Values
  <2>3. DOMAIN memory' = DOMAIN Layout
    BY <1>4 DEF Set, TypeOK
  <2>4. ASSUME NEW g \in DOMAIN Layout
        PROVE  memory'[g] \in {memory[g], Stored(f, v)}
               /\ (g # f => memory'[g] = memory[g])
    BY <1>4 DEF Set, TypeOK
  <2>5. /\ Stored(f, v) \in Values(f)
        /\ Kept(f, Stored(f, v)) = Stored(f, v)
    BY <2>2, StoredKept DEF TypeOK
  <2>6. ASSUME NEW g \in DOMAIN Layout
        PROVE  memory'[g] \in Values(g) /\ memory'[g] = Kept(g, memory'[g])
    <3>1. CASE g = f /\ memory'[g] = Stored(f, v)
      BY <2>5, <3>1
    <3>2. CASE memory'[g] = memory[g]
      BY <3>2 DEF TypeOK, Values
    <3> QED BY <2>4, <3>1, <3>2
  <2> QED BY <2>1, <2>3, <2>6
<1> QED BY <1>2, <1>3, <1>4 DEF Next, TypeOK

(* Every field of the header, and every value in it, stays within the bits *)
(* its bit field has, whatever is assigned.                                *)
THEOREM TypeCorrect == Spec => []TypeOK
<1> QED BY InitTypeOK, NextTypeOK, PTL DEF Spec

(* Reading a property and assigning what was read leaves the header as it  *)
(* was, for every property of the six classes but Psh.                     *)
THEOREM WritesBack == Spec => []WriteBack
<1>1. TypeOK => WriteBack
  <2> SUFFICES ASSUME TypeOK, valid, NEW f \in DOMAIN Layout,
                      class = "tcp" => f # "Psh"
               PROVE  Stored(f, Get(f)) = memory[f]
    BY DEF WriteBack
  <2>1. /\ Layout[f].swapGet = Layout[f].swapSet
        /\ Width(f) \in Nat
    BY LayoutEven DEF TypeOK, Narrow, Width
  <2>2. memory[f] \in Values(f) /\ Kept(f, memory[f]) = memory[f]
    BY DEF TypeOK, Values
  <2>3. ByteSwap(ByteSwap(memory[f])) = memory[f]
    BY <2>1, <2>2, SwapTwice DEF Values
  <2> QED BY <2>1, <2>2, <2>3 DEF Stored, Get
<1> QED BY <1>1, InitTypeOK, NextTypeOK, PTL DEF Spec

-----------------------------------------------------------------------------
(* Read from the other end, the bytes of a number are its digits.          *)
LEMMA SwapSpells ==
  ASSUME NEW n \in {1, 2, 4}, NEW v \in [1 .. n -> 0 .. 255]
  PROVE  Number(ByteSwap(v)) = Spelling(v)
<1>1. Len(v) = n
  OBVIOUS
<1>2. ByteSwap(v) = [i \in 1 .. n |-> v[n + 1 - i]]
  BY <1>1 DEF ByteSwap
<1>3. ASSUME NEW i \in 1 .. n PROVE v[i] \in Nat
  <2>1. PICK byte \in 0 .. 255 : byte = v[i]
    OBVIOUS
  <2>2. byte \in Nat
    OBVIOUS
  <2> QED BY <2>1, <2>2
<1>4. CASE n = 1
  BY <1>2, <1>3, <1>4 DEF Number, Digit, Spelling
<1>5. CASE n = 2
  BY <1>2, <1>3, <1>5 DEF Number, Digit, Spelling
<1>6. CASE n = 4
  BY <1>2, <1>3, <1>6 DEF Number, Digit, Spelling
<1> QED BY <1>4, <1>5, <1>6

LEMMA FullWidths ==
  ASSUME NEW keep \in Widths, \A i \in 1 .. Len(keep) : keep[i] = 8
  PROVE  keep \in {<<8>>, Word, DWord}
<1>1. Len(keep) >= 1 => keep[1] = 8
  BY WidthsNarrow DEF Narrow
<1>2. Len(keep) >= 2 => keep[2] = 8
  BY WidthsNarrow DEF Narrow
<1>3. keep \notin {<<4>>, <<1, 0>>, <<5, 8>>, <<4, 0>>, <<2, 0>>}
  BY <1>1
<1>4. keep \notin {<<8, 0, 0, 0>>, <<8, 8, 4, 0>>}
  <2>1. CASE keep = <<8, 0, 0, 0>>
    BY <1>2, <2>1
  <2>2. CASE keep = <<8, 8, 4, 0>>
    <3>1. Len(keep) = 4 /\ keep[3] = 4
      BY <2>2
    <3> QED BY <3>1
  <2> QED BY <2>1, <2>2
<1> QED BY <1>3, <1>4 DEF Widths, Word, DWord

(* A full number is of one byte, or swapped.                               *)
LEMMA NumericShapes ==
  ASSUME class \in DOMAIN Fields, NEW f \in DOMAIN Layout, Numeric(f)
  PROVE  /\ Width(f) \in {1, 2, 4}
         /\ Width(f) # 1 => Layout[f].swapGet
<1>1. Layout[f].keep \in Widths
  BY LayoutEven DEF Ordered
<1>2. \A i \in 1 .. Len(Layout[f].keep) : Layout[f].keep[i] = 8
  BY DEF Numeric, Width
<1>3. Layout[f].keep \in {<<8>>, Word, DWord}
  BY <1>1, <1>2, FullWidths
<1>4. Len(<<8>>) = 1 /\ Len(Word) = 2 /\ Len(DWord) = 4
  BY DEF Word, DWord
<1> QED BY <1>3, <1>4, LayoutEven DEF Width, Ordered, Wide

(* Every getter of a full number answers in the host's order what the      *)
(* packet spells in the network's.                                         *)
THEOREM HostOrdered == Spec => []HostOrder
<1>1. TypeOK => HostOrder
  <2> SUFFICES ASSUME TypeOK, valid, NEW f \in DOMAIN Layout, Numeric(f)
               PROVE  Number(Get(f)) = Spelling(memory[f])
    BY DEF HostOrder
  <2> DEFINE n == Width(f)
  <2>1. n \in {1, 2, 4} /\ (n # 1 => Layout[f].swapGet)
    BY NumericShapes DEF TypeOK
  <2>2. memory[f] \in [1 .. n -> 0 .. 255]
    BY DEF TypeOK
  <2>3. CASE Layout[f].swapGet
    BY <2>1, <2>2, <2>3, SwapSpells DEF Get
  <2>4. CASE ~Layout[f].swapGet
    <3>1. n = 1 /\ Get(f) = memory[f]
      BY <2>1, <2>4 DEF Get
    <3> HIDE DEF n
    <3> QED BY <2>2, <3>1 DEF Number, Digit, Spelling
  <2> QED BY <2>3, <2>4
<1> QED BY <1>1, InitTypeOK, NextTypeOK, PTL DEF Spec
=============================================================================
