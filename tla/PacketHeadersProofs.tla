------------------------ MODULE PacketHeadersProofs ------------------------
(* Theorems about PacketHeaders, for any packets, assigned addresses,      *)
(* contents of foreign memory and number of moves.                         *)
EXTENDS PacketHeaders, TLAPS

(* What an address member shows is what its last-seen copy stands for.     *)
Coherent ==
  \A f \in Families, e \in Ends :
    (f = "ip" \/ cache[f][e].assigned)
      => First(cache[f][e].shown) = Visible(f, cache[f][e].last)

(* An assigned address leaves its first bytes to be seen in the packet.    *)
LEMMA StoredShows ==
  ASSUME NEW f \in Families, NEW a \in Address4 \cup Address6
  PROVE  /\ Stored(f, a) \in AddressOf(f)
         /\ First(a) = Visible(f, Stored(f, a))
BY DEF Families, Address4, Address6, Byte, Stored, AddressOf, First, Visible

(* What is shown of a packet's address is an IPv4 address object.          *)
LEMMA VisibleShows ==
  ASSUME NEW f \in Families, NEW a \in AddressOf(f)
  PROVE  /\ Visible(f, a) \in Address4
         /\ First(Visible(f, a)) = Visible(f, a)
BY DEF Families, Address4, Address6, Byte, AddressOf, First, Visible

(* What a getter finds has the type of the header it is read through.      *)
LEMMA FoundType ==
  ASSUME TypeOK, NEW f \in Families, NEW found \in Behind(f)
  PROVE  found \in [Ends -> AddressOf(f)]
<1>1. CASE Intact(f)
  BY <1>1 DEF TypeOK, Packet, Behind, Intact, Has
<1>2. CASE ~Intact(f)
  BY <1>2 DEF Behind, Spelled
<1> QED BY <1>1, <1>2

-----------------------------------------------------------------------------
(* Both conjuncts are kept by writing one coherent member.                 *)
CoherentMember(f, m) ==
  /\ m \in Members
  /\ m.last \in AddressOf(f)
  /\ (f = "ip" \/ m.assigned) => First(m.shown) = Visible(f, m.last)

LEMMA CacheMembers ==
  ASSUME TypeOK, Coherent, NEW f \in Families, NEW e \in Ends
  PROVE  CoherentMember(f, cache[f][e])
BY DEF TypeOK, Coherent, CoherentMember

LEMMA MembersCache ==
  ASSUME cache' \in [Families -> [Ends -> Members]],
         \A f \in Families, e \in Ends : CoherentMember(f, cache'[f][e])
  PROVE  /\ \A f \in Families, e \in Ends : cache'[f][e].last \in AddressOf(f)
         /\ Coherent'
BY DEF Coherent, CoherentMember

LEMMA MemberWritten ==
  ASSUME TypeOK, Coherent, NEW f \in Families, NEW e \in Ends, NEW m,
         CoherentMember(f, m), cache' = [cache EXCEPT ![f][e] = m]
  PROVE  /\ cache' \in [Families -> [Ends -> Members]]
         /\ \A g \in Families, d \in Ends : cache'[g][d].last \in AddressOf(g)
         /\ Coherent'
<1>1. cache' \in [Families -> [Ends -> Members]]
  BY DEF TypeOK, CoherentMember
<1>2. ASSUME NEW g \in Families, NEW d \in Ends
      PROVE  CoherentMember(g, cache'[g][d])
  <2>1. CASE g = f /\ d = e
    BY <2>1 DEF TypeOK
  <2>2. CASE ~(g = f /\ d = e)
    <3>1. cache'[g][d] = cache[g][d]
      BY <2>2 DEF TypeOK
    <3> QED BY <3>1, CacheMembers
  <2> QED BY <2>1, <2>2
<1> QED BY <1>1, <1>2, MembersCache

LEMMA RefreshedCoherent ==
  ASSUME TypeOK, NEW f \in Families, NEW e \in Ends, NEW found \in Behind(f)
  PROVE  CoherentMember(f, Refreshed(f, found, e))
<1>1. found[e] \in AddressOf(f)
  BY FoundType
<1>2. found[e] \in Address4 \cup Address6
  BY <1>1 DEF AddressOf
<1> QED
  BY <1>1, <1>2, VisibleShows DEF CoherentMember, Refreshed, Members

LEMMA AssignedCoherent ==
  ASSUME NEW f \in Families, NEW a \in Address4 \cup Address6
  PROVE  CoherentMember(f, [last |-> Stored(f, a), shown |-> a,
                            assigned |-> TRUE])
<1>1. Stored(f, a) \in Address4 \cup Address6
  BY StoredShows DEF AddressOf
<1> QED BY <1>1, StoredShows DEF CoherentMember, Members

-----------------------------------------------------------------------------
(* One step of the inductive invariant for each action.                    *)
LEMMA InitHolds ==
  ASSUME PacketHeadersAssumption, Init
  PROVE  TypeOK /\ Coherent
<1>1. PICK garbage \in [Ends -> Spelled("ipv6")] :
        cache = [f \in Families |-> [e \in Ends |->
                   Unread(IF f = "ip" THEN Any ELSE garbage[e])]]
  BY DEF Init
<1>2. Any \in Address4 /\ First(Any) = Any
  BY DEF Any, Address4, Byte, First
<1>3. ASSUME NEW f \in Families, NEW e \in Ends
      PROVE  CoherentMember(f, cache[f][e])
  <2>1. cache[f][e] = Unread(IF f = "ip" THEN Any ELSE garbage[e])
    BY <1>1
  <2>2. garbage[e] \in Address6
    BY DEF Spelled, AddressOf
  <2>3. CASE f = "ip"
    BY <1>2, <2>1, <2>3
       DEF Unread, CoherentMember, Members, AddressOf, Visible
  <2>4. CASE f # "ip"
    BY <1>2, <2>1, <2>2, <2>4
       DEF Unread, CoherentMember, Members, AddressOf
  <2> QED BY <2>3, <2>4
<1>4. cache \in [Families -> [Ends -> Members]]
  <2>1. \A f \in Families, e \in Ends :
          Unread(IF f = "ip" THEN Any ELSE garbage[e]) \in Members
    BY <1>1, <1>3 DEF CoherentMember
  <2> QED BY <1>1, <2>1
<1>5. Coherent /\ \A f \in Families, e \in Ends : cache[f][e].last \in AddressOf(f)
  BY <1>3 DEF Coherent, CoherentMember
<1>6. buffer \in [packet : Packet, place : Places]
  BY DEF Init, PacketHeadersAssumption, Places
<1>7. header \in [HeaderKinds -> Places \cup {Null}]
  BY DEF Init
<1> QED BY <1>4, <1>5, <1>6, <1>7 DEF TypeOK, Init

LEMMA ReceiveStep ==
  ASSUME PacketHeadersAssumption, TypeOK, Coherent,
         NEW p \in Packets, Receive(p)
  PROVE  TypeOK' /\ Coherent'
BY DEF PacketHeadersAssumption, TypeOK, Coherent, Receive

LEMMA ParseStep ==
  ASSUME PacketHeadersAssumption, TypeOK, Coherent,
         NEW overload \in Overloads, ParsePacket(overload)
  PROVE  TypeOK' /\ Coherent'
<1>1. \A h \in HeaderKinds : Aimed(overload, h) \in Places \cup {Null}
  BY DEF TypeOK, Aimed
<1>2. header' \in [HeaderKinds -> Places \cup {Null}]
  BY <1>1 DEF ParsePacket
<1>3. TypeOK' /\ Coherent'
  BY <1>2 DEF TypeOK, Coherent, ParsePacket
<1> QED BY <1>3

LEMMA MoveStep ==
  ASSUME PacketHeadersAssumption, TypeOK, Coherent, Move
  PROVE  TypeOK' /\ Coherent'
<1>1. /\ buffer'.packet = buffer.packet
      /\ buffer' \in [packet : Packet, place : Places]
  BY DEF PacketHeadersAssumption, TypeOK, Move, Places
<1> QED BY <1>1 DEF TypeOK, Coherent, Move, Has, Valid

LEMMA GetStep ==
  ASSUME TypeOK, Coherent,
         NEW f \in Families, NEW e \in Ends, GetAddress(f, e)
  PROVE  TypeOK' /\ Coherent'
<1>1. PICK found \in Behind(f) :
        cache' = [cache EXCEPT ![f][e] = Refreshed(f, found, e)]
  BY DEF GetAddress
<1>2. CoherentMember(f, Refreshed(f, found, e))
  BY RefreshedCoherent
<1> DEFINE m == Refreshed(f, found, e)
<1>3. /\ cache' \in [Families -> [Ends -> Members]]
      /\ \A g \in Families, d \in Ends : cache'[g][d].last \in AddressOf(g)
      /\ Coherent'
  <2>1. CoherentMember(f, m) /\ cache' = [cache EXCEPT ![f][e] = m]
    BY <1>1, <1>2
  <2> HIDE DEF m
  <2> QED BY <2>1, MemberWritten
<1> QED
  BY <1>3 DEF GetAddress, TypeOK, Has, Valid

LEMMA SetStep ==
  ASSUME PacketHeadersAssumption, TypeOK, Coherent,
         NEW f \in Families, NEW e \in Ends, NEW a \in Given,
         SetAddress(f, e, a)
  PROVE  TypeOK' /\ Coherent'
<1> DEFINE m == [last |-> Stored(f, a), shown |-> a, assigned |-> TRUE]
<1>1. a \in Address4 \cup Address6
  BY DEF PacketHeadersAssumption
<1>2. /\ cache' \in [Families -> [Ends -> Members]]
      /\ \A g \in Families, d \in Ends : cache'[g][d].last \in AddressOf(g)
      /\ Coherent'
  <2>1. CoherentMember(f, m)
    BY <1>1, AssignedCoherent
  <2>2. cache' = [cache EXCEPT ![f][e] = m]
    BY DEF SetAddress
  <2> HIDE DEF m
  <2> QED BY <2>1, <2>2, MemberWritten
<1>3. /\ buffer' \in [packet : Packet, place : Places]
      /\ buffer'.packet.headers = buffer.packet.headers
  <2>1. CASE ~Valid(f)
    BY <2>1 DEF SetAddress, TypeOK
  <2>2. CASE Valid(f)
    <3> DEFINE ends == [buffer.packet.ends EXCEPT ![e] = Stored(f, a)]
    <3>1. Has(f)
      BY <2>2 DEF SetAddress, Intact
    <3>2. buffer.packet \in Packet
      BY DEF TypeOK
    <3>3. buffer.packet.ends \in [Ends -> AddressOf(f)]
      BY <3>1, <3>2 DEF Packet, Has
    <3>4. Stored(f, a) \in AddressOf(f)
      BY <1>1, StoredShows
    <3>5. ends \in [Ends -> AddressOf(f)]
      BY <3>3, <3>4
    <3>6. \A g \in Families \cap buffer.packet.headers : g = f
      <4>1. ASSUME NEW g \in Families \cap buffer.packet.headers, g # f
            PROVE  FALSE
        <5>1. buffer.packet.ends["src"] \in AddressOf(g) \cap AddressOf(f)
          BY <3>2, <3>3 DEF Packet, Ends
        <5>2. Address4 \cap Address6 = {}
          BY DEF Address4, Address6
        <5> QED BY <4>1, <5>1, <5>2 DEF Families, AddressOf
      <4> QED BY <4>1
    <3>7. buffer' = [packet |-> [headers |-> buffer.packet.headers,
                                 ends |-> ends],
                     place |-> buffer.place]
      BY <2>2, <3>2 DEF SetAddress, TypeOK, Packet
    <3>8. ends \in [Ends -> Address4 \cup Address6]
      BY <3>5 DEF AddressOf
    <3>9. [headers |-> buffer.packet.headers, ends |-> ends] \in Packet
      <4> HIDE DEF ends
      <4> QED BY <3>2, <3>5, <3>6, <3>8 DEF Packet
    <3> QED BY <3>7, <3>9 DEF TypeOK
  <2> QED BY <2>1, <2>2
<1> QED
  BY <1>2, <1>3 DEF SetAddress, TypeOK, Has, Valid

-----------------------------------------------------------------------------
IInv == TypeOK /\ Coherent

LEMMA Inductive == Spec => []IInv
<1>1. Init => IInv
  BY InitHolds, PacketHeadersAssumption DEF IInv
<1>2. IInv /\ [Next]_vars => IInv'
  <2> SUFFICES ASSUME TypeOK, Coherent, [Next]_vars
               PROVE  TypeOK' /\ Coherent'
    BY DEF IInv
  <2>1. ASSUME NEW p \in Packets, Receive(p)
        PROVE  TypeOK' /\ Coherent'
    BY <2>1, PacketHeadersAssumption, ReceiveStep
  <2>2. ASSUME NEW overload \in Overloads, ParsePacket(overload)
        PROVE  TypeOK' /\ Coherent'
    BY <2>2, PacketHeadersAssumption, ParseStep
  <2>3. CASE Move
    BY <2>3, PacketHeadersAssumption, MoveStep
  <2>4. ASSUME NEW f \in Families, NEW e \in Ends, GetAddress(f, e)
        PROVE  TypeOK' /\ Coherent'
    BY <2>4, GetStep
  <2>5. ASSUME NEW f \in Families, NEW e \in Ends, NEW a \in Given,
               SetAddress(f, e, a)
        PROVE  TypeOK' /\ Coherent'
    BY <2>5, PacketHeadersAssumption, SetStep
  <2>6. CASE UNCHANGED vars
    BY <2>6 DEF vars, TypeOK, Coherent, Has, Valid
  <2> QED BY <2>1, <2>2, <2>3, <2>4, <2>5, <2>6 DEF Next
<1> QED BY <1>1, <1>2, PTL DEF Spec

(* The members keep their types.                                           *)
THEOREM TypeCorrect == Spec => []TypeOK
<1>1. IInv => TypeOK
  BY DEF IInv
<1> QED BY <1>1, Inductive, PTL

(* Reused header objects show what new ones would, whatever was read,      *)
(* assigned or left behind by a move before: never the address of an       *)
(* earlier packet.                                                         *)
THEOREM AddressesShown == Spec => []ShowsAsNew
<1>1. IInv => ShowsAsNew
  <2> SUFFICES ASSUME TypeOK, Coherent, NEW f \in Families, NEW e \in Ends,
                      Intact(f),
                      f = "ip" => buffer.packet.ends.src # Any,
                      f = "ipv6" => cache[f][e].assigned
               PROVE  First(Answer(f, e)) = Visible(f, buffer.packet.ends[e])
    BY DEF IInv, ShowsAsNew, Refreshed
  <2>1. buffer.packet.ends[e] \in AddressOf(f)
    BY DEF TypeOK, Packet, Intact, Has
  <2>2. CASE Stale(f, e, buffer.packet.ends)
    BY <2>1, <2>2, VisibleShows DEF Answer, Refreshed
  <2>3. CASE ~Stale(f, e, buffer.packet.ends)
    <3>1. cache[f][e].last = buffer.packet.ends[e]
      BY <2>3 DEF Stale
    <3>2. First(cache[f][e].shown) = Visible(f, cache[f][e].last)
      BY DEF Coherent, Families
    <3> QED BY <2>3, <3>1, <3>2 DEF Answer
  <2> QED BY <2>2, <2>3
<1> QED BY <1>1, Inductive, PTL
=============================================================================
