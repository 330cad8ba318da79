---------------------------- MODULE GroupsProofs ----------------------------
(***************************************************************************)
(* Proofs about the groups: whatever was longer before, a number is read   *)
(* as it was set, the modulus is padded with zeros, the generators are as  *)
(* many as num_generators says, and where the card's arithmetic covers its *)
(* operands the base of a power is the generator that was set, and a       *)
(* response the number it should be.                                       *)
(*                                                                         *)
(* Value, Power and Digits are recursive functions, so what they yield for *)
(* every length is proved by induction on numbers, stated about sets       *)
(* (Induction): the library's theorem takes an operator, which the provers *)
(* cannot instantiate, but its well-founded relations are sets.            *)
(***************************************************************************)
EXTENDS Groups, SequenceTheorems, FiniteSetTheorems, WellFoundedInduction, TLAPS

-----------------------------------------------------------------------------
(* Blocks.  *)

LEMMA BlockIsSequence ==
  ASSUME NEW n \in Nat, NEW b \in Block(n)
  PROVE  b \in Seq(Byte) /\ Len(b) = n
  BY DEF Block

LEMMA ZerosIsBlock ==
  ASSUME NEW n \in Nat
  PROVE  Zeros(n) \in Block(n)
  BY BaseAssumption DEF Zeros, Block, Byte

\* The n bytes on the right of a block.
LEMMA RightIsSequence ==
  ASSUME NEW m \in Nat, NEW b \in Block(m), NEW n \in 0..m
  PROVE  /\ Right(b, n) \in Seq(Byte)
         /\ Len(Right(b, n)) = n
         /\ n = 0 => Right(b, n) = <<>>
  <1>1. b \in Seq(Byte) /\ Len(b) = m
    BY BlockIsSequence
  <1>2. \A i \in m - n + 1 .. m : b[i] \in Byte
    BY DEF Block
  <1>3. Right(b, n) \in Seq(Byte) /\ Len(Right(b, n)) = n
    BY <1>1, <1>2, SubSeqProperties DEF Right
  <1>4. n = 0 => Right(b, n) = <<>>
    BY <1>1, SubSeqEmpty DEF Right
  <1> QED
    BY <1>3, <1>4

\* What is written on the right of a block is what is read there, and the block stays one.
LEMMA SetRightGivesRight ==
  ASSUME NEW n \in Nat, NEW b \in Block(n), NEW d \in Seq(Byte), Len(d) <= n
  PROVE  /\ SetRight(b, d) \in Block(n)
         /\ Right(SetRight(b, d), Len(d)) = d
  <1> DEFINE l == SubSeq(b, 1, n - Len(d))
  <1>1. b \in Seq(Byte) /\ Len(b) = n
    BY BlockIsSequence
  <1>2. Len(d) \in Nat /\ n - Len(d) \in 0..n
    OBVIOUS
  <1>3. l \in Seq(Byte) /\ Len(l) = n - Len(d)
    <2>1. \A i \in 1 .. n - Len(d) : b[i] \in Byte
      BY <1>2 DEF Block
    <2>2. /\ l \in Seq(Byte)
          /\ Len(l) = IF 1 <= n - Len(d) THEN n - Len(d) - 1 + 1 ELSE 0
      BY <1>2, <2>1, SubSeqProperties
    <2> QED
      BY <1>2, <2>2
  <1>4. SetRight(b, d) = l \o d
    BY <1>1 DEF SetRight
  <1> HIDE DEF l
  <1>5. l \o d \in Seq(Byte) /\ Len(l \o d) = n
    BY <1>2, <1>3
  <1>6. l \o d \in Block(n)
    <2> DEFINE whole == l \o d
    <2>1. whole \in Seq(Byte) /\ Len(whole) = n
      BY <1>5
    <2> HIDE DEF whole
    <2>2. whole \in [1 .. n -> Byte]
      BY <2>1, LenProperties
    <2> QED
      BY <2>2 DEF Block, whole
  <1>7. Right(l \o d, Len(d)) = SubSeq(l \o d, n - Len(d) + 1, n)
    BY <1>5 DEF Right
  <1>8. SubSeq(l \o d, n - Len(d) + 1, n) = d
    <2>1. CASE Len(d) = 0
      <3>1. d = <<>>
        BY <2>1
      <3>2. SubSeq(l \o d, n - Len(d) + 1, n) = <<>>
        BY <1>2, <2>1, SubSeqEmpty
      <3> QED
        BY <3>1, <3>2
    <2>2. CASE Len(d) > 0
      <3>1. /\ n - Len(d) + 1 \in Len(l) + 1 .. Len(l) + Len(d)
            /\ n \in Len(l) + 1 .. Len(l) + Len(d)
        BY <1>2, <1>3, <2>2
      <3>2. SubSeq(l \o d, n - Len(d) + 1, n)
              = SubSeq(d, n - Len(d) + 1 - Len(l), n - Len(l))
        BY <1>3, <3>1, SubSeqOfConcat2
      <3>3. n - Len(d) + 1 - Len(l) = 1 /\ n - Len(l) = Len(d)
        BY <1>2, <1>3
      <3> QED
        BY <3>2, <3>3, SubSeqFull
    <2>3. Len(d) = 0 \/ Len(d) > 0
      BY <1>2
    <2> QED
      BY <2>1, <2>2, <2>3
  <1> QED
    BY <1>4, <1>6, <1>7, <1>8

-----------------------------------------------------------------------------
(* Numbers of a group.  *)

LEMMA SizesAreNat == MaxSmall \in Nat /\ MaxBig \in Nat
  BY GroupsAssumption

LEMMA ContentsIsSequence ==
  ASSUME NEW n \in Nat, NEW r \in Register(n)
  PROVE  Contents(r) \in Seq(Byte) /\ (r.size = 0 => Contents(r) = <<>>)
  BY RightIsSequence DEF Contents, Register

LEMMA ZeroIsEmpty ==
  ASSUME NEW n \in Nat
  PROVE  Zero(n) \in Register(n) /\ Zero(n).size = 0 /\ Contents(Zero(n)) = <<>>
  <1>1. Zero(n) \in Register(n) /\ Zero(n).size = 0
    BY ZerosIsBlock DEF Zero, Register
  <1> QED
    BY <1>1, ContentsIsSequence

\* A number taken away: its size is zero, its bytes stay.
LEMMA EmptiedRegister ==
  ASSUME NEW n \in Nat, NEW r \in Register(n)
  PROVE  /\ [r EXCEPT !.size = 0] \in Register(n)
         /\ [r EXCEPT !.size = 0].size = 0
         /\ Contents([r EXCEPT !.size = 0]) = <<>>
  <1>1. [r EXCEPT !.size = 0] \in Register(n) /\ [r EXCEPT !.size = 0].size = 0
    BY DEF Register
  <1> QED
    BY <1>1, ContentsIsSequence

LEMMA OverIsSet ==
  ASSUME NEW n \in Nat, NEW r \in Register(n), NEW d \in Seq(Byte), Len(d) <= n
  PROVE  /\ Over(r, d) \in Register(n)
         /\ Over(r, d).size = Len(d)
         /\ Contents(Over(r, d)) = d
  <1>1. r.bytes \in Block(n)
    BY DEF Register
  <1>2. SetRight(r.bytes, d) \in Block(n) /\ Right(SetRight(r.bytes, d), Len(d)) = d
    BY <1>1, SetRightGivesRight
  <1> QED
    BY <1>2 DEF Over, Register, Contents

LEMMA WithModulusIsSet ==
  ASSUME NEW r, NEW d \in Seq(Byte), Len(d) <= MaxBig
  PROVE  /\ WithModulus(r, d) \in Register(MaxBig)
         /\ Contents(WithModulus(r, d)) = d
         /\ WithModulus(r, d).bytes = Aligned(Contents(WithModulus(r, d)), MaxBig)
  <1>1. Zeros(MaxBig) \in Block(MaxBig)
    BY SizesAreNat, ZerosIsBlock
  <1>2. /\ Aligned(d, MaxBig) \in Block(MaxBig)
        /\ Right(Aligned(d, MaxBig), Len(d)) = d
    BY <1>1, SizesAreNat, SetRightGivesRight DEF Aligned
  <1>3. Contents(WithModulus(r, d)) = d
    BY <1>2 DEF WithModulus, Contents
  <1> QED
    BY <1>2, <1>3, SizesAreNat DEF WithModulus, Register

-----------------------------------------------------------------------------
(* The invariant.  *)

StoredGroup == [modulus : Seq(Byte), q : Seq(Byte), f : Seq(Byte), g : [Gens -> Seq(Byte)]]

\* What is read from the group is what was set.
Reads(group, s) ==
  /\ Contents(group.modulus) = s.modulus
  /\ Contents(group.q) = s.q
  /\ Contents(group.f) = s.f
  /\ \A gen \in Gens : Contents(group.g[gen]) = s.g[gen]

Padded(group) ==
  group.modulus.size > 0 => group.modulus.bytes = Aligned(Contents(group.modulus), MaxBig)

Present(group)   == {gen \in Gens : group.g[gen].size > 0}
WellCounted(group) == group.num_generators = Cardinality(Present(group))

Types ==
  /\ groups \in [GroupIds -> Group]
  /\ stored \in [GroupIds -> StoredGroup]
  /\ buffer \in Seq(Byte)

GroupsInv ==
  /\ Types
  /\ \A id \in GroupIds : Reads(groups[id], stored[id])
  /\ \A id \in GroupIds : Padded(groups[id])
  /\ \A id \in GroupIds : id \notin empty => WellCounted(groups[id])

\* One group is written, and what was stored in it with it.
LEMMA WriteGroup ==
  ASSUME GroupsInv, NEW id \in GroupIds, NEW group \in Group, NEW s \in StoredGroup,
         groups' = [groups EXCEPT ![id] = group], stored' = [stored EXCEPT ![id] = s],
         buffer' \in Seq(Byte), empty \subseteq empty' \cup {id},
         Reads(group, s), Padded(group), id \notin empty' => WellCounted(group)
  PROVE  GroupsInv'
  <1>1. Types'
    BY DEF GroupsInv, Types
  <1>2. ASSUME NEW x \in GroupIds
        PROVE  /\ Reads(groups'[x], stored'[x])
               /\ Padded(groups'[x])
               /\ x \notin empty' => WellCounted(groups'[x])
    <2>1. CASE x = id
      BY <2>1, Zenon DEF GroupsInv, Types
    <2>2. CASE x # id
      <3>1. groups'[x] = groups[x] /\ stored'[x] = stored[x]
        BY <2>2 DEF GroupsInv, Types
      <3>2. x \notin empty' => x \notin empty
        BY <2>2
      <3> QED
        BY <3>1, <3>2, Zenon DEF GroupsInv
    <2> QED
      BY <2>1, <2>2
  <1>3. /\ (\A x \in GroupIds : Reads(groups[x], stored[x]))'
        /\ (\A x \in GroupIds : Padded(groups[x]))'
        /\ (\A x \in GroupIds : x \notin empty => WellCounted(groups[x]))'
    BY <1>2, Zenon DEF Reads, Padded, WellCounted, Present
  <1> QED
    BY <1>1, <1>3, Zenon DEF GroupsInv

\* Nothing but the buffer is written.
LEMMA BufferStep ==
  ASSUME GroupsInv, buffer' \in Seq(Byte), UNCHANGED <<groups, stored, empty>>
  PROVE  GroupsInv'
  BY DEF GroupsInv, Types, Reads, Padded, WellCounted, Present

\* The numbers there are of a group that keeps its generators.
LEMMA SameGenerators ==
  ASSUME NEW a, NEW b, a.g = b.g, a.num_generators = b.num_generators
  PROVE  WellCounted(a) <=> WellCounted(b)
  BY DEF WellCounted, Present

\* What the invariant says of one group.
LEMMA GroupTypes ==
  ASSUME GroupsInv, NEW id \in GroupIds
  PROVE  /\ groups[id] \in Group /\ stored[id] \in StoredGroup /\ buffer \in Seq(Byte)
         /\ groups[id].modulus \in Register(MaxBig)
         /\ groups[id].q \in Register(MaxSmall)
         /\ groups[id].f \in Register(MaxBig)
         /\ \A gen \in Gens : groups[id].g[gen] \in Register(MaxBig)
         /\ groups[id].g \in [Gens -> Register(MaxBig)]
         /\ groups[id].num_generators \in Byte
         /\ Reads(groups[id], stored[id]) /\ Padded(groups[id])
         /\ id \notin empty => WellCounted(groups[id])
  <1>1. groups[id] \in Group /\ stored[id] \in StoredGroup /\ buffer \in Seq(Byte)
    BY DEF GroupsInv, Types
  <1>2. Reads(groups[id], stored[id]) /\ Padded(groups[id])
        /\ (id \notin empty => WellCounted(groups[id]))
    BY Zenon DEF GroupsInv
  <1> QED
    BY <1>1, <1>2 DEF Group

LEMMA SetModulusStep ==
  ASSUME GroupsInv, NEW id \in GroupIds, SetModulus(id)
  PROVE  GroupsInv'
  <1> DEFINE r == WithModulus(groups[id].modulus, buffer)
             group == [groups[id] EXCEPT !.modulus = r]
             s == [stored[id] EXCEPT !.modulus = buffer]
  <1>1. buffer \in Seq(Byte) /\ Len(buffer) <= MaxBig
    BY GroupTypes DEF SetModulus, Given
  <1>2. r \in Register(MaxBig) /\ Contents(r) = buffer /\ r.bytes = Aligned(Contents(r), MaxBig)
    BY <1>1, WithModulusIsSet
  <1>3. groups' = [groups EXCEPT ![id] = group] /\ stored' = [stored EXCEPT ![id] = s]
    BY DEF SetModulus, GroupsInv, Types
  <1> HIDE DEF r
  <1>4. group \in Group /\ group.modulus = r /\ s.modulus = buffer
    BY <1>2, GroupTypes DEF Group, StoredGroup
  <1>5. s \in StoredGroup
    BY <1>1, GroupTypes DEF StoredGroup
  <1>6. /\ group.q = groups[id].q /\ group.f = groups[id].f /\ group.g = groups[id].g
        /\ group.num_generators = groups[id].num_generators
        /\ s.q = stored[id].q /\ s.f = stored[id].f /\ s.g = stored[id].g
    BY GroupTypes DEF Group, StoredGroup
  <1> HIDE DEF group, s
  <1>7. Reads(group, s)
    BY <1>2, <1>4, <1>6, GroupTypes DEF Reads
  <1>8. Padded(group)
    BY <1>2, <1>4 DEF Padded
  <1>9. id \notin empty => WellCounted(group)
    BY <1>6, GroupTypes, SameGenerators
  <1>10. buffer' = buffer /\ empty' = empty
    BY DEF SetModulus
  <1> QED
    BY <1>1, <1>3, <1>4, <1>5, <1>7, <1>8, <1>9, <1>10, WriteGroup

LEMMA SetOrderStep ==
  ASSUME GroupsInv, NEW id \in GroupIds, SetOrder(id)
  PROVE  GroupsInv'
  <1> DEFINE r == Over(groups[id].q, buffer)
             group == [groups[id] EXCEPT !.q = r]
             s == [stored[id] EXCEPT !.q = buffer]
  <1>1. buffer \in Seq(Byte) /\ Len(buffer) <= MaxSmall
    BY GroupTypes DEF SetOrder, Given
  <1>2. r \in Register(MaxSmall) /\ Contents(r) = buffer
    BY <1>1, OverIsSet, SizesAreNat, GroupTypes
  <1>3. groups' = [groups EXCEPT ![id] = group] /\ stored' = [stored EXCEPT ![id] = s]
    BY DEF SetOrder, GroupsInv, Types
  <1> HIDE DEF r
  <1>4. group \in Group /\ group.q = r /\ s.q = buffer
    BY <1>2, GroupTypes DEF Group, StoredGroup
  <1>5. s \in StoredGroup
    BY <1>1, GroupTypes DEF StoredGroup
  <1>6. /\ group.modulus = groups[id].modulus /\ group.f = groups[id].f
        /\ group.g = groups[id].g /\ group.num_generators = groups[id].num_generators
        /\ s.modulus = stored[id].modulus /\ s.f = stored[id].f /\ s.g = stored[id].g
    BY GroupTypes DEF Group, StoredGroup
  <1> HIDE DEF group, s
  <1>7. Reads(group, s)
    BY <1>2, <1>4, <1>6, GroupTypes DEF Reads
  <1>8. Padded(group)
    BY <1>6, GroupTypes DEF Padded
  <1>9. id \notin empty => WellCounted(group)
    BY <1>6, GroupTypes, SameGenerators
  <1>10. buffer' = buffer /\ empty' = empty
    BY DEF SetOrder
  <1> QED
    BY <1>1, <1>3, <1>4, <1>5, <1>7, <1>8, <1>9, <1>10, WriteGroup

LEMMA SetCofactorStep ==
  ASSUME GroupsInv, NEW id \in GroupIds, SetCofactor(id)
  PROVE  GroupsInv'
  <1> DEFINE r == Over(groups[id].f, buffer)
             group == [groups[id] EXCEPT !.f = r]
             s == [stored[id] EXCEPT !.f = buffer]
  <1>1. buffer \in Seq(Byte) /\ Len(buffer) <= MaxBig
    BY GroupTypes DEF SetCofactor, Given
  <1>2. r \in Register(MaxBig) /\ Contents(r) = buffer
    BY <1>1, OverIsSet, SizesAreNat, GroupTypes
  <1>3. groups' = [groups EXCEPT ![id] = group] /\ stored' = [stored EXCEPT ![id] = s]
    BY DEF SetCofactor, GroupsInv, Types
  <1> HIDE DEF r
  <1>4. group \in Group /\ group.f = r /\ s.f = buffer
    BY <1>2, GroupTypes DEF Group, StoredGroup
  <1>5. s \in StoredGroup
    BY <1>1, GroupTypes DEF StoredGroup
  <1>6. /\ group.modulus = groups[id].modulus /\ group.q = groups[id].q
        /\ group.g = groups[id].g /\ group.num_generators = groups[id].num_generators
        /\ s.modulus = stored[id].modulus /\ s.q = stored[id].q /\ s.g = stored[id].g
    BY GroupTypes DEF Group, StoredGroup
  <1> HIDE DEF group, s
  <1>7. Reads(group, s)
    BY <1>2, <1>4, <1>6, GroupTypes DEF Reads
  <1>8. Padded(group)
    BY <1>6, GroupTypes DEF Padded
  <1>9. id \notin empty => WellCounted(group)
    BY <1>6, GroupTypes, SameGenerators
  <1>10. buffer' = buffer /\ empty' = empty
    BY DEF SetCofactor
  <1> QED
    BY <1>1, <1>3, <1>4, <1>5, <1>7, <1>8, <1>9, <1>10, WriteGroup

\* A generator more is one more present; one that is replaced is there already.  There are
\* fewer generators than values of a byte, so that the count does not wrap.
LEMMA CountedGenerator ==
  ASSUME NEW group \in Group, NEW gen \in Gens, NEW r \in Register(MaxBig), r.size > 0,
         NEW new \in Group, new.g = [group.g EXCEPT ![gen] = r],
         new.num_generators = Counted(group, gen), WellCounted(group)
  PROVE  WellCounted(new)
  <1>1. group.g \in [Gens -> Register(MaxBig)] /\ group.g[gen].size \in Nat
    BY SizesAreNat DEF Group, Register
  <1>2. Present(new) = Present(group) \cup {gen}
    BY <1>1 DEF Present
  <1>3. /\ IsFiniteSet(Present(group)) /\ Cardinality(Present(group)) \in Nat
        /\ IsFiniteSet(Present(new)) /\ Cardinality(Present(new)) \in Nat
        /\ Cardinality(Present(new)) <= Cardinality(Gens) /\ Cardinality(Gens) \in Nat
    <2>1. Present(group) \subseteq Gens /\ Present(new) \subseteq Gens
      BY DEF Present
    <2> QED
      BY <2>1, GroupsAssumption, FS_Subset, FS_CardinalityType
  <1>4. CASE group.g[gen].size = 0
    <2>1. gen \notin Present(group)
      BY <1>4 DEF Present
    <2>2. Cardinality(Present(new)) = Cardinality(Present(group)) + 1
      BY <1>2, <1>3, <2>1, FS_AddElement
    <2>3. Cardinality(Present(group)) + 1 \in 0 .. Base - 1
      BY <1>3, <2>2, GroupsAssumption, BaseAssumption
    <2>4. (Cardinality(Present(group)) + 1) % Base = Cardinality(Present(group)) + 1
      BY <2>3, BaseAssumption
    <2> QED
      BY <1>4, <2>2, <2>4 DEF WellCounted, Counted
  <1>5. CASE group.g[gen].size # 0
    <2>1. gen \in Present(group)
      BY <1>1, <1>5 DEF Present
    <2>2. Present(new) = Present(group)
      BY <1>2, <2>1
    <2> QED
      BY <1>5, <2>2 DEF WellCounted, Counted
  <1> QED
    BY <1>4, <1>5

LEMMA SetGeneratorStep ==
  ASSUME GroupsInv, NEW id \in GroupIds, NEW gen \in Gens, SetGenerator(id, gen)
  PROVE  GroupsInv'
  <1> DEFINE r == Over(groups[id].g[gen], buffer)
             count == Counted(groups[id], gen)
             group == [groups[id] EXCEPT !.g[gen] = r, !.num_generators = count]
             s == [stored[id] EXCEPT !.g[gen] = buffer]
  <1>1. buffer \in Seq(Byte) /\ Len(buffer) <= MaxBig
    BY GroupTypes DEF SetGenerator, Given
  <1>2. r \in Register(MaxBig) /\ r.size = Len(buffer) /\ Contents(r) = buffer
    BY <1>1, OverIsSet, SizesAreNat, GroupTypes
  <1>3. groups' = [groups EXCEPT ![id] = group] /\ stored' = [stored EXCEPT ![id] = s]
    BY DEF SetGenerator, GroupsInv, Types
  <1>4. count \in Byte
    BY GroupTypes, BaseAssumption DEF Counted, Byte
  <1> HIDE DEF r, count
  <1>5. /\ group \in Group /\ group.g = [groups[id].g EXCEPT ![gen] = r]
        /\ group.num_generators = count
    BY <1>2, <1>4, GroupTypes DEF Group
  <1>6. s \in StoredGroup /\ s.g = [stored[id].g EXCEPT ![gen] = buffer]
    BY <1>1, GroupTypes DEF StoredGroup
  <1>7. /\ group.modulus = groups[id].modulus /\ group.q = groups[id].q
        /\ group.f = groups[id].f
        /\ s.modulus = stored[id].modulus /\ s.q = stored[id].q /\ s.f = stored[id].f
    BY GroupTypes DEF Group, StoredGroup
  <1> HIDE DEF group, s
  <1>8. Reads(group, s)
    <2>1. stored[id].g \in [Gens -> Seq(Byte)]
      BY GroupTypes DEF StoredGroup
    <2>2. ASSUME NEW x \in Gens
          PROVE  Contents(group.g[x]) = s.g[x]
      <3>1. CASE x = gen
        BY <1>2, <1>5, <1>6, <2>1, <3>1, GroupTypes
      <3>2. CASE x # gen
        BY <1>5, <1>6, <2>1, <3>2, GroupTypes DEF Reads
      <3> QED
        BY <3>1, <3>2
    <2> QED
      BY <1>7, <2>2, GroupTypes DEF Reads
  <1>9. Padded(group)
    BY <1>7, GroupTypes DEF Padded
  <1>10. buffer' = buffer /\ empty \subseteq empty' /\ (buffer = <<>> => id \in empty')
    BY DEF SetGenerator
  <1>11. ASSUME id \notin empty'
         PROVE  WellCounted(group)
    <2>1. id \notin empty /\ buffer # <<>>
      BY <1>10, <1>11
    <2>2. r.size > 0
      BY <1>1, <1>2, <2>1
    <2>3. WellCounted(groups[id]) /\ groups[id] \in Group
      BY <2>1, GroupTypes
    <2> QED
      BY <1>2, <1>5, <2>2, <2>3, CountedGenerator DEF count
  <1> QED
    BY <1>1, <1>3, <1>5, <1>6, <1>8, <1>9, <1>10, <1>11, WriteGroup

\* The sizes go: nothing is read and nothing counted.
LEMMA EmptiedGroup ==
  ASSUME NEW group \in Group
  PROVE  /\ Emptied(group) \in Group
         /\ Reads(Emptied(group), Nothing) /\ Padded(Emptied(group))
         /\ WellCounted(Emptied(group))
  <1> DEFINE new == Emptied(group)
  <1>1. /\ group.modulus \in Register(MaxBig) /\ group.q \in Register(MaxSmall)
        /\ group.f \in Register(MaxBig) /\ group.g \in [Gens -> Register(MaxBig)]
    BY DEF Group
  <1>2. /\ new.modulus = [group.modulus EXCEPT !.size = 0]
        /\ new.q = [group.q EXCEPT !.size = 0] /\ new.f = [group.f EXCEPT !.size = 0]
        /\ new.g = [gen \in Gens |-> [group.g[gen] EXCEPT !.size = 0]]
        /\ new.num_generators = 0
    BY DEF Emptied, Group
  <1>3. /\ new.modulus \in Register(MaxBig) /\ new.q \in Register(MaxSmall)
        /\ new.f \in Register(MaxBig) /\ new.modulus.size = 0
        /\ Contents(new.modulus) = <<>> /\ Contents(new.q) = <<>> /\ Contents(new.f) = <<>>
    BY <1>1, <1>2, SizesAreNat, EmptiedRegister
  <1>4. ASSUME NEW gen \in Gens
        PROVE  /\ new.g[gen] \in Register(MaxBig)
               /\ new.g[gen].size = 0
               /\ Contents(new.g[gen]) = <<>>
    <2>1. new.g[gen] = [group.g[gen] EXCEPT !.size = 0]
      BY <1>2
    <2> QED
      BY <1>1, <2>1, SizesAreNat, EmptiedRegister
  <1>5. new \in Group
    <2>1. new.g \in [Gens -> Register(MaxBig)] /\ 0 \in Byte
      BY <1>2, <1>4, BaseAssumption DEF Byte
    <2> DEFINE modulus == [group.modulus EXCEPT !.size = 0]
               q == [group.q EXCEPT !.size = 0]
               f == [group.f EXCEPT !.size = 0]
               g == [gen \in Gens |-> [group.g[gen] EXCEPT !.size = 0]]
    <2>2. new = [group EXCEPT !.modulus = modulus, !.q = q, !.f = f, !.g = g,
                              !.num_generators = 0]
      BY DEF Emptied, Group
    <2>3. /\ modulus \in Register(MaxBig) /\ q \in Register(MaxSmall) /\ f \in Register(MaxBig)
          /\ g \in [Gens -> Register(MaxBig)]
      BY <1>2, <1>3, <2>1
    <2> HIDE DEF new, modulus, q, f, g
    <2> QED
      BY <2>1, <2>2, <2>3 DEF Group
  <1> HIDE DEF new
  <1>6. Reads(new, Nothing)
    BY <1>3, <1>4 DEF Reads, Nothing
  <1>7. Padded(new)
    BY <1>3 DEF Padded
  <1>8. Present(new) = {}
    BY <1>4 DEF Present
  <1>9. WellCounted(new)
    BY <1>2, <1>8, FS_EmptySet DEF WellCounted
  <1> QED
    BY <1>5, <1>6, <1>7, <1>9 DEF new

LEMMA NothingStored == Nothing \in StoredGroup
  BY DEF Nothing, StoredGroup

LEMMA RemoveGroupStep ==
  ASSUME GroupsInv, NEW id \in GroupIds, RemoveGroup(id)
  PROVE  GroupsInv'
  <1>1. groups' = [groups EXCEPT ![id] = Emptied(groups[id])]
        /\ stored' = [stored EXCEPT ![id] = Nothing]
    BY DEF RemoveGroup, GroupsInv, Types
  <1>2. buffer' = buffer /\ empty \subseteq empty' \cup {id}
    BY DEF RemoveGroup
  <1>3. groups[id] \in Group /\ buffer \in Seq(Byte)
    BY GroupTypes
  <1> QED
    BY <1>1, <1>2, <1>3, EmptiedGroup, NothingStored, WriteGroup

\* SET_VIRGIN_MODE and the start of the program leave nothing.
LEMMA EmptyGroups ==
  /\ ZeroGroup \in Group /\ Reads(ZeroGroup, Nothing) /\ Padded(ZeroGroup)
  /\ WellCounted(ZeroGroup)
  <1>1. /\ Zero(MaxBig) \in Register(MaxBig) /\ Zero(MaxBig).size = 0
        /\ Contents(Zero(MaxBig)) = <<>>
        /\ Zero(MaxSmall) \in Register(MaxSmall) /\ Contents(Zero(MaxSmall)) = <<>>
    BY SizesAreNat, ZeroIsEmpty
  <1>2. ZeroGroup \in Group
    BY <1>1, BaseAssumption DEF ZeroGroup, Group, Byte
  <1>3. Reads(ZeroGroup, Nothing) /\ Padded(ZeroGroup)
    BY <1>1 DEF ZeroGroup, Reads, Padded, Nothing
  <1>4. Present(ZeroGroup) = {}
    BY <1>1 DEF ZeroGroup, Present
  <1>5. WellCounted(ZeroGroup)
    BY <1>4, FS_EmptySet DEF ZeroGroup, WellCounted
  <1> QED
    BY <1>2, <1>3, <1>5

LEMMA GroupsInit == Init => GroupsInv
  <1>1. SUFFICES ASSUME Init PROVE GroupsInv
    OBVIOUS
  <1>2. \A id \in GroupIds : groups[id] = ZeroGroup /\ stored[id] = Nothing
    BY <1>1 DEF Init
  <1>3. Types
    BY <1>1, EmptyGroups, NothingStored DEF Init, Types
  <1> QED
    BY <1>2, <1>3, EmptyGroups, Zenon DEF GroupsInv

LEMMA EraseStep == GroupsInv /\ Erase => GroupsInv'
  <1>1. SUFFICES ASSUME Erase PROVE GroupsInv'
    OBVIOUS
  <1>2. \A id \in GroupIds : groups'[id] = ZeroGroup /\ stored'[id] = Nothing
    BY <1>1 DEF Erase
  <1>3. Types'
    BY <1>1, EmptyGroups, NothingStored DEF Erase, Types
  <1>4. /\ (\A id \in GroupIds : Reads(groups[id], stored[id]))'
        /\ (\A id \in GroupIds : Padded(groups[id]))'
        /\ (\A id \in GroupIds : WellCounted(groups[id]))'
    BY <1>2, EmptyGroups DEF Reads, Padded, WellCounted, Present
  <1> QED
    BY <1>3, <1>4 DEF GroupsInv

\* What the readers leave in the buffer.
LEMMA ReadStep ==
  ASSUME GroupsInv, NEW id \in GroupIds, Read(id)
  PROVE  GroupsInv'
  <1>1. CASE ReadGroup(id)
    <2>1. buffer' \in Seq(Byte)
      BY <1>1, GroupTypes DEF ReadGroup
    <2> QED
      BY <1>1, <2>1, BufferStep DEF ReadGroup
  <1>2. CASE ReadGroupComponent(id)
    <2>1. /\ Contents(groups[id].modulus) \in Seq(Byte) /\ Contents(groups[id].q) \in Seq(Byte)
          /\ Contents(groups[id].f) \in Seq(Byte) /\ <<groups[id].num_generators>> \in Seq(Byte)
      BY GroupTypes, ContentsIsSequence, SizesAreNat
    <2>2. buffer' \in Seq(Byte)
      BY <1>2, <2>1 DEF ReadGroupComponent
    <2> QED
      BY <1>2, <2>2, BufferStep DEF ReadGroupComponent
  <1>3. ASSUME NEW gen \in Gens, ReadGenerator(id, gen)
        PROVE  GroupsInv'
    <2> DEFINE r == groups[id].g[gen]
    <2>1. r \in Register(MaxBig)
      BY GroupTypes
    <2>2. /\ buffer' = SubSeq(r.bytes, 1, r.size)
          /\ UNCHANGED <<groups, stored, empty>>
      BY <1>3 DEF ReadGenerator
    <2> HIDE DEF r
    <2>3. r.size \in 0..MaxBig /\ \A i \in 1..r.size : r.bytes[i] \in Byte
      BY <2>1, SizesAreNat DEF Register, Block
    <2>4. buffer' \in Seq(Byte)
      BY <2>2, <2>3, SizesAreNat, SubSeqProperties
    <2> QED
      BY <2>2, <2>4, BufferStep
  <1> QED
    BY <1>1, <1>2, <1>3 DEF Read

LEMMA GroupsNext ==
  ASSUME GroupsInv, [Next]_vars
  PROVE  GroupsInv'
  <1>1. CASE UNCHANGED vars
    <2>1. buffer \in Seq(Byte)
      BY DEF GroupsInv, Types
    <2> QED
      BY <1>1, <2>1, BufferStep DEF vars
  <1>2. ASSUME NEW data \in Data, PutData(data)
        PROVE  GroupsInv'
    BY <1>2, GroupsAssumption, BufferStep DEF PutData
  <1>3. ASSUME NEW id \in GroupIds, Set(id) \/ Read(id) \/ RemoveGroup(id)
        PROVE  GroupsInv'
    BY <1>3, SetModulusStep, SetOrderStep, SetCofactorStep, SetGeneratorStep, ReadStep,
       RemoveGroupStep DEF Set
  <1>4. CASE Erase
    BY <1>4, EraseStep
  <1> QED
    BY <1>1, <1>2, <1>3, <1>4 DEF Next

\* What was set, how many generators there are and the zeros before the modulus, together.
THEOREM GroupsInvariant == Spec => []GroupsInv
  BY GroupsInit, GroupsNext, PTL DEF Spec

\* TypeOK: every number of a group keeps its block and a size within it; in particular the
\* count of the generators is a byte.
THEOREM GroupsTypeCorrect == Spec => []TypeOK
  <1>1. GroupsInv => TypeOK
    BY DEF GroupsInv, Types, TypeOK
  <1> QED
    BY <1>1, GroupsInvariant, PTL

\* ReadsWhatWasSet: for any sizes, a component or a generator reads as it was set last,
\* although bytes of longer ones lie beside it and stay when the group is removed.
THEOREM ReadIsStored == Spec => []ReadsWhatWasSet
  <1>1. GroupsInv => ReadsWhatWasSet
    BY DEF GroupsInv, Reads, ReadsWhatWasSet
  <1> QED
    BY <1>1, GroupsInvariant, PTL

\* ModulusPadded: the zeros that the exponentiation expects before the modulus are there.
THEOREM ModulusIsPadded == Spec => []ModulusPadded
  <1>1. GroupsInv => ModulusPadded
    BY DEF GroupsInv, Padded, ModulusPadded, Exists
  <1> QED
    BY <1>1, GroupsInvariant, PTL

\* GeneratorsCounted: num_generators is the number of generators there are, unless one was set
\* from an empty buffer.
THEOREM GeneratorsAreCounted == Spec => []GeneratorsCounted
  <1>1. GroupsInv => GeneratorsCounted
    BY DEF GroupsInv, WellCounted, Present, GeneratorsCounted, HasGenerator
  <1> QED
    BY <1>1, GroupsInvariant, PTL

-----------------------------------------------------------------------------
(* What a sequence of bytes is worth.  *)

LEMMA Induction ==
  ASSUME NEW S \in SUBSET Nat, 0 \in S, \A n \in S : n + 1 \in S
  PROVE  S = Nat
  <1> DEFINE R == {xy \in Nat \X Nat : xy[1] < xy[2]}
             T == Nat \ S
  <1>1. IsWellFoundedOn(R, Nat)
    BY NatLessThanWellFounded, Zenon DEF OpToRel
  <1>2. \A x, y \in Nat : x < y => <<x, y>> \in R
    OBVIOUS
  <1> HIDE DEF R
  <1> SUFFICES ASSUME T # {} PROVE FALSE
    OBVIOUS
  <1>3. PICK x \in T : \A y \in T : ~ (<<y, x>> \in R)
    BY <1>1, WFMin
  <1>4. x \in Nat /\ x # 0 /\ x - 1 \in Nat /\ x - 1 < x /\ (x - 1) + 1 = x
    OBVIOUS
  <1>5. x - 1 \in S
    BY <1>2, <1>3, <1>4
  <1>6. QED
    BY <1>3, <1>4, <1>5

LEMMA InductionOnBytes ==
  ASSUME NEW S \in SUBSET Seq(Byte), <<>> \in S,
         \A s \in S, b \in Byte : Append(s, b) \in S
  PROVE  S = Seq(Byte)
  <1> DEFINE N == {n \in Nat : \A s \in Seq(Byte) : Len(s) = n => s \in S}
  <1>1. 0 \in N
    BY EmptySeq
  <1>2. ASSUME NEW n \in N PROVE n + 1 \in N
    <2> SUFFICES ASSUME NEW s \in Seq(Byte), Len(s) = n + 1 PROVE s \in S
      OBVIOUS
    <2>1. s # <<>>
      OBVIOUS
    <2>2. PICK t \in Seq(Byte), b \in Byte : s = Append(t, b)
      BY <2>1, SequenceEmptyOrAppend
    <2>3. Len(t) = n
      BY <2>2, AppendProperties
    <2> QED
      BY <2>2, <2>3
  <1> HIDE DEF N
  <1>3. N = Nat
    BY <1>1, <1>2, Induction DEF N
  <1>4. ASSUME NEW s \in Seq(Byte) PROVE s \in S
    <2>1. Len(s) \in N
      BY <1>3
    <2> QED
      BY <2>1 DEF N
  <1> QED
    BY <1>4

\* What the recursion in Value gives for each number of bytes.
Sums(s) == {v \in [0..Len(s) -> Nat] : /\ v[0] = 0
                                       /\ \A i \in 1..Len(s) : v[i] = v[i - 1] * Base + s[i]}

LEMMA BytesAreNat ==
  /\ Base \in Nat /\ Base > 1 /\ 0 \in Byte /\ 1 \in Byte
  /\ \A b \in Byte : b \in Nat /\ b < Base
  BY BaseAssumption DEF Byte

LEMMA SumsOfAppend ==
  ASSUME NEW s \in Seq(Byte), NEW b \in Byte, NEW v \in Sums(s)
  PROVE  [i \in 0..Len(s) + 1 |-> IF i <= Len(s) THEN v[i] ELSE v[Len(s)] * Base + b]
           \in Sums(Append(s, b))
  <1> DEFINE n == Len(s)
             w == [i \in 0..n + 1 |-> IF i <= n THEN v[i] ELSE v[n] * Base + b]
  <1>1. /\ Len(Append(s, b)) = n + 1 /\ n \in Nat /\ Append(s, b)[n + 1] = b
        /\ \A i \in 1..n : Append(s, b)[i] = s[i]
    BY AppendProperties
  <1>2. /\ v \in [0..n -> Nat] /\ v[0] = 0
        /\ \A i \in 1..n : v[i] = v[i - 1] * Base + s[i]
    BY DEF Sums
  <1> HIDE DEF n
  <1>3. w \in [0..n + 1 -> Nat] /\ w[0] = 0
    <2>1. v[n] * Base + b \in Nat
      <3>1. v[n] \in Nat /\ Base \in Nat /\ b \in Nat
        BY <1>1, <1>2, BytesAreNat
      <3> QED
        BY <3>1
    <2>2. \A i \in 0..n + 1 : i <= n => i \in 0..n
      BY <1>1
    <2> QED
      BY <1>1, <1>2, <2>1, <2>2
  <1>4. ASSUME NEW i \in 1..n + 1 PROVE w[i] = w[i - 1] * Base + Append(s, b)[i]
    <2>1. CASE i = n + 1
      BY <1>1, <2>1
    <2>2. CASE i # n + 1
      BY <1>1, <1>2, <2>2
    <2> QED
      BY <2>1, <2>2
  <1> HIDE DEF w
  <1>5. w \in Sums(Append(s, b))
    BY <1>1, <1>3, <1>4 DEF Sums
  <1> QED
    BY <1>5 DEF w, n

LEMMA SumsExist == \A s \in Seq(Byte) : Sums(s) # {}
  <1> DEFINE S == {s \in Seq(Byte) : Sums(s) # {}}
  <1>1. <<>> \in S
    <2>1. [i \in 0..0 |-> 0] \in Sums(<<>>)
      BY DEF Sums
    <2> QED
      BY <2>1
  <1>2. \A s \in S, b \in Byte : Append(s, b) \in S
    BY SumsOfAppend, AppendProperties
  <1> HIDE DEF S
  <1>3. S = Seq(Byte)
    BY <1>1, <1>2, InductionOnBytes DEF S
  <1> QED
    BY <1>3 DEF S

LEMMA ValueIsSum ==
  ASSUME NEW s \in Seq(Byte), NEW v \in Sums(s)
  PROVE  Value(s) = v[Len(s)]
  <1> DEFINE n == Len(s)
             Step(w) == [i \in 0..n |-> IF i = 0 THEN 0 ELSE w[i - 1] * Base + s[i]]
  <1>1. /\ n \in Nat /\ v \in [0..n -> Nat] /\ v[0] = 0
        /\ \A i \in 1..n : v[i] = v[i - 1] * Base + s[i]
    BY DEF Sums
  <1>2. v = Step(v)
    BY <1>1
  <1>3. ASSUME NEW w, w = Step(w) PROVE w = v
    <2> DEFINE N == {i \in Nat : i \in 0..n => w[i] = v[i]}
    <2>1. 0 \in N
      BY <1>1, <1>3
    <2>2. ASSUME NEW i \in N PROVE i + 1 \in N
      <3>0. i \in Nat /\ (i \in 0..n => w[i] = v[i])
        OBVIOUS
      <3> HIDE DEF N
      <3> SUFFICES ASSUME i + 1 \in 0..n PROVE w[i + 1] = v[i + 1]
        BY <3>0 DEF N
      <3>1. i \in 0..n /\ i + 1 \in 1..n /\ i + 1 # 0 /\ (i + 1) - 1 = i
        BY <1>1, <3>0
      <3>2. w[i] = v[i]
        BY <3>0, <3>1
      <3>3. w[i + 1] = w[i] * Base + s[i + 1]
        BY <1>3, <3>1
      <3>4. v[i + 1] = v[i] * Base + s[i + 1]
        BY <1>1, <3>1
      <3> QED
        BY <3>2, <3>3, <3>4
    <2> HIDE DEF N
    <2>3. N = Nat
      BY <2>1, <2>2, Induction DEF N
    <2>4. \A i \in 0..n : w[i] = v[i]
      BY <1>1, <2>3 DEF N
    <2>5. w = [i \in 0..n |-> w[i]]
      BY <1>3
    <2> QED
      BY <1>1, <2>4, <2>5
  <1> QED
    BY <1>2, <1>3, Zenon DEF Value

LEMMA ValueOfAppend ==
  /\ Value(<<>>) = 0
  /\ \A s \in Seq(Byte) : Value(s) \in Nat
  /\ \A s \in Seq(Byte), b \in Byte : Value(Append(s, b)) = Value(s) * Base + b
  <1>1. Value(<<>>) = 0
    <2>1. [i \in 0..0 |-> 0] \in Sums(<<>>)
      BY DEF Sums
    <2>2. Value(<<>>) = [i \in 0..0 |-> 0][Len(<<>>)]
      BY <2>1, ValueIsSum, EmptySeq
    <2> QED
      BY <2>2
  <1>2. ASSUME NEW s \in Seq(Byte) PROVE Value(s) \in Nat
    <2>1. PICK v \in Sums(s) : TRUE
      BY SumsExist
    <2>2. Value(s) = v[Len(s)]
      BY <2>1, ValueIsSum
    <2> QED
      BY <2>2 DEF Sums
  <1>3. ASSUME NEW s \in Seq(Byte), NEW b \in Byte PROVE Value(Append(s, b)) = Value(s) * Base + b
    <2>1. PICK v \in Sums(s) : TRUE
      BY SumsExist
    <2> DEFINE w == [i \in 0..Len(s) + 1 |-> IF i <= Len(s) THEN v[i] ELSE v[Len(s)] * Base + b]
    <2>2. w \in Sums(Append(s, b)) /\ Append(s, b) \in Seq(Byte) /\ Len(Append(s, b)) = Len(s) + 1
      BY SumsOfAppend, AppendProperties
    <2>3. Value(Append(s, b)) = w[Len(s) + 1]
      BY <2>2, ValueIsSum
    <2>4. Value(s) = v[Len(s)]
      BY ValueIsSum
    <2> QED
      BY <2>3, <2>4
  <1> QED
    BY <1>1, <1>2, <1>3

\* Base to the n.
Power(n) == Value(<<1>> \o Zeros(n))

LEMMA ZerosSequence ==
  ASSUME NEW n \in Nat
  PROVE  /\ Zeros(n) \in Seq(Byte) /\ Len(Zeros(n)) = n /\ Zeros(0) = <<>>
         /\ Zeros(n + 1) = Append(Zeros(n), 0)
  <1>1. Zeros(n) \in Seq(Byte) /\ Len(Zeros(n)) = n /\ \A i \in 1..n : Zeros(n)[i] = 0
    BY BytesAreNat DEF Zeros
  <1>2. Zeros(n + 1) \in Seq(Byte) /\ Len(Zeros(n + 1)) = n + 1
        /\ \A i \in 1..n + 1 : Zeros(n + 1)[i] = 0
    BY BytesAreNat DEF Zeros
  <1>3. Zeros(0) = <<>>
    BY DEF Zeros
  <1> HIDE DEF Zeros
  <1> DEFINE s == Append(Zeros(n), 0)
  <1>4. s \in Seq(Byte) /\ Len(s) = n + 1 /\ \A i \in 1..n : s[i] = 0
    BY <1>1, AppendProperties, BytesAreNat
  <1>5. s[n + 1] = 0
    BY <1>1, AppendProperties, BytesAreNat
  <1> HIDE DEF s
  <1>6. \A i \in 1..n + 1 : s[i] = Zeros(n + 1)[i]
    BY <1>2, <1>4, <1>5
  <1>7. s = Zeros(n + 1)
    BY <1>2, <1>4, <1>6, SeqEqual
  <1> QED
    BY <1>1, <1>3, <1>7 DEF s

LEMMA PowerIs ==
  /\ Power(0) = 1
  /\ \A n \in Nat : Power(n) \in Nat /\ Power(n) > 0 /\ Power(n + 1) = Power(n) * Base
  <1>1. <<1>> \in Seq(Byte) /\ Value(<<1>>) = 1
    <2>1. <<1>> = Append(<<>>, 1) /\ <<>> \in Seq(Byte)
      OBVIOUS
    <2>2. Value(<<1>>) = Value(<<>>) * Base + 1
      BY <2>1, ValueOfAppend, BytesAreNat
    <2> QED
      BY <2>2, ValueOfAppend, BytesAreNat
  <1>2. Power(0) = 1
    BY <1>1, ZerosSequence, ConcatEmptySeq DEF Power
  <1>3. ASSUME NEW n \in Nat PROVE Power(n) \in Nat /\ Power(n + 1) = Power(n) * Base
    <2>1. <<1>> \o Zeros(n) \in Seq(Byte)
      BY <1>1, ZerosSequence, ConcatProperties
    <2>2. <<1>> \o Zeros(n + 1) = Append(<<1>> \o Zeros(n), 0)
      <3>1. Zeros(n + 1) = Zeros(n) \o <<0>> /\ Zeros(n) \in Seq(Byte) /\ <<0>> \in Seq(Byte)
        <4>1. Zeros(n) \in Seq(Byte) /\ <<0>> \in Seq(Byte) /\ 0 \in Byte
          BY ZerosSequence, BytesAreNat
        <4>2. Append(Zeros(n), 0) = Zeros(n) \o <<0>>
          BY <4>1, AppendIsConcat
        <4> QED
          BY <4>1, <4>2, ZerosSequence
      <3>2. <<1>> \o Zeros(n + 1) = (<<1>> \o Zeros(n)) \o <<0>>
        BY <1>1, <3>1, ConcatAssociative
      <3> QED
        BY <2>1, <3>2, AppendIsConcat, BytesAreNat
    <2>3. Power(n + 1) = Power(n) * Base + 0
      BY <2>1, <2>2, ValueOfAppend, BytesAreNat DEF Power
    <2>4. Power(n) \in Nat
      BY <2>1, ValueOfAppend DEF Power
    <2> QED
      BY <2>3, <2>4, BytesAreNat
  <1>4. \A n \in Nat : Power(n) > 0
    <2> DEFINE N == {n \in Nat : Power(n) > 0}
    <2>1. 0 \in N
      BY <1>2
    <2>2. ASSUME NEW n \in N PROVE n + 1 \in N
      BY <1>3, BytesAreNat
    <2> HIDE DEF N
    <2>3. N = Nat
      BY <2>1, <2>2, Induction DEF N
    <2> QED
      BY <2>3 DEF N
  <1> QED
    BY <1>2, <1>3, <1>4

\* Bytes written behind others.
LEMMA ValueOfConcat ==
  ASSUME NEW a \in Seq(Byte), NEW b \in Seq(Byte)
  PROVE  Value(a \o b) = Value(a) * Power(Len(b)) + Value(b)
  <1> DEFINE S == {s \in Seq(Byte) : Value(a \o s) = Value(a) * Power(Len(s)) + Value(s)}
  <1>1. <<>> \in S
    <2>1. a \o <<>> = a /\ Len(<<>>) = 0 /\ Value(a) \in Nat
      BY ConcatEmptySeq, EmptySeq, ValueOfAppend
    <2> QED
      BY <2>1, ValueOfAppend, PowerIs
  <1>2. ASSUME NEW s \in S, NEW x \in Byte PROVE Append(s, x) \in S
    <2>1. s \in Seq(Byte) /\ Value(a \o s) = Value(a) * Power(Len(s)) + Value(s)
      OBVIOUS
    <2>2. Append(s, x) \in Seq(Byte) /\ Len(Append(s, x)) = Len(s) + 1 /\ a \o s \in Seq(Byte)
      BY <2>1, AppendProperties, ConcatProperties
    <2>3. a \o Append(s, x) = Append(a \o s, x)
      <3>1. Append(s, x) = s \o <<x>> /\ <<x>> \in Seq(Byte)
        BY <2>1, AppendIsConcat
      <3>2. a \o Append(s, x) = (a \o s) \o <<x>>
        BY <2>1, <3>1, ConcatAssociative
      <3> QED
        BY <2>2, <3>2, AppendIsConcat
    <2>4. Value(a \o Append(s, x)) = (Value(a) * Power(Len(s)) + Value(s)) * Base + x
      BY <2>1, <2>2, <2>3, ValueOfAppend
    <2>5. Value(Append(s, x)) = Value(s) * Base + x
      BY <2>1, ValueOfAppend
    <2>6. Power(Len(Append(s, x))) = Power(Len(s)) * Base
      BY <2>1, <2>2, PowerIs
    <2>7. /\ Value(a) \in Int /\ Power(Len(s)) \in Int /\ Value(s) \in Int /\ Base \in Int
          /\ x \in Int
      BY <2>1, ValueOfAppend, PowerIs, BytesAreNat
    <2>8. \A p, q, r, t, y \in Int : (p * q + r) * t + y = p * (q * t) + (r * t + y)
      OBVIOUS
    <2>9. (Value(a) * Power(Len(s)) + Value(s)) * Base + x
            = Value(a) * (Power(Len(s)) * Base) + (Value(s) * Base + x)
      BY <2>7, <2>8
    <2> QED
      BY <2>2, <2>4, <2>5, <2>6, <2>9
  <1> HIDE DEF S
  <1>3. S = Seq(Byte)
    BY <1>1, <1>2, InductionOnBytes DEF S
  <1> QED
    BY <1>3 DEF S

LEMMA ValueBelowPower ==
  ASSUME NEW s \in Seq(Byte)
  PROVE  Value(s) \in Nat /\ Value(s) < Power(Len(s))
  <1> DEFINE S == {t \in Seq(Byte) : Value(t) < Power(Len(t))}
  <1>1. <<>> \in S
    BY ValueOfAppend, PowerIs, EmptySeq
  <1>2. ASSUME NEW t \in S, NEW x \in Byte PROVE Append(t, x) \in S
    <2>1. t \in Seq(Byte) /\ Value(t) < Power(Len(t)) /\ Value(t) \in Nat
          /\ Power(Len(t)) \in Nat /\ Len(t) \in Nat
      BY ValueOfAppend, PowerIs
    <2>2. Value(Append(t, x)) = Value(t) * Base + x
      BY <2>1, ValueOfAppend
    <2>3. Append(t, x) \in Seq(Byte) /\ Len(Append(t, x)) = Len(t) + 1
      BY <2>1, AppendProperties
    <2>4. Power(Len(t) + 1) = Power(Len(t)) * Base
      BY <2>1, PowerIs
    <2>5. \A v, p, b \in Nat, y \in Nat : v < p /\ y < b => v * b + y < p * b
      <3> SUFFICES ASSUME NEW v \in Nat, NEW p \in Nat, NEW b \in Nat, NEW y \in Nat, v < p, y < b
                   PROVE  v * b + y < p * b
        OBVIOUS
      <3>1. (v + 1) * b <= p * b
        OBVIOUS
      <3>2. (v + 1) * b = v * b + b
        OBVIOUS
      <3> QED
        BY <3>1, <3>2
    <2>6. Value(t) * Base + x < Power(Len(t)) * Base
      BY <2>1, <2>5, BytesAreNat
    <2> QED
      BY <2>2, <2>3, <2>4, <2>6
  <1> HIDE DEF S
  <1>3. S = Seq(Byte)
    BY <1>1, <1>2, InductionOnBytes DEF S
  <1> QED
    BY <1>3, ValueOfAppend DEF S

LEMMA ValueOfZeros == ASSUME NEW n \in Nat PROVE Value(Zeros(n)) = 0
  <1> DEFINE N == {m \in Nat : Value(Zeros(m)) = 0}
  <1>1. 0 \in N
    BY ZerosSequence, ValueOfAppend
  <1>2. ASSUME NEW m \in N PROVE m + 1 \in N
    <2>1. m \in Nat /\ Value(Zeros(m)) = 0
      OBVIOUS
    <2>2. Value(Zeros(m + 1)) = 0 * Base + 0
      BY <2>1, ZerosSequence, ValueOfAppend, BytesAreNat
    <2> QED
      BY <2>1, <2>2, BytesAreNat
  <1> HIDE DEF N
  <1>3. N = Nat
    BY <1>1, <1>2, Induction DEF N
  <1> QED
    BY <1>3 DEF N

LEMMA PowerOfSum ==
  ASSUME NEW m \in Nat, NEW n \in Nat
  PROVE  Power(m + n) = Power(m) * Power(n) /\ Power(m) <= Power(m + n)
  <1> DEFINE N == {k \in Nat : Power(m + k) = Power(m) * Power(k) /\ Power(m) <= Power(m + k)}
  <1>1. 0 \in N
    <2>1. m + 0 = m
      OBVIOUS
    <2> QED
      BY <2>1, PowerIs
  <1>2. ASSUME NEW k \in N PROVE k + 1 \in N
    <2>1. /\ k \in Nat /\ m + k \in Nat /\ m + (k + 1) = (m + k) + 1
          /\ Power(m + k) = Power(m) * Power(k) /\ Power(m) <= Power(m + k)
      OBVIOUS
    <2>2. /\ Power(m + (k + 1)) = Power(m + k) * Base /\ Power(k + 1) = Power(k) * Base
          /\ Power(m) \in Nat /\ Power(k) \in Nat /\ Power(m + k) \in Nat
      BY <2>1, PowerIs
    <2>3. (Power(m) * Power(k)) * Base = Power(m) * (Power(k) * Base)
      BY <2>2, BytesAreNat
    <2>4. Power(m + k) <= Power(m + k) * Base
      BY <2>2, BytesAreNat
    <2> QED
      BY <2>1, <2>2, <2>3, <2>4, BytesAreNat
  <1> HIDE DEF N
  <1>3. N = Nat
    BY <1>1, <1>2, Induction DEF N
  <1> QED
    BY <1>3 DEF N

-----------------------------------------------------------------------------
(* What the card writes.  *)

LEMMA DivisionByBase ==
  ASSUME NEW x \in Nat
  PROVE  x = (x \div Base) * Base + (x % Base) /\ x % Base \in Byte /\ x \div Base \in Nat
  BY BaseAssumption DEF Byte

\* What the recursion in Digits gives for each number of bytes.
Shifts(x, n) == {v \in [0..n -> Nat] : v[0] = x /\ \A i \in 1..n : v[i] = v[i - 1] \div Base}

LEMMA ShiftsExist == ASSUME NEW x \in Nat PROVE \A n \in Nat : Shifts(x, n) # {}
  <1> DEFINE N == {n \in Nat : Shifts(x, n) # {}}
  <1>1. 0 \in N
    <2>1. [i \in 0..0 |-> x] \in Shifts(x, 0)
      BY DEF Shifts
    <2> QED
      BY <2>1
  <1>2. ASSUME NEW n \in N PROVE n + 1 \in N
    <2>1. PICK v \in Shifts(x, n) : TRUE
      OBVIOUS
    <2>2. /\ n \in Nat /\ v \in [0..n -> Nat] /\ v[0] = x
          /\ \A i \in 1..n : v[i] = v[i - 1] \div Base
      BY DEF Shifts
    <2>3. PICK y \in Nat : y = v[n] \div Base
      BY <2>2, DivisionByBase
    <2> DEFINE w == [i \in 0..n + 1 |-> IF i <= n THEN v[i] ELSE y]
    <2>4. w \in [0..n + 1 -> Nat] /\ w[0] = x
      <3>1. \A i \in 0..n + 1 : i <= n => i \in 0..n
        BY <2>2
      <3> QED
        BY <2>2, <2>3, <3>1
    <2>5. ASSUME NEW i \in 1..n + 1 PROVE w[i] = w[i - 1] \div Base
      <3>1. CASE i = n + 1
        <4>1. i - 1 = n /\ ~ (i <= n) /\ i \in 0..n + 1 /\ n \in 0..n + 1 /\ n <= n
          BY <2>2, <3>1
        <4>2. w[i] = y /\ w[i - 1] = v[n]
          BY <4>1
        <4> QED
          BY <2>3, <4>2
      <3>2. CASE i # n + 1
        <4>1. i \in 1..n /\ i <= n /\ i - 1 <= n /\ i \in 0..n + 1 /\ i - 1 \in 0..n + 1
          BY <2>2, <3>2
        <4>2. w[i] = v[i] /\ w[i - 1] = v[i - 1]
          BY <4>1
        <4> QED
          BY <2>2, <4>1, <4>2
      <3> QED
        BY <3>1, <3>2
    <2> HIDE DEF w, N
    <2>6. w \in Shifts(x, n + 1)
      BY <2>2, <2>4, <2>5 DEF Shifts
    <2> QED
      BY <2>2, <2>6 DEF N
  <1> HIDE DEF N
  <1>3. N = Nat
    BY <1>1, <1>2, Induction DEF N
  <1> QED
    BY <1>3 DEF N

LEMMA DigitsAre ==
  ASSUME NEW x \in Nat, NEW n \in Nat, NEW v \in Shifts(x, n)
  PROVE  Digits(x, n) = [i \in 1..n |-> v[n - i] % Base]
  <1> DEFINE Step(w) == [i \in 0..n |-> IF i = 0 THEN x ELSE w[i - 1] \div Base]
  <1>1. /\ v \in [0..n -> Nat] /\ v[0] = x
        /\ \A i \in 1..n : v[i] = v[i - 1] \div Base
    BY DEF Shifts
  <1>2. v = Step(v)
    BY <1>1
  <1>3. ASSUME NEW w, w = Step(w) PROVE w = v
    <2> DEFINE N == {i \in Nat : i \in 0..n => w[i] = v[i]}
    <2>1. 0 \in N
      BY <1>1, <1>3
    <2>2. ASSUME NEW i \in N PROVE i + 1 \in N
      <3>1. i \in Nat /\ (i \in 0..n => w[i] = v[i])
        OBVIOUS
      <3> HIDE DEF N
      <3> SUFFICES ASSUME i + 1 \in 0..n PROVE w[i + 1] = v[i + 1]
        BY <3>1 DEF N
      <3>2. i \in 0..n /\ i + 1 \in 1..n /\ i + 1 # 0 /\ (i + 1) - 1 = i
        BY <3>1
      <3>3. w[i] = v[i]
        BY <3>1, <3>2
      <3>4. w[i + 1] = w[i] \div Base
        BY <1>3, <3>2
      <3>5. v[i + 1] = v[i] \div Base
        BY <1>1, <3>2
      <3> QED
        BY <3>3, <3>4, <3>5
    <2> HIDE DEF N
    <2>3. N = Nat
      BY <2>1, <2>2, Induction DEF N
    <2>4. \A i \in 0..n : w[i] = v[i]
      BY <2>3 DEF N
    <2>5. w = [i \in 0..n |-> w[i]]
      BY <1>3
    <2> QED
      BY <1>1, <2>4, <2>5
  <1> DEFINE shifted == CHOOSE w : w = Step(w)
  <1>4. shifted = v
    BY <1>2, <1>3, Zenon
  <1>5. Digits(x, n) = [i \in 1..n |-> shifted[n - i] % Base]
    BY DEF Digits
  <1> HIDE DEF shifted
  <1> QED
    BY <1>4, <1>5

\* mpz_export writes the number.
LEMMA ValueOfDigits ==
  ASSUME NEW n \in Nat, NEW x \in Nat, x < Power(n)
  PROVE  /\ Digits(x, n) \in Seq(Byte) /\ Len(Digits(x, n)) = n
         /\ Value(Digits(x, n)) = x
  <1> DEFINE d == Digits(x, n)
  <1>1. PICK v \in Shifts(x, n) : TRUE
    BY ShiftsExist
  <1>2. /\ v \in [0..n -> Nat] /\ v[0] = x
        /\ \A i \in 1..n : v[i] = v[i - 1] \div Base
    BY DEF Shifts
  <1>3. d = [i \in 1..n |-> v[n - i] % Base]
    BY DigitsAre
  <1> HIDE DEF d
  <1>4. d \in Seq(Byte) /\ Len(d) = n
    <2>1. \A i \in 1..n : v[n - i] % Base \in Byte
      BY <1>2, DivisionByBase
    <2> QED
      BY <1>3, <2>1
  <1>5. \A i \in 0..n : v[i] < Power(n - i)
    <2> DEFINE N == {i \in Nat : i \in 0..n => v[i] < Power(n - i)}
    <2>1. 0 \in N
      <3>1. n - 0 = n
        OBVIOUS
      <3> QED
        BY <1>2, <3>1
    <2>2. ASSUME NEW i \in N PROVE i + 1 \in N
      <3>1. i \in Nat /\ (i \in 0..n => v[i] < Power(n - i))
        OBVIOUS
      <3> HIDE DEF N
      <3> SUFFICES ASSUME i + 1 \in 0..n PROVE v[i + 1] < Power(n - (i + 1))
        BY <3>1 DEF N
      <3> DEFINE p == Power(n - (i + 1))
                 y == v[i] \div Base
      <3>2. i \in 0..n /\ i + 1 \in 1..n /\ (i + 1) - 1 = i
            /\ n - (i + 1) \in Nat /\ (n - (i + 1)) + 1 = n - i
        BY <3>1
      <3>3. Power(n - i) = p * Base /\ p \in Nat
        BY <3>2, PowerIs
      <3>4. v[i] < p * Base /\ v[i] \in Nat
        BY <1>2, <3>1, <3>2, <3>3
      <3>5. v[i] = y * Base + (v[i] % Base) /\ v[i] % Base \in Nat /\ y \in Nat
        BY <3>4, DivisionByBase, BytesAreNat
      <3>6. v[i + 1] = y
        BY <1>2, <3>2
      <3> HIDE DEF y, p
      <3>7. y * Base < p * Base
        <4>1. y * Base \in Nat /\ p * Base \in Nat
          BY <3>3, <3>5, BytesAreNat
        <4> QED
          BY <3>4, <3>5, <4>1
      <3>8. \A a, b \in Nat : a * Base < b * Base => a < b
        BY BytesAreNat
      <3>9. y < p
        BY <3>3, <3>5, <3>7, <3>8
      <3> QED
        BY <3>6, <3>9 DEF p
    <2> HIDE DEF N
    <2>3. N = Nat
      BY <2>1, <2>2, Induction DEF N
    <2> QED
      BY <2>3 DEF N
  <1>6. \A k \in 0..n : Value(SubSeq(d, 1, k)) = v[n - k]
    <2> DEFINE N == {k \in Nat : k \in 0..n => Value(SubSeq(d, 1, k)) = v[n - k]}
    <2>1. 0 \in N
      <3>1. SubSeq(d, 1, 0) = <<>>
        BY SubSeqEmpty
      <3>2. n - 0 = n /\ n - n = 0 /\ n \in 0..n
        OBVIOUS
      <3>3. v[n] < 1 /\ v[n] \in Nat
        BY <1>2, <1>5, <3>2, PowerIs
      <3>4. v[n] = 0
        BY <3>3
      <3>5. Value(SubSeq(d, 1, 0)) = v[n - 0]
        BY <3>1, <3>2, <3>4, ValueOfAppend
      <3> QED
        BY <3>5
    <2>2. ASSUME NEW k \in N PROVE k + 1 \in N
      <3>1. k \in Nat /\ (k \in 0..n => Value(SubSeq(d, 1, k)) = v[n - k])
        OBVIOUS
      <3> HIDE DEF N
      <3> SUFFICES ASSUME k + 1 \in 0..n PROVE Value(SubSeq(d, 1, k + 1)) = v[n - (k + 1)]
        BY <3>1 DEF N
      <3> DEFINE j == n - (k + 1)
      <3>2. k \in 0..n /\ k + 1 \in 1..n /\ j \in 0..n /\ n - k \in 1..n /\ (n - k) - 1 = j
            /\ (k + 1) - 1 = k
        BY <3>1
      <3>3. d[k + 1] = v[j] % Base
        BY <1>3, <3>2
      <3>4. v[n - k] = v[j] \div Base
        BY <1>2, <3>2
      <3>5. v[j] = (v[j] \div Base) * Base + (v[j] % Base) /\ v[j] % Base \in Byte
        BY <1>2, <3>2, DivisionByBase
      <3>6. SubSeq(d, 1, k) \in Seq(Byte)
        <4>1. \A i \in 1..k : d[i] \in Byte
          BY <1>4, <3>2, ElementOfSeq
        <4> QED
          BY <3>1, <4>1, SubSeqProperties
      <3>7. SubSeq(d, 1, k + 1) = SubSeq(d, 1, k) \o <<d[k + 1]>>
        <4>1. 1 \in 1..Len(d) /\ k + 1 \in 1..Len(d)
          BY <1>4, <3>2
        <4> QED
          BY <1>4, <3>2, <4>1, SubSeqRecursiveSecond
      <3>8. SubSeq(d, 1, k + 1) = Append(SubSeq(d, 1, k), v[j] % Base)
        BY <3>3, <3>5, <3>6, <3>7, AppendIsConcat
      <3>9. Value(SubSeq(d, 1, k + 1)) = Value(SubSeq(d, 1, k)) * Base + (v[j] % Base)
        BY <3>5, <3>6, <3>8, ValueOfAppend
      <3> QED
        BY <3>1, <3>2, <3>4, <3>5, <3>9
    <2> HIDE DEF N
    <2>3. N = Nat
      BY <2>1, <2>2, Induction DEF N
    <2> QED
      BY <2>3 DEF N
  <1>7. Value(d) = x
    <2>1. SubSeq(d, 1, n) = d /\ n - n = 0 /\ n \in 0..n
      BY <1>4, SubSeqFull
    <2> QED
      BY <1>2, <1>6, <2>1
  <1> QED
    BY <1>4, <1>7 DEF d

LEMMA ValueOfExport ==
  ASSUME NEW block \in Seq(Byte), NEW x \in Nat, x # 0, x < Power(Len(block))
  PROVE  /\ Export(block, x) \in Seq(Byte) /\ Len(Export(block, x)) = Len(block)
         /\ Value(Export(block, x)) = x
  BY ValueOfDigits, LenProperties DEF Export

\* The n bytes on the right and what is left of them; a number that has no more than n bytes
\* is the one on the right.
LEMMA ValueOfRight ==
  ASSUME NEW s \in Seq(Byte), NEW n \in 0..Len(s)
  PROVE  /\ SubSeq(s, 1, Len(s) - n) \in Seq(Byte) /\ Len(SubSeq(s, 1, Len(s) - n)) = Len(s) - n
         /\ Right(s, n) \in Seq(Byte) /\ Len(Right(s, n)) = n
         /\ s = SubSeq(s, 1, Len(s) - n) \o Right(s, n)
         /\ Value(s) < Power(n) => /\ Value(SubSeq(s, 1, Len(s) - n)) = 0
                                  /\ Value(Right(s, n)) = Value(s)
  <1> DEFINE l == SubSeq(s, 1, Len(s) - n)
             r == SubSeq(s, Len(s) - n + 1, Len(s))
             k == Len(s) - n
  <1>1. k \in 0..Len(s) /\ Len(s) \in Nat /\ 1 - 1 = 0 /\ n \in Nat
    OBVIOUS
  <1>2. l \o r = s
    <2>1. 1 \in 1..Len(s) + 1 /\ k \in 1 - 1..Len(s) /\ Len(s) \in k..Len(s)
      BY <1>1
    <2>2. SubSeq(s, 1, k) \o SubSeq(s, k + 1, Len(s)) = SubSeq(s, 1, Len(s))
      BY <2>1, ConcatAdjacentSubSeq
    <2> QED
      BY <2>2, SubSeqFull
  <1>3. l \in Seq(Byte) /\ Len(l) = k /\ r \in Seq(Byte) /\ Len(r) = n
    <2>1. \A i \in 1..k : s[i] \in Byte
      BY <1>1, ElementOfSeq
    <2>2. \A i \in k + 1..Len(s) : s[i] \in Byte
      BY <1>1, ElementOfSeq
    <2>3. Len(r) = IF k + 1 <= Len(s) THEN Len(s) - (k + 1) + 1 ELSE 0
      BY <1>1, <2>2, SubSeqProperties
    <2>4. Len(r) = n
      BY <1>1, <2>3
    <2>5. l \in Seq(Byte) /\ Len(l) = IF 1 <= k THEN k - 1 + 1 ELSE 0
      BY <1>1, <2>1, SubSeqProperties
    <2>6. Len(l) = k
      BY <1>1, <2>5
    <2> QED
      BY <1>1, <2>2, <2>4, <2>5, <2>6, SubSeqProperties
  <1> HIDE DEF l, r
  <1>4. Value(s) = Value(l) * Power(n) + Value(r)
    BY <1>2, <1>3, ValueOfConcat
  <1>5. Value(l) \in Nat /\ Value(r) \in Nat /\ Power(n) \in Nat
    BY <1>1, <1>3, ValueOfAppend, PowerIs
  <1>6. \A a, p, b \in Nat : a * p + b < p => a = 0
    <2> SUFFICES ASSUME NEW a \in Nat, NEW p \in Nat, NEW b \in Nat, a * p + b < p, a # 0
                 PROVE  FALSE
      OBVIOUS
    <2>1. a * p >= p
      OBVIOUS
    <2> QED
      BY <2>1
  <1>7. ASSUME Value(s) < Power(n) PROVE Value(l) = 0 /\ Value(r) = Value(s)
    <2>1. Value(l) = 0
      BY <1>4, <1>5, <1>6, <1>7
    <2> QED
      BY <1>4, <1>5, <2>1
  <1>8. Right(s, n) = r
    BY DEF Right, r
  <1> QED
    BY <1>2, <1>3, <1>7, <1>8 DEF l

\* What is written over the right of a block, behind zeros, is the number of the block.
LEMMA ValueOfSetRight ==
  ASSUME NEW s \in Seq(Byte), NEW d \in Seq(Byte), Len(d) <= Len(s)
  PROVE  /\ SetRight(s, d) \in Seq(Byte) /\ Len(SetRight(s, d)) = Len(s)
         /\ Value(SubSeq(s, 1, Len(s) - Len(d))) = 0 => Value(SetRight(s, d)) = Value(d)
  <1> DEFINE l == SubSeq(s, 1, Len(s) - Len(d))
  <1>1. Len(d) \in 0..Len(s) /\ Len(d) \in Nat /\ Len(s) \in Nat
    BY LenProperties
  <1>2. l \in Seq(Byte) /\ Len(l) = Len(s) - Len(d)
    BY <1>1, ValueOfRight
  <1>3. SetRight(s, d) = l \o d
    BY DEF SetRight
  <1> HIDE DEF l
  <1>4. SetRight(s, d) \in Seq(Byte) /\ Len(SetRight(s, d)) = Len(s)
    BY <1>1, <1>2, <1>3, ConcatProperties
  <1>5. ASSUME Value(l) = 0 PROVE Value(SetRight(s, d)) = Value(d)
    <2>1. Value(SetRight(s, d)) = 0 * Power(Len(d)) + Value(d)
      BY <1>2, <1>3, <1>5, ValueOfConcat
    <2>2. Power(Len(d)) \in Nat /\ Value(d) \in Nat
      BY <1>1, PowerIs, ValueOfAppend
    <2> QED
      BY <2>1, <2>2
  <1> QED
    BY <1>4, <1>5 DEF l

\* Zeros are worth nothing, wherever they come from.
LEMMA ValueOfNothing ==
  ASSUME NEW s \in Seq(Byte), \A i \in 1..Len(s) : s[i] = 0
  PROVE  Value(s) = 0
  <1>1. Zeros(Len(s)) \in Seq(Byte) /\ Len(Zeros(Len(s))) = Len(s)
    BY ZerosSequence, LenProperties
  <1>2. \A i \in 1..Len(s) : s[i] = Zeros(Len(s))[i]
    BY DEF Zeros
  <1>3. s = Zeros(Len(s))
    BY <1>1, <1>2, SeqEqual
  <1> QED
    BY <1>3, ValueOfZeros, LenProperties

LEMMA ValueOfAligned ==
  ASSUME NEW n \in Nat, NEW s \in Seq(Byte), Len(s) <= n
  PROVE  /\ Aligned(s, n) \in Seq(Byte) /\ Len(Aligned(s, n)) = n
         /\ Value(Aligned(s, n)) = Value(s)
         /\ Len(s) = n => Aligned(s, n) = s
  <1> DEFINE z == Zeros(n)
             l == SubSeq(z, 1, n - Len(s))
  <1>1. z \in Seq(Byte) /\ Len(z) = n /\ \A i \in 1..n : z[i] = 0
    BY ZerosSequence DEF Zeros
  <1> HIDE DEF z
  <1>2. Len(s) \in 0..n /\ Len(s) \in Nat
    BY LenProperties
  <1>3. l \in Seq(Byte) /\ Len(l) = n - Len(s)
    BY <1>1, <1>2, ValueOfRight
  <1>4. \A i \in 1..Len(l) : l[i] = 0
    <2>1. \A i \in 1..n - Len(s) : z[i] \in Byte
      BY <1>1, <1>2, BytesAreNat
    <2>2. \A i \in 1..n - Len(s) - 1 + 1 : l[i] = z[1 + i - 1]
      BY <1>2, <2>1, SubSeqProperties
    <2>3. ASSUME NEW i \in 1..n - Len(s) PROVE l[i] = 0
      <3>1. i \in 1..n - Len(s) - 1 + 1 /\ 1 + i - 1 = i /\ i \in 1..n
        BY <1>2
      <3> QED
        BY <1>1, <2>2, <3>1
    <2> QED
      BY <1>3, <2>3
  <1>5. Value(l) = 0
    BY <1>3, <1>4, ValueOfNothing
  <1>6. Aligned(s, n) = SetRight(z, s)
    BY DEF Aligned, z
  <1>7. ASSUME Len(s) = n PROVE Aligned(s, n) = s
    <2>1. l = <<>>
      BY <1>2, <1>7, SubSeqEmpty
    <2>2. Aligned(s, n) = l \o s
      BY <1>1, <1>6 DEF SetRight
    <2> QED
      BY <2>1, <2>2, ConcatEmptySeq
  <1> QED
    BY <1>1, <1>2, <1>5, <1>6, <1>7, ValueOfSetRight

-----------------------------------------------------------------------------
(* Reducing.  *)

LEMMA Division ==
  ASSUME NEW x \in Int, NEW q \in Nat \ {0}
  PROVE  /\ x % q \in 0..q - 1 /\ \E d \in Int : x = q * d + (x % q)
         /\ \A d \in Int, r \in 0..q - 1 : x = q * d + r => x % q = r
  <1>1. x % q \in 0..q - 1 /\ x = q * (x \div q) + (x % q) /\ x \div q \in Int
    OBVIOUS
  <1>2. ASSUME NEW d \in Int, NEW e \in Int, NEW r \in 0..q - 1, NEW s \in 0..q - 1,
               q * d + r = q * e + s
        PROVE  r = s
    BY <1>2
  <1> QED
    BY <1>1, <1>2

\* A number that is smaller than the modulus is its own remainder.
LEMMA SmallRemainder ==
  ASSUME NEW q \in Nat \ {0}, NEW x \in 0..q - 1
  PROVE  x % q = x
  <1>1. x \in Int /\ x = q * 0 + x
    OBVIOUS
  <1> QED
    BY <1>1, Division

\* A number without zeros before it.
LEMMA ValueFromLeft ==
  ASSUME NEW q \in Seq(Byte), q # <<>>, q[1] # 0
  PROVE  Len(q) - 1 \in Nat /\ Power(Len(q) - 1) <= Value(q) /\ Value(q) \in Nat \ {0}
  <1> DEFINE n == Len(q)
             t == SubSeq(q, 2, n)
             h == SubSeq(q, 1, 1)
  <1>1. n \in Nat /\ n >= 1 /\ n - 1 \in Nat /\ n - 1 \in 0..n /\ q[1] \in Byte
    BY EmptySeq, ElementOfSeq
  <1>2. /\ n - (n - 1) = 1 /\ n - (n - 1) + 1 = 2
    BY <1>1
  <1>3. /\ h \in Seq(Byte) /\ t \in Seq(Byte) /\ Len(t) = n - 1 /\ q = h \o t
    BY <1>1, <1>2, ValueOfRight DEF Right
  <1>4. Value(h) = q[1]
    <2>1. h = <<q[1]>> \o SubSeq(q, 2, 1) /\ SubSeq(q, 2, 1) = <<>>
      BY <1>1, SubSeqRecursiveFirst, SubSeqEmpty
    <2>2. <<q[1]>> = Append(<<>>, q[1]) /\ <<>> \in Seq(Byte) /\ <<q[1]>> \in Seq(Byte)
      BY <1>1
    <2>3. h = Append(<<>>, q[1])
      BY <2>1, <2>2, ConcatEmptySeq
    <2>4. Value(h) = 0 * Base + q[1]
      BY <1>1, <2>2, <2>3, ValueOfAppend
    <2> QED
      BY <1>1, <2>4, BytesAreNat
  <1> HIDE DEF n, t, h
  <1>5. Value(q) = q[1] * Power(n - 1) + Value(t)
    BY <1>3, <1>4, ValueOfConcat
  <1>6. /\ q[1] \in Nat /\ q[1] >= 1 /\ Power(n - 1) \in Nat /\ Power(n - 1) > 0
        /\ Value(t) \in Nat
    <2>1. q[1] \in Nat
      BY <1>1, BytesAreNat
    <2>2. q[1] >= 1
      BY <2>1
    <2> QED
      BY <1>1, <1>3, <2>1, <2>2, PowerIs, ValueOfAppend
  <1>7. \A a, p, b \in Nat : a >= 1 => p <= a * p + b
    <2> SUFFICES ASSUME NEW a \in Nat, NEW p \in Nat, NEW b \in Nat, a >= 1
                 PROVE  p <= a * p + b
      OBVIOUS
    <2>1. p <= a * p
      OBVIOUS
    <2> QED
      BY <2>1
  <1>8. Power(n - 1) <= Value(q) /\ Value(q) \in Nat
    BY <1>5, <1>6, <1>7, ValueOfAppend
  <1> QED
    BY <1>1, <1>6, <1>8 DEF n

\* Of a number as long as the modulus, mModularReduction leaves the remainder.
LEMMA ValueOfReduction ==
  ASSUME NEW s \in Seq(Byte), NEW q \in Seq(Byte), Len(s) = Len(q), Value(q) # 0,
         Value(s) % Value(q) # 0
  PROVE  /\ ModularReduction(s, q) \in Seq(Byte) /\ Len(ModularReduction(s, q)) = Len(q)
         /\ Value(ModularReduction(s, q)) = Value(s) % Value(q)
  <1> DEFINE x == Value(s) % Value(q)
  <1>1. Value(s) \in Nat /\ Value(q) \in Nat \ {0} /\ Value(q) < Power(Len(q))
        /\ Len(q) \in Nat /\ Power(Len(q)) \in Nat
    BY ValueBelowPower, PowerIs, LenProperties
  <1>2. x \in 0..Value(q) - 1
    <2>1. Value(s) \in Int
      BY <1>1
    <2> QED
      BY <1>1, <2>1, Division
  <1>3. x \in Nat /\ x # 0 /\ x < Power(Len(s))
    BY <1>1, <1>2
  <1>4. SubSeq(s, 1, Len(q)) = s /\ SubSeq(s, Len(q) + 1, Len(s)) = <<>>
    BY <1>1, SubSeqFull, SubSeqEmpty
  <1> HIDE DEF x
  <1>5. ModularReduction(s, q) = Export(s, x) \o <<>>
    BY <1>4 DEF ModularReduction, x
  <1>6. /\ Export(s, x) \in Seq(Byte) /\ Len(Export(s, x)) = Len(s) /\ Value(Export(s, x)) = x
    BY <1>3, ValueOfExport
  <1>7. ModularReduction(s, q) = Export(s, x)
    BY <1>5, <1>6, ConcatEmptySeq
  <1> QED
    BY <1>6, <1>7 DEF x

\* A block with a number no longer than the modulus: the remainder, with zeros before it.
LEMMA ValueOfReduced ==
  ASSUME NEW b \in Seq(Byte), NEW size \in 0..Len(b), NEW q \in Seq(Byte), q # <<>>, q[1] # 0,
         size <= Len(q), Value(b) < Power(size), Value(b) % Value(q) # 0
  PROVE  /\ Reduced(b, size, q) \in Seq(Byte) /\ Len(Reduced(b, size, q)) = Len(b)
         /\ Value(Reduced(b, size, q)) = Value(b) % Value(q)
  <1>1. /\ Value(q) \in Nat \ {0} /\ Power(Len(q) - 1) <= Value(q) /\ Len(q) - 1 \in Nat
        /\ Len(q) \in Nat /\ size \in Nat /\ Value(b) \in Nat
    BY ValueFromLeft, ValueOfAppend, LenProperties
  <1>2. CASE size < Len(q)
    <2>1. Reduced(b, size, q) = b
      BY <1>1, <1>2 DEF Reduced
    <2>2. Power(size) <= Power(Len(q) - 1) /\ Power(size) \in Nat /\ Power(Len(q) - 1) \in Nat
      <3>1. PICK m \in Nat : size + m = Len(q) - 1
        <4>1. Len(q) - 1 - size \in Nat /\ size + (Len(q) - 1 - size) = Len(q) - 1
          BY <1>1, <1>2
        <4> QED
          BY <4>1
      <3> QED
        BY <1>1, <3>1, PowerOfSum, PowerIs
    <2>3. Value(b) \in 0..Value(q) - 1
      BY <1>1, <2>2
    <2>4. Value(b) % Value(q) = Value(b)
      BY <1>1, <2>3, SmallRemainder
    <2> QED
      BY <2>1, <2>4
  <1>3. CASE size = Len(q)
    <2> DEFINE r == Right(b, size)
               d == ModularReduction(r, q)
    <2>1. /\ r \in Seq(Byte) /\ Len(r) = size /\ Value(r) = Value(b)
          /\ Value(SubSeq(b, 1, Len(b) - size)) = 0
      BY ValueOfRight
    <2> HIDE DEF r
    <2>2. d \in Seq(Byte) /\ Len(d) = size /\ Value(d) = Value(b) % Value(q)
      BY <1>1, <1>3, <2>1, ValueOfReduction
    <2>3. Reduced(b, size, q) = SetRight(b, d)
      BY <1>1, <1>3 DEF Reduced, r
    <2> HIDE DEF d
    <2>4. Len(d) <= Len(b) /\ Value(SubSeq(b, 1, Len(b) - Len(d))) = 0
      BY <2>1, <2>2
    <2> QED
      BY <2>2, <2>3, <2>4, ValueOfSetRight
  <1> QED
    BY <1>1, <1>2, <1>3

-----------------------------------------------------------------------------
(* The base of a power.  *)

\* Left of the longest number a generator has been, its block was never written.
Untouched(block, n) == \A i \in 1..MaxBig - n : block[i] = 0

LongestInv ==
  /\ longest \in [GroupIds -> [Gens -> 0..MaxBig]]
  /\ \A id \in GroupIds, gen \in Gens : Untouched(groups[id].g[gen].bytes, longest[id][gen])

LEMMA LongestInit == Init => LongestInv
  <1> SUFFICES ASSUME Init PROVE LongestInv
    OBVIOUS
  <1>1. longest = [id \in GroupIds |-> [gen \in Gens |-> 0]]
        /\ groups = [id \in GroupIds |-> ZeroGroup]
    BY DEF Init
  <1>2. \A gen \in Gens : ZeroGroup.g[gen].bytes = Zeros(MaxBig)
    BY DEF ZeroGroup, Zero
  <1>3. \A i \in 1..MaxBig - 0 : Zeros(MaxBig)[i] = 0
    BY SizesAreNat DEF Zeros
  <1> QED
    BY <1>1, <1>2, <1>3, SizesAreNat DEF LongestInv, Untouched

LEMMA LongestErase == Erase => LongestInv'
  <1> SUFFICES ASSUME Erase PROVE LongestInv'
    OBVIOUS
  <1>1. longest' = [id \in GroupIds |-> [gen \in Gens |-> 0]]
        /\ groups' = [id \in GroupIds |-> ZeroGroup]
    BY DEF Erase
  <1>2. \A gen \in Gens : ZeroGroup.g[gen].bytes = Zeros(MaxBig)
    BY DEF ZeroGroup, Zero
  <1>3. \A i \in 1..MaxBig - 0 : Zeros(MaxBig)[i] = 0
    BY SizesAreNat DEF Zeros
  <1> QED
    BY <1>1, <1>2, <1>3, SizesAreNat DEF LongestInv, Untouched

\* A step that writes no byte of a generator.
LEMMA SameBytes ==
  ASSUME LongestInv, longest' = longest,
         \A id \in GroupIds, gen \in Gens : groups'[id].g[gen].bytes = groups[id].g[gen].bytes
  PROVE  LongestInv'
  BY DEF LongestInv, Untouched

\* The bytes of a number that is written begin within the longest one.
LEMMA OverUntouched ==
  ASSUME NEW b \in Block(MaxBig), NEW n \in 0..MaxBig, Untouched(b, n),
         NEW d \in Seq(Byte), Len(d) <= MaxBig, NEW m \in 0..MaxBig, n <= m, Len(d) <= m
  PROVE  Untouched(SetRight(b, d), m)
  <1> DEFINE l == SubSeq(b, 1, MaxBig - Len(d))
  <1>1. b \in Seq(Byte) /\ Len(b) = MaxBig /\ Len(d) \in 0..MaxBig /\ MaxBig \in Nat
    BY BlockIsSequence, SizesAreNat, LenProperties
  <1>2. l \in Seq(Byte) /\ Len(l) = MaxBig - Len(d) /\ SetRight(b, d) = l \o d
    BY <1>1, ValueOfRight DEF SetRight
  <1>3. \A i \in 1..Len(l) : l[i] = b[i]
    <2>1. \A i \in 1..MaxBig - Len(d) : b[i] \in Byte
      BY <1>1, ElementOfSeq
    <2>2. \A i \in 1..MaxBig - Len(d) - 1 + 1 : l[i] = b[1 + i - 1]
      BY <1>1, <2>1, SubSeqProperties
    <2>3. ASSUME NEW i \in 1..Len(l) PROVE l[i] = b[i]
      <3>1. i \in 1..MaxBig - Len(d) - 1 + 1 /\ 1 + i - 1 = i
        BY <1>1, <1>2
      <3> QED
        BY <2>2, <3>1
    <2> QED
      BY <2>3
  <1> HIDE DEF l
  <1>4. ASSUME NEW i \in 1..MaxBig - m PROVE SetRight(b, d)[i] = 0
    <2>1. i \in 1..Len(l) /\ i \in 1..Len(l) + Len(d) /\ i <= Len(l) /\ i \in 1..MaxBig - n
      BY <1>1, <1>2
    <2>2. (l \o d)[i] = l[i]
      BY <1>2, <2>1, ConcatProperties
    <2> QED
      BY <1>2, <1>3, <2>1, <2>2 DEF Untouched
  <1> QED
    BY <1>4 DEF Untouched

LEMMA LongestSet ==
  ASSUME GroupsInv, LongestInv, NEW id \in GroupIds, NEW gen \in Gens, SetGenerator(id, gen)
  PROVE  LongestInv'
  <1> DEFINE m == IF Len(buffer) > longest[id][gen] THEN Len(buffer) ELSE longest[id][gen]
             r == Over(groups[id].g[gen], buffer)
  <1>1. buffer \in Seq(Byte) /\ Len(buffer) <= MaxBig /\ Len(buffer) \in Nat
    BY GroupTypes, LenProperties DEF SetGenerator, Given
  <1>2. longest[id][gen] \in 0..MaxBig /\ groups[id].g[gen] \in Register(MaxBig)
    BY GroupTypes DEF LongestInv
  <1>3. m \in 0..MaxBig /\ longest[id][gen] <= m /\ Len(buffer) <= m
    BY <1>1, <1>2, SizesAreNat
  <1>4. r.bytes = SetRight(groups[id].g[gen].bytes, buffer)
    BY DEF Over
  <1>5. Untouched(r.bytes, m)
    BY <1>1, <1>2, <1>3, <1>4, OverUntouched DEF LongestInv, Register
  <1>6. longest' = [longest EXCEPT ![id][gen] = m]
    BY DEF SetGenerator, LongestInv
  <1>7. /\ groups' = [groups EXCEPT ![id].g[gen] = r,
                                    ![id].num_generators = Counted(groups[id], gen)]
    BY DEF SetGenerator, GroupsInv, Types
  <1> HIDE DEF m, r
  <1>8. longest' \in [GroupIds -> [Gens -> 0..MaxBig]] /\ longest'[id][gen] = m
    BY <1>3, <1>6 DEF LongestInv
  <1>9. groups'[id].g[gen] = r
    <2>1. groups'[id] = [groups[id] EXCEPT !.g[gen] = r,
                                           !.num_generators = Counted(groups[id], gen)]
      BY <1>7 DEF GroupsInv, Types
    <2> QED
      BY <2>1, GroupTypes DEF Group
  <1>10. ASSUME NEW x \in GroupIds, NEW y \in Gens, ~ (x = id /\ y = gen)
         PROVE  groups'[x].g[y] = groups[x].g[y] /\ longest'[x][y] = longest[x][y]
    <2>1. CASE x # id
      BY <1>6, <1>7, <2>1 DEF GroupsInv, Types, LongestInv
    <2>2. CASE x = id /\ y # gen
      <3>1. groups'[id] = [groups[id] EXCEPT !.g[gen] = r,
                                             !.num_generators = Counted(groups[id], gen)]
        BY <1>7 DEF GroupsInv, Types
      <3>2. groups'[id].g[y] = groups[id].g[y]
        BY <2>2, <3>1, GroupTypes DEF Group
      <3>3. longest'[id][y] = longest[id][y]
        BY <1>6, <2>2 DEF LongestInv
      <3> QED
        BY <2>2, <3>2, <3>3
    <2> QED
      BY <1>10, <2>1, <2>2
  <1>11. ASSUME NEW x \in GroupIds, NEW y \in Gens
         PROVE  Untouched(groups'[x].g[y].bytes, longest'[x][y])
    <2>1. CASE x = id /\ y = gen
      BY <1>5, <1>8, <1>9, <2>1
    <2>2. CASE ~ (x = id /\ y = gen)
      BY <1>10, <2>2 DEF LongestInv
    <2> QED
      BY <2>1, <2>2
  <1> QED
    BY <1>8, <1>11 DEF LongestInv, Untouched

LEMMA LongestNext ==
  ASSUME GroupsInv, LongestInv, [Next]_vars
  PROVE  LongestInv'
  <1>1. ASSUME UNCHANGED <<groups, longest>> PROVE LongestInv'
    BY <1>1, SameBytes
  <1>2. ASSUME NEW id \in GroupIds, SetModulus(id) \/ SetOrder(id) \/ SetCofactor(id)
        PROVE  LongestInv'
    <2>1. longest' = longest
      BY <1>2 DEF SetModulus, SetOrder, SetCofactor
    <2>2. ASSUME NEW x \in GroupIds PROVE groups'[x].g = groups[x].g
      <3>1. groups[x] \in Group /\ groups[id] \in Group
        BY GroupTypes
      <3>2. \/ \E y : groups' = [groups EXCEPT ![id].modulus = y]
            \/ \E y : groups' = [groups EXCEPT ![id].q = y]
            \/ \E y : groups' = [groups EXCEPT ![id].f = y]
        BY <1>2 DEF SetModulus, SetOrder, SetCofactor
      <3>3. groups \in [GroupIds -> Group]
        BY DEF GroupsInv, Types
      <3>4. \A y : /\ [groups[id] EXCEPT !.modulus = y].g = groups[id].g
                   /\ [groups[id] EXCEPT !.q = y].g = groups[id].g
                   /\ [groups[id] EXCEPT !.f = y].g = groups[id].g
        BY <3>1 DEF Group
      <3>5. \E y : groups' = [groups EXCEPT ![id] = y] /\ y.g = groups[id].g
        BY <3>2, <3>4
      <3>6. PICK y : groups' = [groups EXCEPT ![id] = y] /\ y.g = groups[id].g
        BY <3>5
      <3> QED
        BY <3>3, <3>6
    <2> QED
      BY <2>1, <2>2, SameBytes
  <1>3. ASSUME NEW id \in GroupIds, RemoveGroup(id)
        PROVE  LongestInv'
    <2>1. longest' = longest /\ groups' = [groups EXCEPT ![id] = Emptied(groups[id])]
      BY <1>3 DEF RemoveGroup, GroupsInv, Types
    <2>2. ASSUME NEW x \in GroupIds, NEW gen \in Gens
          PROVE  groups'[x].g[gen].bytes = groups[x].g[gen].bytes
      <3>1. CASE x = id
        <4>1. groups'[x] = Emptied(groups[x]) /\ groups[x] \in Group
          BY <2>1, <3>1, GroupTypes DEF GroupsInv, Types
        <4>2. Emptied(groups[x]).g[gen] = [groups[x].g[gen] EXCEPT !.size = 0]
          BY <4>1 DEF Emptied, Group
        <4>3. groups[x].g[gen] \in Register(MaxBig)
          BY GroupTypes
        <4> QED
          BY <4>1, <4>2, <4>3 DEF Register
      <3>2. CASE x # id
        BY <2>1, <3>2 DEF GroupsInv, Types
      <3> QED
        BY <3>1, <3>2
    <2> QED
      BY <2>1, <2>2, SameBytes
  <1>4. CASE UNCHANGED vars
    BY <1>1, <1>4 DEF vars
  <1>5. ASSUME NEW data \in Data, PutData(data) PROVE LongestInv'
    BY <1>1, <1>5 DEF PutData
  <1>6. ASSUME NEW id \in GroupIds, Read(id) PROVE LongestInv'
    BY <1>1, <1>6 DEF Read, ReadGroup, ReadGroupComponent, ReadGenerator
  <1>7. CASE Erase
    BY <1>7, LongestErase
  <1> QED
    BY <1>2, <1>3, <1>4, <1>5, <1>6, <1>7, LongestSet DEF Next, Set

\* The bytes of a generator left of the longest one there has been are zeros.
THEOREM LongestInvariant == Spec => []LongestInv
  BY LongestInit, LongestNext, GroupsInvariant, PTL DEF Spec

\* A generator as long as the modulus: the reduction leaves its remainder.
LEMMA BaseOfFullLength ==
  ASSUME NEW b \in Seq(Byte), NEW g \in Seq(Byte), NEW q \in Seq(Byte),
         Len(q) <= Len(b), Len(g) = Len(q), Right(b, Len(g)) = g,
         Value(q) # 0, Value(g) % Value(q) # 0
  PROVE  Value(Right(Reduced(b, Len(g), q), Len(q))) % Value(q) = Value(g) % Value(q)
  <1> DEFINE d == ModularReduction(g, q)
  <1>1. d \in Seq(Byte) /\ Len(d) = Len(q) /\ Value(d) = Value(g) % Value(q)
    BY ValueOfReduction
  <1>2. Reduced(b, Len(g), q) = SetRight(b, d)
    BY LenProperties DEF Reduced
  <1> HIDE DEF d
  <1>3. b \in Block(Len(b)) /\ Len(b) \in Nat
    BY LenProperties DEF Block
  <1>4. Right(SetRight(b, d), Len(q)) = d
    BY <1>1, <1>3, SetRightGivesRight
  <1>5. Value(g) \in Int /\ Value(q) \in Nat \ {0}
    BY ValueOfAppend
  <1>6. Value(g) % Value(q) \in 0..Value(q) - 1
    BY <1>5, Division
  <1>7. Value(d) % Value(q) = Value(d)
    BY <1>1, <1>5, <1>6, SmallRemainder
  <1> QED
    BY <1>1, <1>2, <1>4, <1>7

\* A shorter one, with nothing before it, is taken as it is.
LEMMA BaseOfShorter ==
  ASSUME NEW b \in Seq(Byte), NEW g \in Seq(Byte), NEW q \in Seq(Byte),
         Len(q) <= Len(b), Len(g) < Len(q), Right(b, Len(g)) = g,
         \A i \in 1..Len(b) - Len(g) : b[i] = 0
  PROVE  Value(Right(Reduced(b, Len(g), q), Len(q))) = Value(g)
  <1> DEFINE n == Len(g)
             l == SubSeq(b, 1, Len(b) - n)
  <1>1. n \in Nat /\ Len(q) \in Nat /\ Len(b) \in Nat /\ n \in 0..Len(b) /\ Len(q) \in 0..Len(b)
    BY LenProperties
  <1>2. Reduced(b, n, q) = b
    BY <1>1 DEF Reduced
  <1>3. l \in Seq(Byte) /\ Len(l) = Len(b) - n /\ b = l \o g
    BY <1>1, ValueOfRight
  <1>4. \A i \in 1..Len(l) : l[i] = 0
    <2> SUFFICES ASSUME NEW i \in 1..Len(l) PROVE l[i] = 0
      OBVIOUS
    <2>1. i <= Len(l) /\ i \in 1..Len(l) + Len(g) /\ i \in 1..Len(b) - Len(g)
      BY <1>1, <1>3
    <2>2. (l \o g)[i] = l[i]
      BY <1>3, <2>1, ConcatProperties
    <2> QED
      BY <1>3, <2>1, <2>2
  <1> HIDE DEF l
  <1>5. Value(l) = 0
    BY <1>3, <1>4, ValueOfNothing
  <1>6. Value(b) = Value(g)
    <2>1. Value(b) = 0 * Power(n) + Value(g)
      BY <1>3, <1>5, ValueOfConcat
    <2>2. Power(n) \in Nat /\ Value(g) \in Nat
      BY <1>1, PowerIs, ValueOfAppend
    <2> QED
      BY <2>1, <2>2
  <1>7. Value(g) < Power(Len(q))
    <2>1. PICK m \in Nat : n + m = Len(q)
      <3>1. Len(q) - n \in Nat /\ n + (Len(q) - n) = Len(q)
        BY <1>1
      <3> QED
        BY <3>1
    <2>2. Power(n) <= Power(Len(q)) /\ Power(n) \in Nat /\ Power(Len(q)) \in Nat
      BY <1>1, <2>1, PowerOfSum, PowerIs
    <2>3. Value(g) < Power(n) /\ Value(g) \in Nat
      BY ValueBelowPower
    <2> QED
      BY <2>2, <2>3
  <1>8. Value(Right(b, Len(q))) = Value(b)
    BY <1>1, <1>6, <1>7, ValueOfRight
  <1> QED
    BY <1>2, <1>6, <1>8

\* BaseIsGenerator: for any sizes, the power is taken of the generator that was set, if it is
\* as long as the modulus or covers whatever was in its place.
THEOREM BaseIsRight == Spec => []BaseIsGenerator
  <1>1. ASSUME GroupsInv, LongestInv, NEW id \in GroupIds, NEW gen \in Gens, Exists(id),
               Value(stored[id].modulus) # 0,
               Value(stored[id].g[gen]) % Value(stored[id].modulus) # 0,
               \/ Len(stored[id].g[gen]) = Len(stored[id].modulus)
               \/ /\ Len(stored[id].g[gen]) < Len(stored[id].modulus)
                  /\ Len(stored[id].g[gen]) = longest[id][gen]
        PROVE  Value(ExpoBase(id, gen)) % Value(stored[id].modulus)
                 = Value(stored[id].g[gen]) % Value(stored[id].modulus)
    <2> DEFINE r == groups[id].g[gen]
               b == r.bytes
               g == stored[id].g[gen]
               q == stored[id].modulus
    <2>1. /\ groups[id].modulus \in Register(MaxBig) /\ r \in Register(MaxBig)
          /\ Contents(groups[id].modulus) = q /\ Contents(r) = g
          /\ q \in Seq(Byte) /\ g \in Seq(Byte)
      <3>1. /\ groups[id].modulus \in Register(MaxBig) /\ groups[id].g[gen] \in Register(MaxBig)
            /\ Reads(groups[id], stored[id]) /\ stored[id] \in StoredGroup
        BY <1>1, GroupTypes
      <3> QED
        BY <3>1 DEF Reads, StoredGroup
    <2>2. b \in Seq(Byte) /\ Len(b) = MaxBig /\ MaxBig \in Nat
      BY <2>1, BlockIsSequence, SizesAreNat DEF Register
    <2>3. groups[id].modulus.size = Len(q) /\ Len(q) <= MaxBig
      BY <2>1, RightIsSequence, SizesAreNat DEF Contents, Register
    <2>4. r.size = Len(g) /\ Right(b, Len(g)) = g
      BY <2>1, RightIsSequence, SizesAreNat DEF Contents, Register
    <2>5. Untouched(b, longest[id][gen])
      BY <1>1, Zenon DEF LongestInv
    <2>6. ExpoBase(id, gen) = Right(Reduced(b, Len(g), q), Len(q))
      BY <2>1, <2>3, <2>4 DEF ExpoBase
    <2>7. Value(q) # 0 /\ Value(g) % Value(q) # 0
      BY <1>1
    <2>8. \/ Len(g) = Len(q)
          \/ Len(g) < Len(q) /\ Len(g) = longest[id][gen]
      BY <1>1
    <2> HIDE DEF r, b, g, q
    <2>9. CASE Len(g) = Len(q)
      BY <2>1, <2>2, <2>3, <2>4, <2>6, <2>7, <2>9, BaseOfFullLength DEF g, q
    <2>10. CASE Len(g) < Len(q) /\ Len(g) = longest[id][gen]
      <3>1. \A i \in 1..Len(b) - Len(g) : b[i] = 0
        BY <2>2, <2>5, <2>10 DEF Untouched
      <3>2. Len(q) <= Len(b)
        BY <2>2, <2>3
      <3>3. Value(Right(Reduced(b, Len(g), q), Len(q))) = Value(g)
        BY <2>1, <2>2, <2>4, <2>10, <3>1, <3>2, BaseOfShorter
      <3> QED
        BY <2>6, <3>3 DEF g, q
    <2> QED
      BY <2>8, <2>9, <2>10
  <1>2. GroupsInv /\ LongestInv => BaseIsGenerator
    BY <1>1, Zenon DEF BaseIsGenerator
  <1> QED
    BY <1>2, GroupsInvariant, LongestInvariant, PTL

-----------------------------------------------------------------------------
(* Responses.  *)

\* What lies before a block does not matter to what is read from or written to its right.
LEMMA RightBehind ==
  ASSUME NEW a \in Seq(Byte), NEW b \in Seq(Byte), NEW n \in 0..Len(b)
  PROVE  Right(a \o b, n) = Right(b, n)
  <1>1. Len(a) \in Nat /\ Len(b) \in Nat /\ n \in Nat /\ Len(a \o b) = Len(a) + Len(b)
    BY LenProperties, ConcatProperties
  <1>2. CASE n = 0
    <2>1. Right(a \o b, n) = <<>> /\ Right(b, n) = <<>>
      BY <1>1, <1>2, SubSeqEmpty DEF Right
    <2> QED
      BY <2>1
  <1>3. CASE n # 0
    <2> DEFINE i == Len(a) + Len(b) - n + 1
               j == Len(a) + Len(b)
    <2>1. /\ i \in Len(a) + 1..Len(a) + Len(b) /\ j \in Len(a) + 1..Len(a) + Len(b)
          /\ i - Len(a) = Len(b) - n + 1 /\ j - Len(a) = Len(b)
      BY <1>1, <1>3
    <2>2. SubSeq(a \o b, i, j) = SubSeq(b, i - Len(a), j - Len(a))
      BY <2>1, SubSeqOfConcat2
    <2> QED
      BY <1>1, <2>1, <2>2 DEF Right
  <1> QED
    BY <1>2, <1>3

LEMMA LeftBehind ==
  ASSUME NEW a \in Seq(Byte), NEW b \in Seq(Byte), NEW n \in 0..Len(b)
  PROVE  SubSeq(a \o b, 1, Len(a) + n) = a \o SubSeq(b, 1, n)
  <1> DEFINE s == SubSeq(a \o b, 1, Len(a) + n)
             t == SubSeq(b, 1, n)
             ab == a \o b
  <1>1. /\ Len(a) \in Nat /\ Len(b) \in Nat /\ n \in Nat /\ ab \in Seq(Byte)
        /\ Len(ab) = Len(a) + Len(b)
        /\ \A i \in 1..Len(a) + Len(b) : ab[i] = IF i <= Len(a) THEN a[i] ELSE b[i - Len(a)]
    BY LenProperties, ConcatProperties
  <1>2. /\ s \in Seq(Byte) /\ Len(s) = Len(a) + n /\ \A i \in 1..Len(a) + n : s[i] = ab[i]
    <2>1. \A i \in 1..Len(a) + n : ab[i] \in Byte
      BY <1>1, ElementOfSeq
    <2>2. /\ s \in Seq(Byte) /\ Len(s) = IF 1 <= Len(a) + n THEN Len(a) + n - 1 + 1 ELSE 0
          /\ \A i \in 1..Len(a) + n - 1 + 1 : s[i] = ab[1 + i - 1]
      BY <1>1, <2>1, SubSeqProperties
    <2>3. Len(s) = Len(a) + n
      BY <1>1, <2>2
    <2>4. ASSUME NEW i \in 1..Len(a) + n PROVE s[i] = ab[i]
      <3>1. i \in 1..Len(a) + n - 1 + 1 /\ 1 + i - 1 = i
        BY <1>1
      <3> QED
        BY <2>2, <3>1
    <2> QED
      BY <2>2, <2>3, <2>4
  <1>3. /\ t \in Seq(Byte) /\ Len(t) = n /\ \A i \in 1..n : t[i] = b[i]
    <2>1. \A i \in 1..n : b[i] \in Byte
      BY <1>1, ElementOfSeq
    <2>2. /\ t \in Seq(Byte) /\ Len(t) = IF 1 <= n THEN n - 1 + 1 ELSE 0
          /\ \A i \in 1..n - 1 + 1 : t[i] = b[1 + i - 1]
      BY <1>1, <2>1, SubSeqProperties
    <2>3. Len(t) = n
      BY <1>1, <2>2
    <2>4. ASSUME NEW i \in 1..n PROVE t[i] = b[i]
      <3>1. i \in 1..n - 1 + 1 /\ 1 + i - 1 = i
        BY <1>1
      <3> QED
        BY <2>2, <3>1
    <2> QED
      BY <2>2, <2>3, <2>4
  <1> HIDE DEF s, t, ab
  <1> DEFINE u == a \o t
  <1>4. /\ u \in Seq(Byte) /\ Len(u) = Len(a) + n
        /\ \A i \in 1..Len(a) + n : u[i] = IF i <= Len(a) THEN a[i] ELSE t[i - Len(a)]
    BY <1>3, ConcatProperties
  <1> HIDE DEF u
  <1>5. ASSUME NEW i \in 1..Len(s) PROVE s[i] = u[i]
    <2>1. /\ i \in 1..Len(a) + n /\ i \in 1..Len(a) + Len(b)
          /\ ~ (i <= Len(a)) => i - Len(a) \in 1..n
      BY <1>1, <1>2
    <2>2. s[i] = IF i <= Len(a) THEN a[i] ELSE b[i - Len(a)]
      BY <1>1, <1>2, <2>1
    <2>3. u[i] = IF i <= Len(a) THEN a[i] ELSE t[i - Len(a)]
      BY <1>4, <2>1
    <2> QED
      BY <1>3, <2>1, <2>2, <2>3
  <1>6. s = u
    BY <1>2, <1>4, <1>5, SeqEqual
  <1> QED
    BY <1>6 DEF s, t, u, ab

LEMMA SetRightBehind ==
  ASSUME NEW a \in Seq(Byte), NEW b \in Seq(Byte), NEW d \in Seq(Byte), Len(d) <= Len(b)
  PROVE  SetRight(a \o b, d) = a \o SetRight(b, d)
  <1> DEFINE n == Len(b) - Len(d)
  <1>1. /\ Len(a) \in Nat /\ n \in 0..Len(b) /\ Len(a \o b) - Len(d) = Len(a) + n
    BY LenProperties, ConcatProperties
  <1>2. SubSeq(b, 1, n) \in Seq(Byte)
    <2>1. Len(d) \in 0..Len(b)
      BY LenProperties
    <2> QED
      BY <2>1, ValueOfRight
  <1>3. SetRight(a \o b, d) = (a \o SubSeq(b, 1, n)) \o d
    BY <1>1, LeftBehind DEF SetRight
  <1>4. SetRight(b, d) = SubSeq(b, 1, n) \o d
    BY DEF SetRight
  <1> HIDE DEF n
  <1>5. PICK t \in Seq(Byte) : SetRight(a \o b, d) = (a \o t) \o d /\ SetRight(b, d) = t \o d
    BY <1>2, <1>3, <1>4
  <1>6. (a \o t) \o d = a \o (t \o d)
    BY ConcatAssociative
  <1> QED
    BY <1>5, <1>6

\* A reduction reads and writes the right of the block.
LEMMA ReducedBehind ==
  ASSUME NEW a \in Seq(Byte), NEW b \in Seq(Byte), NEW q \in Seq(Byte),
         NEW size \in 0..Len(b), size <= Len(q), q # <<>>, q[1] # 0, Value(b) < Power(size),
         Value(b) % Value(q) # 0
  PROVE  Reduced(a \o b, size, q) = a \o Reduced(b, size, q)
  <1>1. CASE size < Len(q)
    BY <1>1, LenProperties DEF Reduced
  <1>2. CASE size = Len(q)
    <2> DEFINE d == ModularReduction(Right(b, size), q)
    <2>1. Right(a \o b, size) = Right(b, size)
      BY RightBehind
    <2>2. /\ Right(b, size) \in Seq(Byte) /\ Len(Right(b, size)) = size
          /\ Value(Right(b, size)) = Value(b)
      BY ValueOfRight
    <2>3. Value(q) # 0
      BY ValueFromLeft
    <2>4. d \in Seq(Byte) /\ Len(d) = size
      BY <1>2, <2>2, <2>3, ValueOfReduction
    <2>5. Reduced(a \o b, size, q) = SetRight(a \o b, d) /\ Reduced(b, size, q) = SetRight(b, d)
      BY <1>2, <2>1 DEF Reduced
    <2> HIDE DEF d
    <2>6. Len(d) <= Len(b)
      BY <2>4, LenProperties
    <2>7. SetRight(a \o b, d) = a \o SetRight(b, d)
      BY <2>4, <2>6, SetRightBehind
    <2> QED
      BY <2>5, <2>7
  <1> QED
    BY <1>1, <1>2, LenProperties

\* A challenge of full size is taken as it came.
LEMMA FullChallenge ==
  ASSUME NEW c \in Seq(Byte), Len(c) = HashSize
  PROVE  ChallengeTaken(c) = c
  <1>1. HashSize \in Nat /\ Len(c) <= HashSize
    BY LenProperties
  <1>2. Aligned(c, HashSize) = c
    BY <1>1, ValueOfAligned
  <1> QED
    BY <1>2, SubSeqFull DEF ChallengeTaken

\* The first byte of a block whose number is shorter is a zero.
LEMMA ValueOfTail ==
  ASSUME NEW s \in Seq(Byte), Len(s) + 1 <= MaxSmall
  PROVE  Value(Tail(Aligned(s, MaxSmall))) = Value(s)
  <1> DEFINE b == Aligned(s, MaxSmall)
             n == MaxSmall - 1
  <1>1. /\ b \in Seq(Byte) /\ Len(b) = MaxSmall /\ Value(b) = Value(s) /\ Len(s) \in Nat
        /\ MaxSmall \in Nat /\ MaxSmall >= 1
    BY ValueOfAligned, SizesAreNat, LenProperties
  <1> HIDE DEF b
  <1>2. n \in 0..Len(b) /\ n \in Nat /\ Len(b) - n + 1 = 2
    BY <1>1
  <1>3. Value(b) < Power(n)
    <2>1. PICK m \in Nat : Len(s) + m = n
      <3>1. n - Len(s) \in Nat /\ Len(s) + (n - Len(s)) = n
        BY <1>1
      <3> QED
        BY <3>1
    <2>2. Power(Len(s)) <= Power(n) /\ Power(Len(s)) \in Nat /\ Power(n) \in Nat
      BY <1>1, <1>2, <2>1, PowerOfSum, PowerIs
    <2>3. Value(s) < Power(Len(s)) /\ Value(s) \in Nat
      BY ValueBelowPower
    <2> QED
      BY <1>1, <2>2, <2>3
  <1>4. Value(Right(b, n)) = Value(s)
    BY <1>1, <1>2, <1>3, ValueOfRight
  <1>5. b # <<>>
    BY <1>1
  <1>6. Tail(b) = SubSeq(b, 2, Len(b))
    BY <1>1, <1>5, TailIsSubSeq
  <1> QED
    BY <1>2, <1>4, <1>6 DEF Right, b

\* The product, with the two bytes before it that belong to the factors.
LEMMA ValueOfProduct ==
  ASSUME NEW c \in Seq(Byte), NEW u \in Seq(Byte), Len(c) >= 1, Len(u) >= 1,
         Len(c) + Len(u) <= MaxSmall, Value(c) * Value(u) # 0
  PROVE  \E a, e \in Seq(Byte) :
           /\ Product(Aligned(c, MaxSmall), Aligned(u, MaxSmall)) = a \o e
           /\ Len(e) = 2 * MaxSmall - 2 /\ Value(e) = Value(c) * Value(u)
           /\ Value(e) < Power(Len(c) + Len(u))
  <1> DEFINE x == Value(c) * Value(u)
             cBlock == Aligned(c, MaxSmall)
             uBlock == Aligned(u, MaxSmall)
             temp == cBlock \o uBlock
             a == SubSeq(temp, 1, 2)
             s == SubSeq(temp, 3, 2 * MaxSmall)
             e == Export(s, x)
  <1>1. /\ MaxSmall \in Nat /\ MaxSmall >= 2 /\ Len(c) \in Nat /\ Len(u) \in Nat
        /\ Value(c) \in Nat /\ Value(u) \in Nat
    BY SizesAreNat, LenProperties, ValueOfAppend
  <1>2. Len(c) + 1 <= MaxSmall /\ Len(u) + 1 <= MaxSmall
    BY <1>1
  <1>3. Value(Tail(cBlock)) = Value(c) /\ Value(Tail(uBlock)) = Value(u)
    BY <1>2, ValueOfTail
  <1>4. /\ cBlock \in Seq(Byte) /\ Len(cBlock) = MaxSmall
        /\ uBlock \in Seq(Byte) /\ Len(uBlock) = MaxSmall
    BY <1>1, ValueOfAligned
  <1>5. Product(cBlock, uBlock) = a \o e
    BY <1>3 DEF Product, BlockMultiply
  <1> HIDE DEF cBlock, uBlock
  <1>6. temp \in Seq(Byte) /\ Len(temp) = 2 * MaxSmall
    <2>1. temp \in Seq(Byte) /\ Len(temp) = Len(cBlock) + Len(uBlock)
      BY <1>4, ConcatProperties
    <2> QED
      BY <1>1, <1>4, <2>1
  <1> HIDE DEF temp
  <1>7. a \in Seq(Byte) /\ s \in Seq(Byte) /\ Len(s) = 2 * MaxSmall - 2
    <2> DEFINE n == 2 * MaxSmall - 2
    <2>1. n \in 0..Len(temp) /\ Len(temp) - n = 2 /\ Len(temp) - n + 1 = 3
      BY <1>1, <1>6
    <2> QED
      BY <1>6, <2>1, ValueOfRight DEF Right
  <1>8. x \in Nat
    BY <1>1
  <1>9. x < Power(Len(c) + Len(u))
    <2>1. /\ Value(c) < Power(Len(c)) /\ Value(u) < Power(Len(u))
          /\ Power(Len(c)) \in Nat /\ Power(Len(u)) \in Nat
          /\ Power(Len(c) + Len(u)) = Power(Len(c)) * Power(Len(u))
      BY <1>1, ValueBelowPower, PowerIs, PowerOfSum
    <2>2. \A m, n, v, w \in Nat : m < v /\ n < w => m * n < v * w
      <3> SUFFICES ASSUME NEW m \in Nat, NEW n \in Nat, NEW v \in Nat, NEW w \in Nat, m < v, n < w
                   PROVE  m * n < v * w
        OBVIOUS
      <3>1. m * n <= m * w
        OBVIOUS
      <3>2. (m + 1) * w <= v * w
        OBVIOUS
      <3>3. (m + 1) * w = m * w + w
        OBVIOUS
      <3> QED
        BY <3>1, <3>2, <3>3
    <2> QED
      BY <1>1, <2>1, <2>2
  <1>10. x < Power(Len(s))
    <2>1. PICK m \in Nat : (Len(c) + Len(u)) + m = Len(s)
      <3> DEFINE m == Len(s) - (Len(c) + Len(u))
      <3>1. m \in Nat /\ (Len(c) + Len(u)) + m = Len(s)
        BY <1>1, <1>7
      <3> QED
        BY <3>1
    <2>2. /\ Power(Len(c) + Len(u)) <= Power(Len(s)) /\ Power(Len(c) + Len(u)) \in Nat
          /\ Power(Len(s)) \in Nat
      <3>1. Len(c) + Len(u) \in Nat /\ Len(s) \in Nat
        BY <1>1, <1>7
      <3> QED
        BY <2>1, <3>1, PowerOfSum, PowerIs
    <2> HIDE DEF x, s
    <2> QED
      BY <1>8, <1>9, <2>2
  <1> HIDE DEF x, s
  <1>11. e \in Seq(Byte) /\ Len(e) = Len(s) /\ Value(e) = x
    BY <1>7, <1>8, <1>10, ValueOfExport DEF x
  <1> HIDE DEF e, a
  <1> QED
    BY <1>5, <1>7, <1>9, <1>11 DEF x, cBlock, uBlock

LEMMA PowersGrow ==
  ASSUME NEW m \in Nat, NEW n \in Nat, m <= n
  PROVE  Power(m) <= Power(n) /\ Power(m) \in Nat /\ Power(n) \in Nat
  <1>1. n - m \in Nat /\ m + (n - m) = n
    OBVIOUS
  <1>2. Power(m) <= Power(m + (n - m))
    BY <1>1, PowerOfSum
  <1> QED
    BY <1>1, <1>2, PowerIs

\* The difference of the remainders is the remainder of the difference, if nothing is borrowed.
LEMMA RemainderOfDifference ==
  ASSUME NEW x \in Int, NEW y \in Int, NEW q \in Nat \ {0}, y % q <= x % q
  PROVE  (x - y) % q = (x % q) - (y % q)
  <1>1. PICK d \in Int : x = q * d + (x % q)
    BY Division
  <1>2. PICK e \in Int : y = q * e + (y % q)
    BY Division
  <1>3. x % q \in 0..q - 1 /\ y % q \in 0..q - 1
    BY Division
  <1> DEFINE r == (x % q) - (y % q)
  <1>4. r \in 0..q - 1
    BY <1>3
  <1>5. x - y = q * (d - e) + r
    <2>1. \A a, b, v, w \in Int : (q * a + v) - (q * b + w) = q * (a - b) + (v - w)
      OBVIOUS
    <2>2. x % q \in Int /\ y % q \in Int
      BY <1>3
    <2> QED
      BY <1>1, <1>2, <2>1, <2>2
  <1> HIDE DEF r
  <1>6. d - e \in Int /\ x - y \in Int
    OBVIOUS
  <1>7. (x - y) % q = r
    BY <1>4, <1>5, <1>6, Division
  <1> QED
    BY <1>7 DEF r

\* mBlockSubtract of a number and a smaller one.
LEMMA ValueOfDifference ==
  ASSUME NEW block \in Seq(Byte), NEW m \in Seq(Byte), NEW n \in Seq(Byte),
         Value(n) < Value(m), Value(m) < Power(Len(block))
  PROVE  /\ BlockSubtract(block, m, n) \in Seq(Byte)
         /\ Len(BlockSubtract(block, m, n)) = Len(block)
         /\ Value(BlockSubtract(block, m, n)) = Value(m) - Value(n)
  <1> DEFINE x == Value(m) - Value(n)
  <1>1. Value(m) \in Nat /\ Value(n) \in Nat /\ Power(Len(block)) \in Nat
    BY ValueOfAppend, LenProperties, PowerIs
  <1>2. x \in Nat /\ x # 0 /\ x < Power(Len(block))
    BY <1>1
  <1>3. Distance(Value(m), Value(n)) = x
    BY <1>1 DEF Distance
  <1> HIDE DEF x
  <1>4. BlockSubtract(block, m, n) = Export(block, x)
    BY <1>3 DEF BlockSubtract
  <1> QED
    BY <1>2, <1>4, ValueOfExport DEF x

LEMMA IntegerResponse ==
  ASSUME NEW k \in Seq(Byte), NEW c \in Seq(Byte), NEW u \in Seq(Byte),
         Len(k) <= MaxSmall, Len(c) >= 1, Len(u) >= 1, Len(c) = HashSize,
         Len(c) + Len(u) <= MaxSmall, Value(c) * Value(u) # 0,
         Value(c) * Value(u) < Value(k)
  PROVE  Value(ResponseOverIntegers(k, c, u)) = Value(k) - Value(c) * Value(u)
  <1>1. PICK a, e \in Seq(Byte) :
           /\ Product(Aligned(c, MaxSmall), Aligned(u, MaxSmall)) = a \o e
           /\ Len(e) = 2 * MaxSmall - 2 /\ Value(e) = Value(c) * Value(u)
           /\ Value(e) < Power(Len(c) + Len(u))
    BY ValueOfProduct
  <1>2. /\ MaxSmall \in Nat /\ MaxSmall >= 2 /\ MaxSmall \in 0..Len(e) /\ Len(k) \in Nat
        /\ Len(c) \in Nat /\ Len(u) \in Nat /\ Len(c) + Len(u) \in Nat
    BY <1>1, SizesAreNat, LenProperties
  <1> DEFINE p == Value(c) * Value(u)
             cu == Right(Product(Aligned(c, MaxSmall), Aligned(u, MaxSmall)), MaxSmall)
             kBlock == Aligned(k, MaxSmall)
             s == BlockSubtract(cu, kBlock, cu)
  <1>3. /\ Value(k) \in Nat /\ Value(e) \in Nat /\ Value(k) < Power(Len(k)) /\ p = Value(e)
        /\ p < Value(k)
    BY <1>1, ValueBelowPower
  <1>4. cu = Right(e, MaxSmall)
    BY <1>1, <1>2, RightBehind
  <1>5. ResponseOverIntegers(k, c, u) = Right(s, Len(k))
    BY FullChallenge DEF ResponseOverIntegers
  <1>6. kBlock \in Seq(Byte) /\ Value(kBlock) = Value(k)
    BY <1>2, ValueOfAligned
  <1> HIDE DEF p, cu, kBlock
  <1>7. cu \in Seq(Byte) /\ Len(cu) = MaxSmall /\ Value(cu) = p
    <2>1. Value(e) < Power(MaxSmall)
      <3>1. /\ Power(Len(c) + Len(u)) <= Power(MaxSmall)
            /\ Power(Len(c) + Len(u)) \in Nat /\ Power(MaxSmall) \in Nat
        BY <1>2, PowersGrow
      <3> QED
        BY <1>1, <1>3, <3>1
    <2> QED
      BY <1>2, <1>3, <1>4, <2>1, ValueOfRight
  <1>8. Value(k) < Power(MaxSmall)
    <2>1. Power(Len(k)) <= Power(MaxSmall) /\ Power(Len(k)) \in Nat /\ Power(MaxSmall) \in Nat
      BY <1>2, PowersGrow
    <2>2. \A x, y, z \in Nat : x < y /\ y <= z => x < z
      OBVIOUS
    <2> QED
      BY <1>3, <2>1, <2>2
  <1>9. s \in Seq(Byte) /\ Len(s) = MaxSmall /\ Value(s) = Value(k) - p
    BY <1>3, <1>6, <1>7, <1>8, ValueOfDifference
  <1> HIDE DEF s
  <1>10. Len(k) \in 0..Len(s) /\ Value(s) < Power(Len(k))
    <2>1. Len(k) \in 0..Len(s)
      BY <1>2, <1>9
    <2>2. Power(Len(k)) \in Nat
      BY <1>2, PowerIs
    <2>3. \A m, n, v \in Nat : m < v => m - n < v
      OBVIOUS
    <2> QED
      BY <1>3, <1>9, <2>1, <2>2, <2>3
  <1>11. Value(Right(s, Len(k))) = Value(s)
    BY <1>9, <1>10, ValueOfRight
  <1> QED
    BY <1>5, <1>9, <1>11 DEF p

LEMMA ModuloResponse ==
  ASSUME NEW k \in Seq(Byte), NEW c \in Seq(Byte), NEW u \in Seq(Byte), NEW q \in Seq(Byte),
         Len(c) >= 1, Len(u) >= 1, Len(c) = HashSize,
         q # <<>>, q[1] # 0, Len(q) <= MaxSmall,
         Len(c) + Len(u) <= Len(q), Len(k) <= Len(q),
         Value(c) * Value(u) # 0, 0 < (Value(c) * Value(u)) % Value(q),
         (Value(c) * Value(u)) % Value(q) < Value(k) % Value(q)
  PROVE  Value(ResponseModulo(k, c, u, q)) = (Value(k) - Value(c) * Value(u)) % Value(q)
  <1> DEFINE Q == Value(q)
             p == Value(c) * Value(u)
             cBlock == Reduced(Aligned(ChallengeTaken(c), MaxSmall), Len(c), q)
             uBlock == Reduced(Aligned(u, MaxSmall), Len(u), q)
             cu == Right(Reduced(Product(cBlock, uBlock), Len(c) + Len(u), q), MaxSmall)
             kBlock == Reduced(Aligned(k, MaxSmall), Len(k), q)
             s == BlockSubtract(kBlock, kBlock, cu)
             n == Len(c) + Len(u)
  <1>1. /\ MaxSmall \in Nat /\ MaxSmall >= 2 /\ Len(k) \in Nat /\ Len(c) \in Nat
        /\ Len(u) \in Nat /\ Len(q) \in Nat /\ n \in Nat /\ n <= Len(q) /\ n <= MaxSmall
    BY SizesAreNat, LenProperties
  <1>2. Q \in Nat \ {0} /\ Q < Power(Len(q)) /\ Power(Len(q)) \in Nat
    BY <1>1, ValueFromLeft, ValueBelowPower, PowerIs
  <1>3. PICK a, e \in Seq(Byte) :
           /\ Product(Aligned(c, MaxSmall), Aligned(u, MaxSmall)) = a \o e
           /\ Len(e) = 2 * MaxSmall - 2 /\ Value(e) = Value(c) * Value(u)
           /\ Value(e) < Power(Len(c) + Len(u))
    BY <1>1, ValueOfProduct
  <1>4. cBlock = Aligned(c, MaxSmall) /\ uBlock = Aligned(u, MaxSmall)
    BY <1>1, FullChallenge DEF Reduced
  <1>5. ResponseModulo(k, c, u, q) = Right(s, Len(q))
    BY DEF ResponseModulo
  <1>6. /\ Value(k) \in Nat /\ Value(e) \in Nat /\ p = Value(e) /\ p \in Nat
        /\ p % Q \in 0..Q - 1 /\ Value(k) % Q \in 0..Q - 1
        /\ p % Q # 0 /\ p % Q < Value(k) % Q
    <2>1. Value(k) \in Nat /\ Value(e) \in Nat /\ p = Value(e)
      BY <1>3, ValueOfAppend
    <2>2. Value(k) \in Int /\ p \in Int
      BY <2>1
    <2> HIDE DEF p, Q
    <2>3. p % Q \in 0..Q - 1
      BY <1>2, <2>2, Division
    <2>4. Value(k) % Q \in 0..Q - 1
      BY <1>2, <2>2, Division
    <2>5. p % Q # 0 /\ p % Q < Value(k) % Q
      BY <2>3 DEF p, Q
    <2> QED
      BY <2>1, <2>3, <2>4, <2>5
  <1>7. cu = Right(Reduced(a \o e, n, q), MaxSmall)
    BY <1>3, <1>4
  <1> HIDE DEF cBlock, uBlock, p, Q, cu, n
  <1>8. cu \in Seq(Byte) /\ Len(cu) = MaxSmall /\ Value(cu) = p % Q
    <2> DEFINE r == Reduced(e, n, q)
    <2>1. n \in 0..Len(e) /\ MaxSmall \in 0..Len(e)
      BY <1>1, <1>3
    <2>2. Value(e) < Power(n) /\ Value(e) % Value(q) # 0
      BY <1>3, <1>6 DEF n, Q
    <2>3. Reduced(a \o e, n, q) = a \o r
      <3>1. n <= Len(q) /\ n \in 0..Len(e)
        BY <1>1, <2>1
      <3>2. q # <<>> /\ q[1] # 0 /\ Value(e) < Power(n) /\ Value(e) % Value(q) # 0
        BY <2>2
      <3> HIDE DEF r
      <3>3. \A m \in 0..Len(e) :
               m <= Len(q) /\ Value(e) < Power(m) => Reduced(a \o e, m, q) = a \o Reduced(e, m, q)
        BY <3>2, ReducedBehind
      <3> QED
        BY <3>1, <3>2, <3>3 DEF r
    <2>4. r \in Seq(Byte) /\ Len(r) = Len(e) /\ Value(r) = p % Q
      BY <1>1, <1>6, <2>1, <2>2, ValueOfReduced DEF Q
    <2> HIDE DEF r
    <2>5. cu = Right(r, MaxSmall)
      BY <1>7, <2>1, <2>3, <2>4, RightBehind
    <2>6. Value(r) < Power(MaxSmall)
      <3>1. Power(Len(q)) <= Power(MaxSmall) /\ Power(MaxSmall) \in Nat
        BY <1>1, PowersGrow
      <3>2. Value(r) < Q
        BY <1>2, <1>6, <2>4
      <3>3. Value(r) \in Nat
        BY <1>6, <2>4
      <3> QED
        BY <1>2, <3>1, <3>2, <3>3
    <2> QED
      BY <2>1, <2>4, <2>5, <2>6, ValueOfRight
  <1>9. kBlock \in Seq(Byte) /\ Len(kBlock) = MaxSmall /\ Value(kBlock) = Value(k) % Q
    <2> DEFINE b == Aligned(k, MaxSmall)
    <2>1. b \in Seq(Byte) /\ Len(b) = MaxSmall /\ Value(b) = Value(k)
      BY <1>1, ValueOfAligned
    <2> HIDE DEF b
    <2>2. Len(k) \in 0..Len(b) /\ Value(b) < Power(Len(k)) /\ Value(b) % Value(q) # 0
      <3>1. Len(k) \in 0..Len(b)
        BY <1>1, <2>1
      <3>2. Value(b) < Power(Len(k))
        BY <2>1, ValueBelowPower
      <3>3. Value(b) % Value(q) # 0
        <4>1. \A i, j \in Nat : i < j => j # 0
          OBVIOUS
        <4>2. p % Q \in Nat /\ Value(k) % Q \in Nat
          BY <1>6
        <4>3. Value(k) % Q # 0
          BY <1>6, <4>1, <4>2
        <4> QED
          BY <2>1, <4>3 DEF Q
      <3> QED
        BY <3>1, <3>2, <3>3
    <2>3. /\ Reduced(b, Len(k), q) \in Seq(Byte) /\ Len(Reduced(b, Len(k), q)) = Len(b)
          /\ Value(Reduced(b, Len(k), q)) = Value(b) % Value(q)
      BY <2>1, <2>2, ValueOfReduced
    <2> QED
      BY <2>1, <2>3 DEF b, Q
  <1> HIDE DEF kBlock
  <1>10. s \in Seq(Byte) /\ Len(s) = MaxSmall /\ Value(s) = (Value(k) % Q) - (p % Q)
    <2>1. Value(kBlock) < Power(Len(kBlock)) /\ Value(cu) < Value(kBlock)
      BY <1>6, <1>8, <1>9, ValueBelowPower
    <2> QED
      BY <1>8, <1>9, <2>1, ValueOfDifference
  <1> HIDE DEF s
  <1>11. Len(q) \in 0..Len(s) /\ Value(s) < Power(Len(q))
    <2>1. Len(q) \in 0..Len(s)
      BY <1>1, <1>10
    <2>2. \A i, j \in 0..Q - 1 : i - j < Q
      BY <1>2
    <2>3. Value(s) < Q /\ Value(s) \in Int
      <3>1. \A i, j \in 0..Q - 1 : i - j \in Int
        OBVIOUS
      <3>2. Value(s) = (Value(k) % Q) - (p % Q)
        BY <1>10
      <3> QED
        BY <1>6, <2>2, <3>1, <3>2, Zenon
    <2> QED
      BY <1>2, <2>1, <2>3
  <1>12. Value(Right(s, Len(q))) = Value(s)
    BY <1>10, <1>11, ValueOfRight
  <1>13. (Value(k) - p) % Q = (Value(k) % Q) - (p % Q)
    <2>1. Value(k) \in Int /\ p \in Int
      BY <1>6
    <2>2. p % Q <= Value(k) % Q
      BY <1>2, <1>6
    <2> QED
      BY <1>2, <2>1, <2>2, RemainderOfDifference
  <1> QED
    BY <1>5, <1>10, <1>12, <1>13 DEF p, Q

\* ResponsesRight: for any size of a byte, of hashes and of small numbers, any orders, nonces,
\* challenges and secrets, a response is the number it should be where the card's arithmetic
\* covers it.
THEOREM ResponsesAreRight == Spec => []ResponsesRight
  <1>1. GroupsInv => ResponsesRight
    <2> SUFFICES ASSUME GroupsInv, NEW id \in GroupIds, NEW k \in Nonces, NEW c \in Challenges,
                        NEW u \in Secrets, Len(c) = HashSize, Value(c) * Value(u) # 0
                 PROVE  LET q == Contents(groups[id].q)
                        IN  /\ /\ q # <<>> /\ q[1] # 0
                               /\ Len(c) + Len(u) <= Len(q) /\ Len(k) <= Len(q)
                               /\ 0 < (Value(c) * Value(u)) % Value(q)
                               /\ (Value(c) * Value(u)) % Value(q) < Value(k) % Value(q)
                               => Value(ResponseModulo(k, c, u, q))
                                    = (Value(k) - Value(c) * Value(u)) % Value(q)
                            /\ q = <<>> /\ Len(c) + Len(u) <= MaxSmall
                               /\ Value(c) * Value(u) < Value(k)
                               => Value(ResponseOverIntegers(k, c, u))
                                    = Value(k) - Value(c) * Value(u)
      BY DEF ResponsesRight
    <2> DEFINE q == Contents(groups[id].q)
    <2>1. k \in Seq(Byte) /\ Len(k) <= MaxSmall
      BY GroupsAssumption
    <2>2. c \in Seq(Byte) /\ Len(c) >= 1
      BY GroupsAssumption
    <2>3. u \in Seq(Byte) /\ Len(u) >= 1
      BY GroupsAssumption
    <2>4. q \in Seq(Byte) /\ Len(q) <= MaxSmall
      <3>1. groups[id].q \in Register(MaxSmall)
        BY GroupTypes
      <3> QED
        BY <3>1, RightIsSequence, SizesAreNat DEF Contents, Register
    <2> HIDE DEF q
    <2>5. ASSUME q # <<>>, q[1] # 0, Len(c) + Len(u) <= Len(q), Len(k) <= Len(q),
                 0 < (Value(c) * Value(u)) % Value(q),
                 (Value(c) * Value(u)) % Value(q) < Value(k) % Value(q)
          PROVE  Value(ResponseModulo(k, c, u, q)) = (Value(k) - Value(c) * Value(u)) % Value(q)
      BY <2>1, <2>2, <2>3, <2>4, <2>5, ModuloResponse
    <2>6. ASSUME Len(c) + Len(u) <= MaxSmall, Value(c) * Value(u) < Value(k)
          PROVE  Value(ResponseOverIntegers(k, c, u)) = Value(k) - Value(c) * Value(u)
      BY <2>1, <2>2, <2>3, <2>6, IntegerResponse
    <2> QED
      BY <2>5, <2>6 DEF q
  <1> QED
    BY <1>1, GroupsInvariant, PTL
=============================================================================
