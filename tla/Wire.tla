-------------------------------- MODULE Wire --------------------------------
(***************************************************************************)
(* The payload the guest reads, guest/src/wire.rs: a version, the fixed    *)
(* fields, then four vectors, each behind its length, and nothing after    *)
(* them.  A word of the wire is a field; a field's bytes are not modelled, *)
(* and neither is a vector too long for a u32 length, where encoding       *)
(* panics.  The decoder reads from the front with a cursor: the words      *)
(* still to read, the values read so far, and whether it got this far.     *)
(***************************************************************************)
EXTENDS Naturals, Sequences, SequencesExt

WireVersion == 2
Malformed == [malformed |-> TRUE]

(* Fixed fields of the public values, in order.                            *)
Fields == <<"trustBase", "spentRootOld", "spentRootNew", "batchSize", "totalAmount">>

(***************************************************************************)
(* Encoding                                                                *)
(***************************************************************************)
PutVec(items, Put(_)) == <<Len(items)>> \o FlattenSeq([i \in DOMAIN items |-> Put(items[i])])
PutField(field) == <<field>>
PutStep(step) == <<step.depth, step.sibling>>
PutWitness(witness) == <<witness.terminal>> \o PutVec(witness.steps, PutStep)
(* A burn: its token, the trust base, and that each transition is certified*)
(* (an anchored burn is not modelled).                                     *)
PutBurn(burn) == PutField(burn)

EncodeGuestInput(x) ==
  <<WireVersion>> \o [i \in DOMAIN Fields |-> x[Fields[i]]]
    \o PutVec(x.leaves, PutField) \o PutVec(x.lockRefs, PutField)
    \o PutVec(x.witnesses, PutWitness) \o PutVec(x.burns, PutBurn)

(***************************************************************************)
(* Decoding                                                                *)
(***************************************************************************)
Cursor(wire) == [rest |-> wire, read |-> <<>>, ok |-> TRUE]
Failed(cursor) == [cursor EXCEPT !.ok = FALSE]

Take(cursor) ==
  IF ~cursor.ok \/ cursor.rest = <<>>
  THEN Failed(cursor)
  ELSE [cursor EXCEPT !.rest = Tail(@), !.read = Append(@, Head(cursor.rest))]

(* What One reads from here is one value, made of the words it takes.      *)
AsOne(cursor, One(_), Made(_)) ==
  LET after == One([cursor EXCEPT !.read = <<>>]) IN
  IF after.ok THEN [after EXCEPT !.read = Append(cursor.read, Made(@))] ELSE Failed(cursor)

(* A length and, one by one, as many items.                                *)
Items(cursor, One(_)) ==
  FoldLeft(LAMBDA c, i : One(c), [Take(cursor) EXCEPT !.read = <<>>],
           [i \in 1..Head(cursor.rest) |-> i])
Vec(cursor, One(_)) ==
  LET All(c) == Items(c, One)
      Same(items) == items IN
  IF Take(cursor).ok THEN AsOne(cursor, All, Same) ELSE Failed(cursor)

Leaf(cursor) == Take(cursor)
Step(cursor) ==
  LET Two(c) == Take(Take(c))
      Made(words) == [depth |-> words[1], sibling |-> words[2]] IN
  AsOne(cursor, Two, Made)
Witness(cursor) ==
  LET Parts(c) == Vec(Take(c), Step)
      Made(words) == [terminal |-> words[1], steps |-> words[2]] IN
  AsOne(cursor, Parts, Made)
Burn(cursor) == Take(cursor)

DecodeGuestInput(wire) ==
  LET head == FoldLeft(LAMBDA c, i : Take(c), Cursor(wire), <<WireVersion>> \o Fields)
      end == Vec(Vec(Vec(Vec(head, Leaf), Leaf), Witness), Burn)
      Field(name) == end.read[1 + CHOOSE i \in DOMAIN Fields : Fields[i] = name]
      At(i) == end.read[1 + Len(Fields) + i] IN
  IF end.ok /\ end.rest = <<>> /\ end.read[1] = WireVersion
  THEN [name \in ToSet(Fields) \cup {"leaves", "lockRefs", "witnesses", "burns"} |->
          CASE name = "leaves" -> At(1) [] name = "lockRefs" -> At(2)
            [] name = "witnesses" -> At(3) [] name = "burns" -> At(4)
            [] OTHER -> Field(name)]
  ELSE Malformed
=============================================================================
