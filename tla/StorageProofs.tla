---------------------------- MODULE StorageProofs ----------------------------
(***************************************************************************)
(* The storage engine.  Records, for any objects, fields of text, sizes,   *)
(* texts and any number of calls: the functions that compare and classify  *)
(* them answer what they were last given, what they show they have held,   *)
(* and their assert fails only without a marker.  Files and indexes, for   *)
(* any collections, keys and sizes of files: records come after what a     *)
(* file holds as long as no other collection moves the offset; an index is *)
(* a search tree that finds every key it holds, has all the records of the *)
(* file it was made of, and loses one copy of a key in a deletion.         *)
(***************************************************************************)
EXTENDS PicoRecord, Store, FiniteSetTheorems, FunctionTheorems,
        WellFoundedInduction, TLAPS

-----------------------------------------------------------------------------
(* The characters of a text.                                               *)

(* A set of natural numbers has a least one.                               *)
LEMMA LeastElement ==
  ASSUME NEW T, T \subseteq Nat, T # {}
  PROVE  \E n \in T : \A k \in T : n <= k
  <1> DEFINE R == OpToRel(<, Nat)
  <1>1. IsWellFoundedOn(R, Nat)
    BY NatLessThanWellFounded
  <1>2. PICK n \in T : \A k \in T : ~(<<k, n>> \in R)
    <2> HIDE DEF R
    <2> QED
      BY <1>1, WFMin
  <1>3. ASSUME NEW k \in T
        PROVE  n <= k
    <2>1. ~(<<k, n>> \in R)
      BY <1>2
    <2>2. k \in Nat /\ n \in Nat
      OBVIOUS
    <2>3. ~(k < n)
      BY <2>1, <2>2 DEF OpToRel
    <2> QED
      BY <2>2, <2>3
  <1> QED
    BY <1>3

LEMMA LeastNumber ==
  ASSUME NEW T, T \subseteq Nat, T # {}
  PROVE  Min(T) \in T /\ \A k \in T : Min(T) <= k
  BY LeastElement DEF Min

(* The string of C that a text is: its characters up to the first 0.       *)
LEMMA UntilNulIs ==
  ASSUME NEW t \in Seq(Characters)
  PROVE  /\ UntilNul(t) \in Seq(Characters)
         /\ Len(UntilNul(t)) \in Nat
         /\ \A i \in 1..Len(UntilNul(t)) : UntilNul(t)[i] # Nul
  <1> DEFINE ends == {i \in 1..Len(t) : t[i] = Nul}
             s    == UntilNul(t)
  <1>1. Len(t) \in Nat
    OBVIOUS
  <1>2. CASE ends = {}
    <2>1. s = t
      BY <1>2 DEF UntilNul
    <2>2. \A i \in 1..Len(t) : t[i] # Nul
      BY <1>2
    <2> QED
      BY <1>1, <2>1, <2>2
  <1>3. CASE ends # {}
    <2> DEFINE e == Min(ends)
    <2>1. ends \subseteq Nat
      BY <1>1
    <2>2. e \in ends /\ \A k \in ends : e <= k
      <3> HIDE DEF ends
      <3> QED
        BY <1>3, <2>1, LeastNumber
    <2>3. e \in 1..Len(t)
      BY <2>2
    <2>4. \A i \in 1..(e - 1) : i \in 1..Len(t) /\ ~(e <= i)
      BY <1>1, <2>3
    <2>5. \A i \in 1..(e - 1) : t[i] # Nul
      BY <2>2, <2>4
    <2>6. s = SubSeq(t, 1, e - 1)
      BY <1>3 DEF UntilNul
    <2> HIDE DEF e, s, ends
    <2>7. /\ s \in Seq(Characters)
          /\ Len(s) = e - 1
          /\ \A i \in 1..(e - 1) : s[i] = t[i]
      BY <1>1, <2>3, <2>6
    <2> QED
      BY <2>3, <2>5, <2>7 DEF s
  <1> QED
    BY <1>2, <1>3

-----------------------------------------------------------------------------
(* What a field of n characters holds of a text.                           *)
Image(t, n) ==
  [i \in 1..n |-> IF i <= Len(UntilNul(t)) THEN UntilNul(t)[i] ELSE Nul]

(* That is what the functions that set a field store, whatever the field   *)
(* held.                                                                   *)
LEMMA StoredIsImage ==
  ASSUME NEW t, NEW n \in Nat, NEW C, NEW old \in [1..n -> C]
  PROVE  Stored(t, old) = Image(t, n)
  <1>1. old \in Seq(C) /\ Len(old) = n
    OBVIOUS
  <1> QED
    BY <1>1 DEF Stored, Image

(* It fills the field.                                                     *)
LEMMA ImageFits ==
  ASSUME NEW t \in Seq(Characters), NEW n \in Nat
  PROVE  Image(t, n) \in [1..n -> Characters]
  <1> DEFINE s == UntilNul(t)
  <1>1. s \in Seq(Characters) /\ Len(s) \in Nat
    BY UntilNulIs
  <1>2. Nul \in Characters
    BY DEF Characters
  <1> HIDE DEF s
  <1>3. \A i \in 1..n : (IF i <= Len(s) THEN s[i] ELSE Nul) \in Characters
    <2> TAKE i \in 1..n
    <2>1. CASE i <= Len(s)
      <3>1. i \in 1..Len(s)
        BY <1>1, <2>1
      <3> QED
        BY <1>1, <2>1, <3>1
    <2> QED
      BY <1>2, <2>1
  <1> QED
    BY <1>3 DEF Image, s

(* What it holds is the text's beginning: the shorter of the text and the  *)
(* field.                                                                  *)
LEMMA CutIs ==
  ASSUME NEW t \in Seq(Characters), NEW n \in Nat
  PROVE  /\ Cut(t, n) \in Seq(Characters)
         /\ Len(Cut(t, n)) = IF n <= Len(UntilNul(t)) THEN n ELSE Len(UntilNul(t))
         /\ \A i \in 1..Len(Cut(t, n)) : Cut(t, n)[i] = Image(t, n)[i]
         /\ \A i \in 1..Len(Cut(t, n)) : Image(t, n)[i] # Nul
         /\ \A i \in 1..n : i > Len(Cut(t, n)) => Image(t, n)[i] = Nul
  <1> DEFINE s == UntilNul(t)
             l == Len(s)
             m == Min({n, l})
             c == Cut(t, n)
  <1>1. s \in Seq(Characters) /\ l \in Nat
    BY UntilNulIs
  <1>2. m = IF n <= l THEN n ELSE l
    <2> HIDE DEF l
    <2>1. {n, l} \subseteq Nat /\ {n, l} # {}
      BY <1>1
    <2>2. m \in {n, l} /\ \A k \in {n, l} : m <= k
      BY <2>1, LeastNumber
    <2> HIDE DEF m
    <2> QED
      BY <1>1, <2>2
  <1>3. c = SubSeq(s, 1, m)
    BY DEF Cut
  <1>4. \A i \in 1..l : s[i] # Nul
    BY UntilNulIs
  <1>5. \A i \in 1..n : Image(t, n)[i] = IF i <= l THEN s[i] ELSE Nul
    BY DEF Image
  <1>6. m \in Nat /\ m <= l /\ m <= n
    <2> HIDE DEF l, m
    <2> QED
      BY <1>1, <1>2
  <1> HIDE DEF s, m, c
  <1>7. /\ c \in Seq(Characters)
        /\ Len(c) = m
        /\ \A i \in 1..m : c[i] = s[i]
    BY <1>1, <1>3, <1>6
  <1> HIDE DEF l
  <1>8. \A i \in 1..m : i \in 1..l /\ i \in 1..n /\ i <= l
    BY <1>1, <1>6
  <1>9. \A i \in 1..m : Image(t, n)[i] = s[i] /\ s[i] # Nul
    BY <1>4, <1>5, <1>8
  <1>10. \A i \in 1..n : i > m => ~(i <= l)
    BY <1>1, <1>2
  <1>11. \A i \in 1..n : i > m => Image(t, n)[i] = Nul
    BY <1>5, <1>10
  <1> QED
    BY <1>2, <1>7, <1>9, <1>11 DEF c, l, s

(* Two fields of n characters hold the same just when the texts begin with *)
(* the same characters, as many as n.                                      *)
LEMMA ImageTells ==
  ASSUME NEW t \in Seq(Characters), NEW u \in Seq(Characters), NEW n \in Nat
  PROVE  Image(t, n) = Image(u, n) <=> Cut(t, n) = Cut(u, n)
  <1> DEFINE a == Cut(t, n)
             b == Cut(u, n)
             p == Image(t, n)
             q == Image(u, n)
  <1>1. /\ a \in Seq(Characters) /\ Len(a) \in Nat /\ Len(a) <= n
        /\ \A i \in 1..Len(a) : a[i] = p[i] /\ p[i] # Nul
        /\ \A i \in 1..n : i > Len(a) => p[i] = Nul
    BY CutIs, UntilNulIs
  <1>2. /\ b \in Seq(Characters) /\ Len(b) \in Nat /\ Len(b) <= n
        /\ \A i \in 1..Len(b) : b[i] = q[i] /\ q[i] # Nul
        /\ \A i \in 1..n : i > Len(b) => q[i] = Nul
    BY CutIs, UntilNulIs
  <1>3. /\ p = [i \in 1..n |-> p[i]]
        /\ q = [i \in 1..n |-> q[i]]
    BY DEF Image
  <1> HIDE DEF a, b, p, q
  <1>4. ASSUME p = q
        PROVE  a = b
    <2>1. Len(a) = Len(b)
      <3>1. CASE Len(a) < Len(b)
        <4>1. Len(b) \in 1..n /\ Len(b) > Len(a) /\ Len(b) \in 1..Len(b)
          BY <1>1, <1>2, <3>1
        <4> QED
          BY <1>1, <1>2, <1>4, <4>1
      <3>2. CASE Len(b) < Len(a)
        <4>1. Len(a) \in 1..n /\ Len(a) > Len(b) /\ Len(a) \in 1..Len(a)
          BY <1>1, <1>2, <3>2
        <4> QED
          BY <1>1, <1>2, <1>4, <4>1
      <3> QED
        BY <1>1, <1>2, <3>1, <3>2
    <2>2. \A i \in 1..Len(a) : a[i] = b[i]
      BY <1>1, <1>2, <1>4, <2>1
    <2> QED
      BY <1>1, <1>2, <2>1, <2>2
  <1>5. ASSUME a = b
        PROVE  p = q
    <2>1. ASSUME NEW i \in 1..n
          PROVE  p[i] = q[i]
      <3>1. i \in 1..Len(a) \/ i > Len(a)
        BY <1>1
      <3> QED
        BY <1>1, <1>2, <1>5, <3>1
    <2> QED
      BY <1>3, <2>1
  <1> QED
    BY <1>4, <1>5 DEF a, b, p, q

(* Nothing is held of the empty text.                                      *)
LEMMA EmptyImage ==
  ASSUME NEW n \in Nat
  PROVE  /\ Image(<<>>, n) = Filled(Nul, n)
         /\ Cut(<<>>, n) = <<>>
  <1>1. <<>> \in Seq(Characters) /\ Len(<<>>) = 0
    OBVIOUS
  <1>2. UntilNul(<<>>) = <<>>
    BY <1>1 DEF UntilNul
  <1>3. ASSUME NEW i \in 1..n
        PROVE  (IF i <= Len(UntilNul(<<>>)) THEN UntilNul(<<>>)[i] ELSE Nul) = Nul
    <2>1. ~(i <= 0)
      OBVIOUS
    <2> QED
      BY <1>1, <1>2, <2>1
  <1>4. Image(<<>>, n) = Filled(Nul, n)
    BY <1>3 DEF Image, Filled
  <1> DEFINE e == <<>>
             c == Cut(e, n)
  <1>5. e \in Seq(Characters) /\ Len(UntilNul(e)) = 0
    BY <1>1, <1>2
  <1>6. c \in Seq(Characters) /\ Len(c) = 0
    <2> HIDE DEF e
    <2>1. c \in Seq(Characters) /\ Len(c) = IF n <= 0 THEN n ELSE 0
      BY <1>5, CutIs
    <2> QED
      BY <2>1
  <1>7. c = <<>>
    <2> HIDE DEF c
    <2> QED
      BY <1>6
  <1> QED
    BY <1>4, <1>7

(* A field is all zeros just when nothing of the text is held.             *)
LEMMA ImageEmpty ==
  ASSUME NEW t \in Seq(Characters), NEW n \in Nat
  PROVE  Image(t, n) = Filled(Nul, n) <=> Cut(t, n) = <<>>
  <1>1. <<>> \in Seq(Characters)
    OBVIOUS
  <1> QED
    BY <1>1, EmptyImage, ImageTells

(* A marker fills its field and is read back.                              *)
LEMMA MarkerImage ==
  ASSUME NEW m \in {BEGKEY, CONKEY, NINES}
  PROVE  /\ <<m>> \in Seq(Characters)
         /\ UntilNul(<<m>>) = <<m>>
         /\ Image(<<m>>, 1) = <<m>>
         /\ <<m>> # <<Nul>>
  <1>1. m \in Characters /\ m # Nul
    BY RecordAssumption DEF Characters
  <1>2. <<m>> \in Seq(Characters) /\ Len(<<m>>) = 1 /\ <<m>>[1] = m
    BY <1>1
  <1>3. {i \in 1..1 : <<m>>[i] = Nul} = {}
    BY <1>1, <1>2
  <1>4. UntilNul(<<m>>) = <<m>>
    BY <1>2, <1>3 DEF UntilNul
  <1>5. \A i \in 1..1 : i = 1 /\ i <= 1
    OBVIOUS
  <1>6. Image(<<m>>, 1) = [i \in 1..1 |-> m]
    BY <1>2, <1>4, <1>5 DEF Image
  <1>7. <<m>> = [i \in 1..1 |-> m]
    BY <1>2
  <1> QED
    BY <1>1, <1>2, <1>4, <1>6, <1>7

-----------------------------------------------------------------------------
(* The inductive invariant.                                                *)

(* A field holds what it was given, whatever it held before: but that of   *)
(* the key is not known after its part was removed.                        *)
Holds(f, field, text) ==
  /\ field \in [1..Size[f] -> Characters]
  /\ \/ f = "key" /\ text = Unknown
     \/ text \in Seq(Characters) /\ field = Image(text, Size[f])

(* Only markers are given to their fields.                                 *)
Givable(f, text) ==
  /\ f = "type" => text \in {<<>>, <<BEGKEY>>, <<CONKEY>>}
  /\ f = "append" => text \in {<<>>, <<NINES>>}

RecordOK(fields, texts) ==
  /\ fields \in [Fields -> Seq(Characters)]
  /\ texts \in [Fields -> Seq(Characters) \cup {Unknown}]
  /\ \A f \in Fields : Holds(f, fields[f], texts[f]) /\ Givable(f, texts[f])

(* What was shown and held of each field.                                  *)
Memories ==
  /\ shown \in [Objects -> [Fields -> Seq(Characters)]]
  /\ held \in [Objects -> [Fields -> SUBSET Seq(Characters)]]

Contents ==
  /\ data \in [Objects -> [Fields -> Seq(Characters)]]
  /\ given \in [Objects -> [Fields -> Seq(Characters) \cup {Unknown}]]
  /\ \A r \in Objects : RecordOK(data[r], given[r])

Inv == Contents /\ Memories /\ ShownWasHeld /\ FailsOnlyUntyped

(* The fields and their sizes.                                             *)
LEMMA FieldFacts ==
  /\ \A f \in Fields : Size[f] \in Nat /\ Size[f] >= 1
  /\ {"key", "value", "type", "sequence", "append"} \subseteq Fields
  /\ TextFields \subseteq Fields
  /\ \A f \in TextFields : f \notin {"type", "sequence", "append"}
  /\ Size["type"] = 1 /\ Size["append"] = 1
  BY RecordAssumption DEF Fields

(* An object just made holds the nothing it was given.                     *)
LEMMA BlankOK == RecordOK(Blank, Nothing)
  <1>1. <<>> \in Seq(Characters) /\ Nul \in Characters
    BY DEF Characters
  <1>2. ASSUME NEW f \in Fields
        PROVE  /\ Filled(Nul, Size[f]) \in [1..Size[f] -> Characters]
               /\ Filled(Nul, Size[f]) \in Seq(Characters)
               /\ Filled(Nul, Size[f]) = Image(<<>>, Size[f])
    <2>1. Size[f] \in Nat
      BY FieldFacts
    <2>2. Filled(Nul, Size[f]) \in [1..Size[f] -> Characters]
      BY <1>1 DEF Filled
    <2> QED
      BY <2>1, <2>2, EmptyImage
  <1>3. Blank \in [Fields -> Seq(Characters)]
    BY <1>2 DEF Blank
  <1>4. Nothing \in [Fields -> Seq(Characters) \cup {Unknown}]
    BY <1>1 DEF Nothing
  <1>5. ASSUME NEW f \in Fields
        PROVE  Holds(f, Blank[f], Nothing[f]) /\ Givable(f, Nothing[f])
    <2>1. Blank[f] = Filled(Nul, Size[f]) /\ Nothing[f] = <<>>
      BY DEF Blank, Nothing
    <2> QED
      BY <1>1, <1>2, <2>1 DEF Holds, Givable
  <1> QED
    BY <1>3, <1>4, <1>5 DEF RecordOK

(* A record of which one field changes and holds what it is given.         *)
LEMMA OneField ==
  ASSUME NEW fields, NEW texts, RecordOK(fields, texts), NEW f \in Fields,
         NEW field, NEW text, Holds(f, field, text), Givable(f, text)
  PROVE  RecordOK([fields EXCEPT ![f] = field], [texts EXCEPT ![f] = text])
  <1>1. fields \in [Fields -> Seq(Characters)]
    BY DEF RecordOK
  <1>2. texts \in [Fields -> Seq(Characters) \cup {Unknown}]
    BY DEF RecordOK
  <1>3. field \in Seq(Characters)
    <2>1. Size[f] \in Nat /\ field \in [1..Size[f] -> Characters]
      BY FieldFacts DEF Holds
    <2> QED
      BY <2>1
  <1>4. text \in Seq(Characters) \cup {Unknown}
    BY DEF Holds
  <1> DEFINE newFields == [fields EXCEPT ![f] = field]
             newTexts  == [texts EXCEPT ![f] = text]
  <1>5. newFields \in [Fields -> Seq(Characters)]
    BY <1>1, <1>3
  <1>6. newTexts \in [Fields -> Seq(Characters) \cup {Unknown}]
    BY <1>2, <1>4
  <1>7. ASSUME NEW g \in Fields
        PROVE  Holds(g, newFields[g], newTexts[g]) /\ Givable(g, newTexts[g])
    <2>1. CASE g = f
      <3>1. newFields[g] = field /\ newTexts[g] = text
        BY <1>1, <1>2, <2>1
      <3> QED
        BY <2>1, <3>1
    <2>2. CASE g # f
      <3>1. newFields[g] = fields[g] /\ newTexts[g] = texts[g]
        BY <1>1, <1>2, <2>2
      <3> QED
        BY <3>1 DEF RecordOK
    <2> QED
      BY <2>1, <2>2
  <1> QED
    BY <1>5, <1>6, <1>7 DEF RecordOK

(* A marker set or removed.                                                *)
LEMMA MarkerHeld ==
  /\ \A m \in {BEGKEY, CONKEY} :
       Holds("type", <<m>>, <<m>>) /\ Givable("type", <<m>>)
  /\ Holds("append", <<NINES>>, <<NINES>>) /\ Givable("append", <<NINES>>)
  /\ Holds("append", <<Nul>>, <<>>) /\ Givable("append", <<>>)
  <1>1. ASSUME NEW m \in {BEGKEY, CONKEY, NINES}, NEW f \in {"type", "append"}
        PROVE  Holds(f, <<m>>, <<m>>)
    <2>1. <<m>> \in Seq(Characters) /\ Image(<<m>>, 1) = <<m>>
      BY <1>1, MarkerImage
    <2>2. Size[f] = 1
      BY <1>1, FieldFacts
    <2>3. <<m>> \in [1..1 -> Characters]
      <3>1. m \in Characters
        BY <1>1 DEF Characters
      <3> QED
        BY <3>1
    <2> QED
      BY <2>1, <2>2, <2>3 DEF Holds
  <1>2. Holds("append", <<Nul>>, <<>>)
    <2>1. Filled(Nul, 1) = <<Nul>>
      BY DEF Filled
    <2>2. Nul \in Characters
      BY DEF Characters
    <2>3. <<Nul>> \in [1..1 -> Characters] /\ <<>> \in Seq(Characters)
      BY <2>2
    <2>4. Image(<<>>, 1) = <<Nul>>
      BY <2>1, EmptyImage
    <2> QED
      BY <2>3, <2>4, FieldFacts DEF Holds
  <1> QED
    BY <1>1, <1>2 DEF Givable

(* A call that leaves an object with a record that holds what it was given *)
(* and keeps strings that it has held, or holds now.                       *)
LEMMA CallKeeps ==
  ASSUME Inv, NEW r \in Objects, NEW fields, NEW texts, NEW kept,
         RecordOK(fields, texts),
         kept \in [Fields -> Seq(Characters)],
         \A f \in TextFields :
           kept[f] # <<>> => kept[f] \in held[r][f] \/ kept[f] = fields[f],
         Call(r, fields, texts, kept)
  PROVE  Inv'
  <1>1. /\ fields \in [Fields -> Seq(Characters)]
        /\ texts \in [Fields -> Seq(Characters) \cup {Unknown}]
    BY DEF RecordOK
  <1>2. /\ data' = [data EXCEPT ![r] = fields]
        /\ given' = [given EXCEPT ![r] = texts]
    BY DEF Call
  <1>3. /\ data \in [Objects -> [Fields -> Seq(Characters)]]
        /\ given \in [Objects -> [Fields -> Seq(Characters) \cup {Unknown}]]
        /\ \A s \in Objects : RecordOK(data[s], given[s])
    BY DEF Inv, Contents
  <1>4. Contents'
    <2>1. /\ data' \in [Objects -> [Fields -> Seq(Characters)]]
          /\ given' \in [Objects -> [Fields -> Seq(Characters) \cup {Unknown}]]
      BY <1>1, <1>2, <1>3
    <2>2. ASSUME NEW s \in Objects
          PROVE  RecordOK(data'[s], given'[s])
      <3>1. CASE s = r
        <4>1. data'[s] = fields /\ given'[s] = texts
          BY <1>2, <1>3, <3>1
        <4> QED
          BY <4>1
      <3>2. CASE s # r
        <4>1. data'[s] = data[s] /\ given'[s] = given[s]
          BY <1>2, <1>3, <3>2
        <4> QED
          BY <1>3, <4>1
      <3> QED
        BY <3>1, <3>2
    <2> QED
      BY <2>1, <2>2 DEF Contents, RecordOK, Holds, Givable
  <1>5. /\ shown \in [Objects -> [Fields -> Seq(Characters)]]
        /\ held \in [Objects -> [Fields -> SUBSET Seq(Characters)]]
        /\ shown' = [shown EXCEPT ![r] = kept]
        /\ held' = [held EXCEPT ![r] = [f \in Fields |-> @[f] \cup {fields[f]}]]
    BY DEF Inv, Memories, Call
  <1>6. Memories'
    <2>1. shown' \in [Objects -> [Fields -> Seq(Characters)]]
      BY <1>5
    <2>2. [f \in Fields |-> held[r][f] \cup {fields[f]}]
            \in [Fields -> SUBSET Seq(Characters)]
      BY <1>1, <1>5
    <2>3. held' \in [Objects -> [Fields -> SUBSET Seq(Characters)]]
      BY <1>5, <2>2
    <2> QED
      BY <2>1, <2>3 DEF Memories
  <1>7. ASSUME NEW s \in Objects, NEW f \in TextFields, shown'[s][f] # <<>>
        PROVE  shown'[s][f] \in held'[s][f]
    <2>1. f \in Fields
      BY FieldFacts
    <2>2. CASE s = r
      <3>1. /\ shown'[s][f] = kept[f]
            /\ held'[s][f] = held[r][f] \cup {fields[f]}
        BY <1>5, <2>1, <2>2
      <3> QED
        BY <1>7, <3>1
    <2>3. CASE s # r
      <3>1. shown'[s] = shown[s] /\ held'[s] = held[s]
        BY <1>5, <2>3
      <3> QED
        BY <1>7, <3>1 DEF Inv, ShownWasHeld
    <2> QED
      BY <2>2, <2>3
  <1>8. ShownWasHeld'
    BY <1>7 DEF ShownWasHeld
  <1>9. FailsOnlyUntyped'
    BY DEF Call, FailsOnlyUntyped
  <1> QED
    BY <1>4, <1>6, <1>8, <1>9 DEF Inv

(* What the object has and shows.                                          *)
LEMMA Has ==
  ASSUME Inv, NEW r \in Objects
  PROVE  /\ RecordOK(data[r], given[r])
         /\ shown[r] \in [Fields -> Seq(Characters)]
         /\ \A f \in TextFields : shown[r][f] # <<>> => shown[r][f] \in held[r][f]
  BY DEF Inv, Contents, Memories, ShownWasHeld

(* A call that keeps the strings as they are.                              *)
LEMMA QuietCallKeeps ==
  ASSUME Inv, NEW r \in Objects, NEW fields, NEW texts, RecordOK(fields, texts),
         Call(r, fields, texts, shown[r])
  PROVE  Inv'
  BY Has, CallKeeps

(* A constructor: nothing is shown, and what is held is what is copied.    *)
LEMMA ConstructKeeps ==
  ASSUME Inv, NEW r \in Objects, NEW s \in Objects \cup {None}, Construct(r, s)
  PROVE  Inv'
  <1> DEFINE fields == IF s = None THEN Blank ELSE data[s]
             texts  == IF s = None THEN Nothing ELSE given[s]
  <1>1. RecordOK(fields, texts)
    BY BlankOK DEF Inv, Contents
  <1>2. /\ data' = [data EXCEPT ![r] = fields]
        /\ given' = [given EXCEPT ![r] = texts]
        /\ shown' = [shown EXCEPT ![r] = Nothing]
        /\ held' = [held EXCEPT ![r] = [f \in Fields |-> {data'[r][f]}]]
        /\ failed = None /\ failed' = None
    BY DEF Construct
  <1> HIDE DEF fields, texts
  <1>3. /\ fields \in [Fields -> Seq(Characters)]
        /\ texts \in [Fields -> Seq(Characters) \cup {Unknown}]
    BY <1>1 DEF RecordOK
  <1>4. /\ data \in [Objects -> [Fields -> Seq(Characters)]]
        /\ given \in [Objects -> [Fields -> Seq(Characters) \cup {Unknown}]]
        /\ \A q \in Objects : RecordOK(data[q], given[q])
    BY DEF Inv, Contents
  <1>5. ASSUME NEW q \in Objects
        PROVE  RecordOK(data'[q], given'[q])
    <2>1. CASE q = r
      <3>1. data'[q] = fields /\ given'[q] = texts
        BY <1>2, <1>4, <2>1
      <3> QED
        BY <1>1, <3>1
    <2>2. CASE q # r
      <3>1. data'[q] = data[q] /\ given'[q] = given[q]
        BY <1>2, <1>4, <2>2
      <3> QED
        BY <1>4, <3>1
    <2> QED
      BY <2>1, <2>2
  <1>6. /\ data' \in [Objects -> [Fields -> Seq(Characters)]]
        /\ given' \in [Objects -> [Fields -> Seq(Characters) \cup {Unknown}]]
    BY <1>2, <1>3, <1>4
  <1>7. Contents'
    BY <1>5, <1>6 DEF Contents, RecordOK, Holds, Givable
  <1>8. /\ shown \in [Objects -> [Fields -> Seq(Characters)]]
        /\ held \in [Objects -> [Fields -> SUBSET Seq(Characters)]]
    BY DEF Inv, Memories
  <1>9. data'[r] = fields
    BY <1>2, <1>4
  <1>10. Nothing \in [Fields -> Seq(Characters)]
    BY DEF Nothing
  <1>11. [f \in Fields |-> {data'[r][f]}] \in [Fields -> SUBSET Seq(Characters)]
    BY <1>3, <1>9
  <1>12. Memories'
    <2>1. shown' \in [Objects -> [Fields -> Seq(Characters)]]
      BY <1>2, <1>8, <1>10
    <2>2. held' \in [Objects -> [Fields -> SUBSET Seq(Characters)]]
      BY <1>2, <1>8, <1>11
    <2> QED
      BY <2>1, <2>2 DEF Memories
  <1>13. ASSUME NEW q \in Objects, NEW f \in TextFields, shown'[q][f] # <<>>
         PROVE  shown'[q][f] \in held'[q][f]
    <2>1. f \in Fields
      BY FieldFacts
    <2>2. q # r
      BY <1>2, <1>8, <1>13, <2>1 DEF Nothing
    <2>3. shown'[q] = shown[q] /\ held'[q] = held[q]
      BY <1>2, <1>8, <2>2
    <2> QED
      BY <1>13, <2>3 DEF Inv, ShownWasHeld
  <1>14. ShownWasHeld' /\ FailsOnlyUntyped'
    BY <1>2, <1>13 DEF ShownWasHeld, FailsOnlyUntyped
  <1> QED
    BY <1>7, <1>12, <1>14 DEF Inv

(* A field of text or the sequence that is set.                            *)
LEMMA SetHolds ==
  ASSUME NEW fields, NEW texts, RecordOK(fields, texts),
         NEW f \in Fields \ {"type", "append"}, NEW t \in Seq(Characters)
  PROVE  /\ Holds(f, Stored(t, fields[f]), t)
         /\ Givable(f, t)
         /\ Stored(t, fields[f]) \in Seq(Characters)
  <1>1. Size[f] \in Nat /\ fields[f] \in [1..Size[f] -> Characters]
    BY FieldFacts DEF RecordOK, Holds
  <1>2. Stored(t, fields[f]) = Image(t, Size[f])
    BY <1>1, StoredIsImage
  <1>3. Image(t, Size[f]) \in [1..Size[f] -> Characters]
    BY <1>1, ImageFits
  <1>4. Image(t, Size[f]) \in Seq(Characters)
    BY <1>1, <1>3
  <1> QED
    BY <1>2, <1>3, <1>4 DEF Holds, Givable

(* Setting a field of text.                                                *)
LEMMA SetTextKeeps ==
  ASSUME Inv, NEW r \in Objects, NEW f \in TextFields, NEW t \in Texts,
         SetText(r, f, t)
  PROVE  Inv'
  <1> DEFINE fields == [data[r] EXCEPT ![f] = Stored(t, @)]
             texts  == [given[r] EXCEPT ![f] = t]
  <1>1. t \in Seq(Characters) /\ f \in Fields \ {"type", "append"}
    BY RecordAssumption, FieldFacts
  <1>2. RecordOK(data[r], given[r])
    BY Has
  <1>3. Holds(f, Stored(t, data[r][f]), t) /\ Givable(f, t)
    BY <1>1, <1>2, SetHolds
  <1>4. RecordOK(fields, texts)
    BY <1>1, <1>2, <1>3, OneField
  <1>5. Call(r, fields, texts, shown[r])
    BY DEF SetText, StringSet
  <1> HIDE DEF fields, texts
  <1> QED
    BY <1>4, <1>5, QuietCallKeeps

(* The strings of a field that is not one of text may grow.                *)
LEMMA OtherStringKeeps ==
  ASSUME Inv, NEW r \in Objects, NEW fields, NEW texts, RecordOK(fields, texts),
         NEW f \in Fields \ TextFields, NEW string \in Seq(Characters),
         Call(r, fields, texts, [shown[r] EXCEPT ![f] = string])
  PROVE  Inv'
  <1> DEFINE kept == [shown[r] EXCEPT ![f] = string]
  <1>1. shown[r] \in [Fields -> Seq(Characters)]
    BY Has
  <1>2. kept \in [Fields -> Seq(Characters)]
    BY <1>1
  <1>3. \A g \in TextFields : kept[g] = shown[r][g]
    BY <1>1, FieldFacts
  <1>4. \A g \in TextFields : kept[g] # <<>> => kept[g] \in held[r][g]
    BY <1>3, Has
  <1>5. Call(r, fields, texts, kept)
    OBVIOUS
  <1> HIDE DEF kept
  <1> QED
    BY <1>2, <1>4, <1>5, CallKeeps

(* Setting the sequence: its string grows.                                 *)
LEMMA SetSequenceKeeps ==
  ASSUME Inv, NEW r \in Objects, NEW digits \in Numbers, SetSequence(r, digits)
  PROVE  Inv'
  <1> DEFINE f      == "sequence"
             field  == Stored(digits, data[r][f])
             fields == [data[r] EXCEPT ![f] = field]
             texts  == [given[r] EXCEPT ![f] = digits]
             string == shown[r][f] \o UntilNul(field)
  <1>1. /\ digits \in Seq(Characters)
        /\ f \in Fields \ {"type", "append"} /\ f \in Fields \ TextFields
    BY RecordAssumption, FieldFacts
  <1>2. RecordOK(data[r], given[r]) /\ shown[r] \in [Fields -> Seq(Characters)]
    BY Has
  <1>3. Holds(f, field, digits) /\ Givable(f, digits) /\ field \in Seq(Characters)
    BY <1>1, <1>2, SetHolds
  <1>4. RecordOK(fields, texts)
    BY <1>1, <1>2, <1>3, OneField
  <1>5. string \in Seq(Characters)
    <2>1. shown[r][f] \in Seq(Characters)
      BY <1>1, <1>2
    <2>2. UntilNul(field) \in Seq(Characters)
      BY <1>3, UntilNulIs
    <2> QED
      BY <2>1, <2>2
  <1>6. Call(r, fields, texts, [shown[r] EXCEPT ![f] = string])
    <2>1. [shown[r] EXCEPT ![f] = string]
            = [shown[r] EXCEPT ![f] = @ \o UntilNul(field)]
      OBVIOUS
    <2> QED
      BY <2>1 DEF SetSequence
  <1> HIDE DEF f, fields, texts, string
  <1> QED
    BY <1>1, <1>4, <1>5, <1>6, OtherStringKeeps

(* A field read for the first time is shown as it is held now.             *)
LEMMA ShowTextKeeps ==
  ASSUME Inv, NEW r \in Objects, NEW f \in TextFields, ShowText(r, f)
  PROVE  Inv'
  <1> DEFINE kept == [shown[r] EXCEPT ![f] = KeptOrRead(@, data[r][f])]
  <1>1. /\ shown[r] \in [Fields -> Seq(Characters)]
        /\ RecordOK(data[r], given[r])
        /\ \A g \in TextFields : shown[r][g] # <<>> => shown[r][g] \in held[r][g]
    BY Has
  <1>2. f \in Fields /\ data[r][f] \in Seq(Characters)
    BY <1>1, FieldFacts DEF RecordOK
  <1>3. KeptOrRead(shown[r][f], data[r][f]) \in Seq(Characters)
    BY <1>1, <1>2 DEF KeptOrRead
  <1>4. kept \in [Fields -> Seq(Characters)]
    BY <1>1, <1>3
  <1>5. ASSUME NEW g \in TextFields, kept[g] # <<>>
        PROVE  kept[g] \in held[r][g] \/ kept[g] = data[r][g]
    <2>1. CASE g = f
      <3>1. kept[g] = KeptOrRead(shown[r][f], data[r][f])
        BY <1>1, <1>2, <2>1
      <3> QED
        BY <1>1, <2>1, <3>1 DEF KeptOrRead
    <2>2. CASE g # f
      <3>1. kept[g] = shown[r][g]
        BY <1>1, <2>2, FieldFacts
      <3> QED
        BY <1>1, <1>5, <3>1
    <2> QED
      BY <2>1, <2>2
  <1>6. Call(r, data[r], given[r], kept)
    BY DEF ShowText
  <1> HIDE DEF kept
  <1> QED
    BY <1>1, <1>4, <1>5, <1>6, CallKeeps

(* The assert on the type: a marker is read back, so there was none.       *)
LEMMA ShowTypeKeeps ==
  ASSUME Inv, NEW r \in Objects, ShowType(r)
  PROVE  Inv'
  <1> DEFINE type == IF shown[r]["type"] = <<>> THEN UntilNul(data[r]["type"])
                     ELSE shown[r]["type"]
  <1>1. /\ shown[r] \in [Fields -> Seq(Characters)]
        /\ RecordOK(data[r], given[r])
    BY Has
  <1>2. "type" \in Fields /\ "type" \in Fields \ TextFields
    BY FieldFacts
  <1>3. data[r]["type"] \in Seq(Characters) /\ shown[r]["type"] \in Seq(Characters)
    BY <1>1, <1>2 DEF RecordOK
  <1>4. type \in Seq(Characters)
    BY <1>3, UntilNulIs
  <1>5. CASE Call(r, data[r], given[r], [shown[r] EXCEPT !["type"] = type])
    <2> HIDE DEF type
    <2> QED
      BY <1>1, <1>2, <1>4, <1>5, OtherStringKeeps
  <1>6. CASE /\ type = <<>> /\ failed' = r
             /\ UNCHANGED <<data, shown, calls, given, held>>
    <2>1. UntilNul(data[r]["type"]) = <<>>
      BY <1>6
    <2>2. Holds("type", data[r]["type"], given[r]["type"])
      BY <1>1, <1>2 DEF RecordOK
    <2>3. given[r]["type"] \in {<<>>, <<BEGKEY>>, <<CONKEY>>}
      BY <1>1, <1>2 DEF RecordOK, Givable
    <2>4. data[r]["type"] = Image(given[r]["type"], 1)
      BY <2>2, FieldFacts DEF Holds
    <2>5. ASSUME NEW m \in {BEGKEY, CONKEY}
          PROVE  given[r]["type"] # <<m>>
      <3>1. Image(<<m>>, 1) = <<m>> /\ UntilNul(<<m>>) = <<m>>
        BY MarkerImage
      <3>2. <<m>> # <<>>
        OBVIOUS
      <3> QED
        BY <2>1, <2>4, <3>1, <3>2
    <2>6. given[r]["type"] = <<>>
      BY <2>3, <2>5
    <2>7. FailsOnlyUntyped'
      BY <1>6, <2>6 DEF FailsOnlyUntyped
    <2>8. Contents' /\ Memories' /\ ShownWasHeld'
      BY <1>6 DEF Inv, Contents, Memories, ShownWasHeld, RecordOK, Holds, Givable
    <2> QED
      BY <2>7, <2>8 DEF Inv
  <1> QED
    BY <1>5, <1>6 DEF ShowType

(* The markers.                                                            *)
LEMMA MarkersKeep ==
  ASSUME Inv, NEW r \in Objects,
         \/ \E m \in {BEGKEY, CONKEY} : AddMarker(r, m)
         \/ AddAppendMarker(r) \/ RemoveAppendMarker(r)
  PROVE  Inv'
  <1>1. RecordOK(data[r], given[r]) /\ "type" \in Fields /\ "append" \in Fields
    BY Has, FieldFacts
  <1>2. ASSUME NEW m \in {BEGKEY, CONKEY}, AddMarker(r, m)
        PROVE  Inv'
    <2> DEFINE fields == [data[r] EXCEPT !["type"] = <<m>>]
               texts  == [given[r] EXCEPT !["type"] = <<m>>]
    <2>1. RecordOK(fields, texts)
      BY <1>1, MarkerHeld, OneField
    <2>2. Call(r, fields, texts, shown[r])
      BY <1>2 DEF AddMarker
    <2> HIDE DEF fields, texts
    <2> QED
      BY <2>1, <2>2, QuietCallKeeps
  <1>3. CASE AddAppendMarker(r)
    <2> DEFINE fields == [data[r] EXCEPT !["append"] = <<NINES>>]
               texts  == [given[r] EXCEPT !["append"] = <<NINES>>]
    <2>1. RecordOK(fields, texts)
      BY <1>1, MarkerHeld, OneField
    <2>2. Call(r, fields, texts, shown[r])
      BY <1>3 DEF AddAppendMarker
    <2> HIDE DEF fields, texts
    <2> QED
      BY <2>1, <2>2, QuietCallKeeps
  <1>4. CASE RemoveAppendMarker(r)
    <2> DEFINE fields == [data[r] EXCEPT !["append"] = <<Nul>>]
               texts  == [given[r] EXCEPT !["append"] = <<>>]
    <2>1. RecordOK(fields, texts)
      BY <1>1, MarkerHeld, OneField
    <2>2. Call(r, fields, texts, shown[r])
      BY <1>4 DEF RemoveAppendMarker
    <2> HIDE DEF fields, texts
    <2> QED
      BY <2>1, <2>2, QuietCallKeeps
  <1> QED
    BY <1>2, <1>3, <1>4

(* Of the key whose part is removed nothing is claimed but its size.       *)
LEMMA RemoveKeyPartKeeps ==
  ASSUME Inv, NEW r \in Objects, RemoveKeyPart(r)
  PROVE  Inv'
  <1> DEFINE removed == Size["key"] - KeyTail
             old     == data[r]["key"]
             key     == [i \in DOMAIN old |-> IF i <= removed THEN Nul ELSE old[i]]
             fields  == [data[r] EXCEPT !["key"] = key]
             texts   == [given[r] EXCEPT !["key"] = Unknown]
  <1>1. RecordOK(data[r], given[r]) /\ "key" \in Fields
    BY Has, FieldFacts
  <1>2. old \in [1..Size["key"] -> Characters]
    BY <1>1 DEF RecordOK, Holds
  <1>3. key \in [1..Size["key"] -> Characters]
    <2>1. Nul \in Characters
      BY DEF Characters
    <2> HIDE DEF old, removed
    <2> QED
      BY <1>2, <2>1
  <1>4. Holds("key", key, Unknown) /\ Givable("key", Unknown)
    BY <1>3 DEF Holds, Givable
  <1>5. RecordOK(fields, texts)
    <2> HIDE DEF key
    <2> QED
      BY <1>1, <1>4, OneField
  <1>6. Call(r, fields, texts, shown[r])
    BY DEF RemoveKeyPart
  <1> HIDE DEF fields, texts
  <1> QED
    BY <1>5, <1>6, QuietCallKeeps

(* A record that continues another gets its key, known or not.             *)
LEMMA ReplicateKeeps ==
  ASSUME Inv, NEW first \in Objects, NEW r \in Objects, Replicate(first, r)
  PROVE  Inv'
  <1> DEFINE typed  == [data[r] EXCEPT !["type"] = <<CONKEY>>]
             typedTexts == [given[r] EXCEPT !["type"] = <<CONKEY>>]
             fields == [typed EXCEPT !["key"] = data[first]["key"]]
             texts  == [typedTexts EXCEPT !["key"] = given[first]["key"]]
  <1>1. /\ RecordOK(data[r], given[r]) /\ RecordOK(data[first], given[first])
        /\ "key" \in Fields /\ "type" \in Fields
    BY Has, FieldFacts
  <1>2. RecordOK(typed, typedTexts)
    BY <1>1, MarkerHeld, OneField
  <1>3. /\ Holds("key", data[first]["key"], given[first]["key"])
        /\ Givable("key", given[first]["key"])
    BY <1>1 DEF RecordOK
  <1>4. RecordOK(fields, texts)
    <2> HIDE DEF typed, typedTexts
    <2> QED
      BY <1>1, <1>2, <1>3, OneField
  <1>5. Call(r, fields, texts, shown[r])
    BY DEF Replicate
  <1> HIDE DEF fields, texts
  <1> QED
    BY <1>4, <1>5, QuietCallKeeps

(* At first every object is just made.                                     *)
LEMMA InvInit == Init => Inv
  <1> SUFFICES ASSUME Init PROVE Inv
    OBVIOUS
  <1>1. RecordOK(Blank, Nothing)
    BY BlankOK
  <1>2. /\ Blank \in [Fields -> Seq(Characters)]
        /\ Nothing \in [Fields -> Seq(Characters) \cup {Unknown}]
    BY <1>1 DEF RecordOK
  <1>3. Contents
    BY <1>1, <1>2 DEF Init, Contents
  <1>4. Nothing \in [Fields -> Seq(Characters)]
    BY DEF Nothing
  <1>5. [f \in Fields |-> {}] \in [Fields -> SUBSET Seq(Characters)]
    OBVIOUS
  <1>6. Memories
    BY <1>4, <1>5 DEF Init, Memories
  <1>7. \A r \in Objects, f \in TextFields : shown[r][f] = <<>>
    BY FieldFacts DEF Init, Nothing
  <1>8. ShownWasHeld /\ FailsOnlyUntyped
    BY <1>7 DEF Init, ShownWasHeld, FailsOnlyUntyped
  <1> QED
    BY <1>3, <1>6, <1>8 DEF Inv

(* Every call keeps the invariant.                                         *)
LEMMA InvInductive == Inv /\ [Next]_vars => Inv'
  <1> SUFFICES ASSUME Inv, [Next]_vars PROVE Inv'
    OBVIOUS
  <1>1. CASE UNCHANGED vars
    BY <1>1 DEF vars, Inv, Contents, Memories, ShownWasHeld, FailsOnlyUntyped,
                RecordOK, Holds, Givable
  <1>2. ASSUME NEW r \in Objects, NEW s \in Objects, CopyOver(r, s)
        PROVE  Inv'
    <2>1. RecordOK(data[s], given[s])
      BY Has
    <2> QED
      BY <1>2, <2>1, QuietCallKeeps DEF CopyOver
  <1>3. ASSUME NEW r \in Objects, Clear(r)
        PROVE  Inv'
    BY <1>3, BlankOK, QuietCallKeeps DEF Clear
  <1>4. ASSUME NEW r \in Objects, SetRecordType(r)
        PROVE  Inv'
    BY <1>4, Has, QuietCallKeeps DEF SetRecordType
  <1> QED
    BY <1>1, <1>2, <1>3, <1>4, ConstructKeeps, ReplicateKeeps,
       RemoveKeyPartKeeps, ShowTextKeeps, SetTextKeeps, SetSequenceKeeps,
       ShowTypeKeeps, MarkersKeep DEF Next

(* The inductive invariant always holds.                                   *)
THEOREM AlwaysInv == Spec => []Inv
  BY InvInit, InvInductive, PTL DEF Spec

(* What an object shows of a field of text the field has held since the    *)
(* object was made (getKeyAsString and its like, operator=).               *)
THEOREM ShownTextWasHeld == Spec => []ShownWasHeld
  <1>1. Inv => ShownWasHeld
    BY DEF Inv
  <1> QED
    BY <1>1, AlwaysInv, PTL

(* The assert of getKeyTypeAsString fails only on a record without a       *)
(* marker.                                                                 *)
THEOREM FailsOnlyWithoutMarker == Spec => []FailsOnlyUntyped
  <1>1. Inv => FailsOnlyUntyped
    BY DEF Inv
  <1> QED
    BY <1>1, AlwaysInv, PTL

-----------------------------------------------------------------------------
(* What the functions that compare and classify answer.                    *)

(* The type and the append field tell which marker was given.              *)
LEMMA MarkersTold ==
  ASSUME Inv, NEW r \in Objects
  PROVE  /\ \A m \in {BEGKEY, CONKEY} :
              StartsWith(r, m) <=> given[r]["type"] = <<m>>
         /\ IsAddOn(r) <=> given[r]["append"] # <<>>
  <1>1. \A f \in {"type", "append"} :
          /\ data[r][f] = Image(given[r][f], 1)
          /\ Givable(f, given[r][f])
    <2>1. RecordOK(data[r], given[r])
      BY Has
    <2> QED
      BY <2>1, FieldFacts DEF RecordOK, Holds
  <1>2. Image(<<>>, 1) = <<Nul>>
    <2>1. Filled(Nul, 1) = <<Nul>>
      BY DEF Filled
    <2> QED
      BY <2>1, EmptyImage
  <1>3. \A m \in {BEGKEY, CONKEY, NINES} :
          Image(<<m>>, 1) = <<m>> /\ <<m>> # <<Nul>> /\ <<m>> # <<>>
    BY MarkerImage
  <1>4. given[r]["type"] \in {<<>>, <<BEGKEY>>, <<CONKEY>>}
    BY <1>1 DEF Givable
  <1>5. given[r]["append"] \in {<<>>, <<NINES>>}
    BY <1>1 DEF Givable
  <1>6. ASSUME NEW m \in {BEGKEY, CONKEY}
        PROVE  StartsWith(r, m) <=> given[r]["type"] = <<m>>
    <2>1. data[r]["type"] = Image(given[r]["type"], 1)
      BY <1>1
    <2>2. StartsWith(r, m) <=> Image(given[r]["type"], 1) = <<m>>
      BY <2>1 DEF StartsWith
    <2>3. CASE given[r]["type"] = <<>>
      BY <1>2, <1>3, <2>2, <2>3
    <2>4. ASSUME NEW k \in {BEGKEY, CONKEY}, given[r]["type"] = <<k>>
          PROVE  StartsWith(r, m) <=> given[r]["type"] = <<m>>
      BY <1>3, <2>2, <2>4
    <2> QED
      BY <1>4, <2>3, <2>4
  <1>7. IsAddOn(r) <=> given[r]["append"] # <<>>
    <2>1. data[r]["append"] = Image(given[r]["append"], 1)
      BY <1>1
    <2> QED
      BY <1>2, <1>3, <1>5, <2>1 DEF IsAddOn
  <1> QED
    BY <1>6, <1>7

(* A record whose key is known is empty when it was given nothing ...      *)
LEMMA EmptinessTold ==
  ASSUME Inv, NEW r \in Objects, given[r]["key"] # Unknown
  PROVE  RecordEmpty(r) <=> NothingGiven(r)
  <1>1. RecordOK(data[r], given[r])
    BY Has
  <1>2. ASSUME NEW f \in Fields
        PROVE  data[r][f] = Filled(Nul, Size[f]) <=> Cut(given[r][f], Size[f]) = <<>>
    <2>1. /\ given[r][f] \in Seq(Characters)
          /\ data[r][f] = Image(given[r][f], Size[f])
      BY <1>1 DEF RecordOK, Holds
    <2> QED
      BY <2>1, FieldFacts, ImageEmpty
  <1>3. data[r] = Blank <=> \A f \in Fields : data[r][f] = Filled(Nul, Size[f])
    <2>1. data[r] = [f \in Fields |-> data[r][f]]
      BY <1>1 DEF RecordOK
    <2> QED
      BY <2>1 DEF Blank
  <1> QED
    BY <1>2, <1>3 DEF RecordEmpty, NothingGiven

(* ... and two are equal when keys and values begin with the same.         *)
LEMMA EqualityTold ==
  ASSUME Inv, NEW r \in Objects, NEW s \in Objects,
         given[r]["key"] # Unknown, given[s]["key"] # Unknown
  PROVE  RecordsEqual(r, s) <=> Same(r, s, "key") /\ Same(r, s, "value")
  <1>1. RecordOK(data[r], given[r]) /\ RecordOK(data[s], given[s])
    BY Has
  <1>2. ASSUME NEW f \in Fields
        PROVE  data[r][f] = data[s][f] <=> Same(r, s, f)
    <2>1. /\ given[r][f] \in Seq(Characters) /\ given[s][f] \in Seq(Characters)
          /\ data[r][f] = Image(given[r][f], Size[f])
          /\ data[s][f] = Image(given[s][f], Size[f])
      BY <1>1 DEF RecordOK, Holds
    <2> QED
      BY <2>1, FieldFacts, ImageTells DEF Same
  <1> QED
    BY <1>2, FieldFacts DEF RecordsEqual, KeysEqual, ValuesEqual

(* Records are compared and classified by what they were last given,       *)
(* whatever they held before (pico_record_deprecated.h:77-86, 128-154,     *)
(* 277-324, 361-383, 457-480).                                             *)
THEOREM RecordsAreAsGiven == Spec => []AsGiven
  <1>1. Inv => AsGiven
    BY MarkersTold, EmptinessTold, EqualityTold DEF AsGiven
  <1> QED
    BY <1>1, AlwaysInv, PTL

-----------------------------------------------------------------------------
(* The files of the collections and the offset they share.                 *)

(* The inductive invariant: the offset is stored by the first record       *)
(* written, by a collection that is open; and as long as no other has      *)
(* written, it is the end of the collection's file.                        *)
FilesType ==
  /\ files \in [Collections -> Seq(Records) \cup {NoFile}]
  /\ offset \in Nat \cup {-1}

OffsetIsEnd ==
  \A c \in Collections :
    (files[c] # NoFile /\ Alone(c) /\ offset # -1) => offset = Len(files[c])

FilesInv ==
  /\ FilesType
  /\ writers \subseteq open
  /\ offset = -1 <=> writers = {}
  /\ OffsetIsEnd

(* A record written at the end of a file comes after what it holds.        *)
LEMMA WrittenAtEnd ==
  ASSUME NEW S, NEW records \in Seq(S), NEW k \in S
  PROVE  /\ IsPrefix(records, Written(records, Len(records), k))
         /\ Len(Written(records, Len(records), k)) = Len(records) + 1
  <1> DEFINE n == Len(records)
             w == Written(records, n, k)
  <1>1. n \in Nat
    OBVIOUS
  <1>2. w = [i \in 1..(n + 1) |-> w[i]]
    BY <1>1 DEF Written
  <1>3. ASSUME NEW i \in 1..n
        PROVE  w[i] = records[i]
    <2>1. i # n + 1 /\ i <= n /\ i \in 1..(n + 1) /\ ~(n < n)
      BY <1>1
    <2> HIDE DEF n
    <2> QED
      BY <2>1 DEF Written, n
  <1>4. w[n + 1] = k
    <2>1. n + 1 \in 1..(n + 1) /\ ~(n < n)
      BY <1>1
    <2> QED
      BY <2>1 DEF Written
  <1>5. \A i \in 1..(n + 1) : w[i] \in S
    <2>1. \A i \in 1..n : records[i] \in S
      OBVIOUS
    <2>2. \A i \in 1..(n + 1) : i \in 1..n \/ i = n + 1
      BY <1>1
    <2> HIDE DEF n, w
    <2> QED
      BY <1>3, <1>4, <2>1, <2>2
  <1> HIDE DEF w
  <1>6. w \in Seq(S) /\ Len(w) = n + 1
    BY <1>1, <1>2, <1>5
  <1>7. SubSeq(records, 1, n) = SubSeq(w, 1, n)
    BY <1>1, <1>3, <1>6
  <1>8. n <= n + 1
    BY <1>1
  <1> QED
    BY <1>6, <1>7, <1>8 DEF w, IsPrefix

(* Wherever a record is written, the file is one of records.               *)
LEMMA WrittenType ==
  ASSUME NEW records \in Seq(Records), NEW pos \in Nat, NEW k \in Keys
  PROVE  Written(records, pos, k) \in Seq(Records)
  <1> DEFINE end == IF pos < Len(records) THEN Len(records) ELSE pos + 1
             w   == Written(records, pos, k)
  <1>1. end \in Nat
    OBVIOUS
  <1>2. ASSUME NEW i \in 1..end
        PROVE  w[i] \in Records
    <2>1. w[i] = CASE i = pos + 1 -> k
                   [] i # pos + 1 /\ i <= Len(records) -> records[i]
                   [] OTHER -> NoKey
      BY <1>2 DEF Written
    <2>2. k \in Records /\ NoKey \in Records
      BY DEF Records
    <2>3. CASE i = pos + 1
      BY <2>1, <2>2, <2>3
    <2>4. CASE i # pos + 1 /\ i <= Len(records)
      <3>1. i \in 1..Len(records)
        BY <2>4
      <3>2. records[i] \in Records
        BY <3>1
      <3>3. w[i] = records[i]
        BY <2>1, <2>4
      <3> QED
        BY <3>2, <3>3
    <2>5. CASE i # pos + 1 /\ ~(i <= Len(records))
      <3>1. w[i] = NoKey
        BY <2>1, <2>5
      <3> QED
        BY <2>2, <3>1
    <2> QED
      BY <2>3, <2>4, <2>5
  <1>3. w = [i \in 1..end |-> w[i]]
    BY DEF Written
  <1> HIDE DEF w, end
  <1>4. w \in [1..end -> Records]
    BY <1>2, <1>3
  <1>5. w \in Seq(Records)
    BY <1>1, <1>4
  <1> QED
    BY <1>5 DEF w

(* Where a collection writes: at the end of its file, if no other has      *)
(* moved the offset.                                                       *)
LEMMA WritesAtEnd ==
  ASSUME FilesInv, NEW c \in Collections, files[c] # NoFile
  PROVE  /\ files[c] \in Seq(Records)
         /\ EndOfFile(files[c]) \in Nat
         /\ Alone(c) => EndOfFile(files[c]) = Len(files[c])
  <1>1. files[c] \in Seq(Records)
    BY DEF FilesInv, FilesType
  <1>2. Len(files[c]) \in Nat /\ offset \in Nat \cup {-1}
    BY <1>1 DEF FilesInv, FilesType
  <1>3. Alone(c) /\ offset # -1 => offset = Len(files[c])
    BY DEF FilesInv, OffsetIsEnd
  <1> QED
    BY <1>1, <1>2, <1>3 DEF EndOfFile, InitialOffset

(* A record written: the offset it leaves is the end of the file again.    *)
LEMMA WriteKeeps ==
  ASSUME FilesInv, NEW c \in Collections, NEW k \in Keys, WriteRecord(c, k)
  PROVE  /\ FilesInv'
         /\ \A d \in Collections : d # c => files'[d] = files[d]
         /\ Alone(c) => /\ IsPrefix(files[c], files'[c])
                        /\ Len(files'[c]) = Len(files[c]) + 1
  <1> DEFINE pos == EndOfFile(files[c])
             new == Written(files[c], pos, k)
  <1>1. files[c] # NoFile /\ files' = [files EXCEPT ![c] = new]
    BY DEF WriteRecord
  <1>2. /\ files[c] \in Seq(Records) /\ pos \in Nat
        /\ Alone(c) => pos = Len(files[c])
    BY <1>1, WritesAtEnd
  <1>3. offset' = pos + 1 /\ writers' = writers \cup {c} /\ open' = open /\ c \in open
    BY DEF WriteRecord, NextOffset
  <1>4. k \in Records
    BY DEF Records
  <1>5. Alone(c) => IsPrefix(files[c], new) /\ Len(new) = Len(files[c]) + 1
    BY <1>2, <1>4, WrittenAtEnd
  <1>6. new \in Seq(Records)
    BY <1>2, WrittenType
  <1>7. files \in [Collections -> Seq(Records) \cup {NoFile}]
    BY DEF FilesInv, FilesType
  <1> HIDE DEF pos, new
  <1>8. /\ files' \in [Collections -> Seq(Records) \cup {NoFile}]
        /\ files'[c] = new
        /\ \A d \in Collections : d # c => files'[d] = files[d]
    BY <1>1, <1>6, <1>7
  <1>9. FilesType'
    BY <1>2, <1>3, <1>8 DEF FilesType
  <1>10. offset' # -1 /\ writers' # {} /\ writers' \subseteq open'
    BY <1>2, <1>3 DEF FilesInv
  <1>11. ASSUME NEW d \in Collections, Alone(d)'
         PROVE  offset' = Len(files'[d])
    <2>1. d = c /\ Alone(c)
      BY <1>3, <1>11 DEF Alone
    <2>2. pos = Len(files[c]) /\ Len(new) = Len(files[c]) + 1
      BY <1>2, <1>5, <2>1
    <2> QED
      BY <1>3, <1>8, <2>1, <2>2
  <1>12. OffsetIsEnd'
    BY <1>11 DEF OffsetIsEnd, Alone
  <1>13. FilesInv'
    BY <1>9, <1>10, <1>12 DEF FilesInv
  <1> QED
    BY <1>5, <1>8, <1>13

(* The steps that write nothing.                                           *)
LEMMA OthersKeep ==
  ASSUME FilesInv,
         \/ \E c \in Collections : OpenFile(c) \/ DropFile(c)
         \/ ForgetFiles
  PROVE  /\ FilesInv'
         /\ \A d \in Collections :
              files[d] # NoFile /\ files'[d] # NoFile => files'[d] = files[d]
  <1>1. files \in [Collections -> Seq(Records) \cup {NoFile}]
    BY DEF FilesInv, FilesType
  <1>2. ASSUME NEW c \in Collections, OpenFile(c)
        PROVE  /\ FilesInv'
               /\ \A d \in Collections : files[d] # NoFile => files'[d] = files[d]
    <2>1. /\ <<>> \in Seq(Records)
          /\ files' = [files EXCEPT ![c] = IF @ = NoFile THEN <<>> ELSE @]
          /\ offset' = offset /\ writers' = writers
          /\ open' = open \cup {c} /\ c \notin open
      BY <1>2 DEF OpenFile
    <2>2. files' \in [Collections -> Seq(Records) \cup {NoFile}]
      BY <1>1, <2>1
    <2>3. /\ \A d \in Collections : d # c => files'[d] = files[d]
          /\ files[c] # NoFile => files'[c] = files[c]
      BY <1>1, <2>1
    <2>4. FilesType'
      BY <2>1, <2>2 DEF FilesInv, FilesType
    <2>5. ~(Alone(c) /\ offset # -1)
      BY <2>1 DEF FilesInv, Alone
    <2>6. OffsetIsEnd'
      BY <2>1, <2>3, <2>5 DEF FilesInv, OffsetIsEnd, Alone
    <2> QED
      BY <2>1, <2>3, <2>4, <2>6 DEF FilesInv
  <1>3. ASSUME NEW c \in Collections, DropFile(c)
        PROVE  /\ FilesInv'
               /\ \A d \in Collections : files'[d] # NoFile => files'[d] = files[d]
    <2>1. /\ files' = [files EXCEPT ![c] = NoFile]
          /\ offset' = offset /\ writers' = writers /\ open' = open
      BY <1>3 DEF DropFile
    <2>2. /\ files' \in [Collections -> Seq(Records) \cup {NoFile}]
          /\ files'[c] = NoFile
          /\ \A d \in Collections : d # c => files'[d] = files[d]
      BY <1>1, <2>1
    <2>3. FilesType'
      BY <2>1, <2>2 DEF FilesInv, FilesType
    <2>4. OffsetIsEnd'
      BY <2>1, <2>2 DEF FilesInv, OffsetIsEnd, Alone
    <2> QED
      BY <2>1, <2>2, <2>3, <2>4 DEF FilesInv
  <1>4. ASSUME ForgetFiles
        PROVE  FilesInv' /\ files' = files
    BY <1>4 DEF ForgetFiles, FilesInv, FilesType, OffsetIsEnd
  <1> QED
    BY <1>2, <1>3, <1>4

(* No file exists at first ...                                             *)
LEMMA FilesInvInit == FilesInit => FilesInv
  BY DEF FilesInit, FilesInv, FilesType, OffsetIsEnd

(* ... and every step keeps the invariant.                                 *)
LEMMA FilesInvInductive == FilesInv /\ [FilesNext]_fileVars => FilesInv'
  <1> SUFFICES ASSUME FilesInv, [FilesNext]_fileVars PROVE FilesInv'
    OBVIOUS
  <1>1. CASE FilesNext
    BY <1>1, WriteKeeps, OthersKeep DEF FilesNext
  <1>2. CASE UNCHANGED fileVars
    BY <1>2 DEF fileVars, FilesInv, FilesType, OffsetIsEnd, Alone
  <1> QED
    BY <1>1, <1>2

(* It always holds.                                                        *)
THEOREM AlwaysFilesInv == FilesSpec => []FilesInv
  BY FilesInvInit, FilesInvInductive, PTL DEF FilesSpec

(* A file is a prefix of itself.                                           *)
LEMMA PrefixOfItself ==
  ASSUME NEW s \in Seq(Records)
  PROVE  IsPrefix(s, s) /\ Len(s) <= Len(s) + 1
  BY DEF IsPrefix

(* What a file holds stays and records come after it, as long as no other  *)
(* collection has moved the offset they share; for any collections, keys   *)
(* and sizes of files, with drops and restarts (pico_collection.h:430,     *)
(* OffsetManager.h).                                                       *)
THEOREM FilesAppend == FilesSpec => AppendsAtEnd
  <1> DEFINE Step ==
        \A c \in Collections :
          (files[c] # NoFile /\ files'[c] # NoFile /\ Alone(c)) =>
             /\ IsPrefix(files[c], files'[c])
             /\ Len(files'[c]) <= Len(files[c]) + 1
  <1>1. FilesInv /\ [FilesNext]_fileVars => [Step]_fileVars
    <2> SUFFICES ASSUME FilesInv, FilesNext,
                        NEW c \in Collections,
                        files[c] # NoFile, files'[c] # NoFile, Alone(c)
                 PROVE  /\ IsPrefix(files[c], files'[c])
                        /\ Len(files'[c]) <= Len(files[c]) + 1
      OBVIOUS
    <2>1. files[c] \in Seq(Records)
      BY WritesAtEnd
    <2>2. CASE files'[c] = files[c]
      BY <2>1, <2>2, PrefixOfItself
    <2>3. ASSUME NEW d \in Collections, NEW k \in Keys, WriteRecord(d, k)
          PROVE  /\ IsPrefix(files[c], files'[c])
                 /\ Len(files'[c]) <= Len(files[c]) + 1
      <3>1. CASE d = c
        <4>1. /\ IsPrefix(files[c], files'[c])
              /\ Len(files'[c]) = Len(files[c]) + 1
          BY <2>3, <3>1, WriteKeeps
        <4> QED
          BY <2>1, <4>1
      <3>2. CASE d # c
        BY <2>2, <2>3, <3>2, WriteKeeps
      <3> QED
        BY <3>1, <3>2
    <2> QED
      BY <2>2, <2>3, OthersKeep DEF FilesNext
  <1> QED
    BY <1>1, AlwaysFilesInv, PTL DEF FilesSpec, AppendsAtEnd

-----------------------------------------------------------------------------
(* The index is a binary search tree: the nodes below a node are below all *)
(* that it is below, on the same side; of two nodes one is below the other *)
(* or a third has them on its two sides; and the keys are in order, copies *)
(* of a key to its right.                                                  *)
NodesOK(t) ==
  /\ DOMAIN t \subseteq Int /\ IsFiniteSet(DOMAIN t)
  /\ t \in [DOMAIN t -> [key : Int, lefts : SUBSET DOMAIN t,
                         rights : SUBSET DOMAIN t, origin : Int]]

Nested(t) ==
  \A a \in DOMAIN t :
    /\ a \notin Below(a, t)
    /\ t[a].lefts \cap t[a].rights = {}
    /\ \A b \in t[a].lefts : Below(b, t) \subseteq t[a].lefts
    /\ \A b \in t[a].rights : Below(b, t) \subseteq t[a].rights

Parted(a, b, c, t) ==
  \/ a \in t[c].lefts /\ b \in t[c].rights
  \/ a \in t[c].rights /\ b \in t[c].lefts

Joined(t) ==
  \A a, b \in DOMAIN t :
    \/ a = b \/ a \in Below(b, t) \/ b \in Below(a, t)
    \/ \E c \in DOMAIN t : Parted(a, b, c, t)

Ordered(t) ==
  \A a \in DOMAIN t :
    /\ \A b \in t[a].lefts : t[b].key < t[a].key
    /\ \A b \in t[a].rights : t[a].key <= t[b].key

TreeOK(t) == NodesOK(t) /\ Nested(t) /\ Joined(t) /\ Ordered(t)

(* Of a set with a measure in the naturals, one is least.                  *)
LEMMA LeastBy ==
  ASSUME NEW S, S # {}, NEW f \in [S -> Nat]
  PROVE  \E n \in S : \A m \in S : f[n] <= f[m]
  <1> DEFINE T == {f[n] : n \in S}
  <1>1. T \subseteq Nat /\ T # {}
    OBVIOUS
  <1>2. PICK k \in T : \A i \in T : k <= i
    <2> HIDE DEF T
    <2> QED
      BY <1>1, LeastElement
  <1>3. PICK n \in S : k = f[n]
    OBVIOUS
  <1> QED
    BY <1>2, <1>3

(* A part of a finite set without one of its elements is smaller.          *)
LEMMA Smaller ==
  ASSUME NEW S, IsFiniteSet(S), NEW T \in SUBSET S, NEW x \in S, x \notin T
  PROVE  Cardinality(T) \in Nat /\ Cardinality(S) \in Nat /\ Cardinality(T) < Cardinality(S)
  <1>1. IsFiniteSet(T) /\ Cardinality(T) <= Cardinality(S)
    BY FS_Subset
  <1>2. Cardinality(T) \in Nat /\ Cardinality(S) \in Nat
    BY <1>1, FS_CardinalityType
  <1>3. Cardinality(T) # Cardinality(S)
    BY FS_Subset
  <1> QED
    BY <1>1, <1>2, <1>3

(* Among some nodes there is one that is below no other of them.           *)
LEMMA Topmost ==
  ASSUME NEW t, NodesOK(t), Nested(t), NEW S \in SUBSET DOMAIN t, S # {}
  PROVE  \E n \in S : \A a \in S : n \notin Below(a, t)
  <1> DEFINE Above(n) == {a \in DOMAIN t : n \in Below(a, t)}
             f == [n \in S |-> Cardinality(Above(n))]
  <1>1. ASSUME NEW n \in S
        PROVE  IsFiniteSet(Above(n)) /\ Cardinality(Above(n)) \in Nat
    BY FS_Subset, FS_CardinalityType DEF NodesOK
  <1>2. f \in [S -> Nat]
    BY <1>1
  <1>3. PICK n \in S : \A m \in S : f[n] <= f[m]
    <2> HIDE DEF f
    <2> QED
      BY <1>2, LeastBy
  <1>4. ASSUME NEW a \in S, n \in Below(a, t)
        PROVE  FALSE
    <2>1. Above(a) \subseteq Above(n)
      BY <1>4 DEF Nested, Below
    <2>2. a \in Above(n) /\ a \notin Above(a)
      BY <1>4 DEF Nested
    <2>3. Cardinality(Above(a)) < Cardinality(Above(n))
      <3> HIDE DEF Above
      <3> QED
        BY <1>1, <2>1, <2>2, Smaller
    <2>4. f[n] <= f[a] /\ f[a] = Cardinality(Above(a)) /\ f[n] = Cardinality(Above(n))
      BY <1>3
    <2> HIDE DEF Above, f
    <2> QED
      BY <1>1, <2>3, <2>4
  <1> QED
    BY <1>4

(* The descent finds a key that is there.                                  *)
LEMMA SearchInFinds ==
  ASSUME NEW t, TreeOK(t), NEW S \in SUBSET DOMAIN t, NEW key \in Int,
         \E n \in S : t[n].key = key
  PROVE  SearchIn(key, S, t) # {}
  <1> DEFINE C == {n \in S : t[n].key = key}
  <1>1. C # {} /\ C \in SUBSET DOMAIN t
    OBVIOUS
  <1>2. PICK n \in C : \A a \in C : n \notin Below(a, t)
    <2> HIDE DEF C
    <2> QED
      BY <1>1, Topmost DEF TreeOK
  <1>3. n \in S /\ t[n].key = key
    OBVIOUS
  <1>4. ASSUME NEW a \in S, n \in Below(a, t)
        PROVE  t[a].key # key /\ (n \in t[a].lefts <=> key < t[a].key)
    <2>1. t[a].key # key
      BY <1>2, <1>4
    <2>2. t[a].key \in Int /\ a \in DOMAIN t
      BY DEF TreeOK, NodesOK
    <2>3. n \in t[a].lefts => key < t[a].key
      BY <1>3, <2>2 DEF TreeOK, Ordered
    <2>4. n \in t[a].rights => t[a].key <= key
      BY <1>3, <2>2 DEF TreeOK, Ordered
    <2> QED
      BY <1>4, <2>1, <2>2, <2>3, <2>4 DEF Below
  <1> QED
    BY <1>3, <1>4 DEF SearchIn, OnWay

(* Two nodes of a right subtree are parted inside it.                      *)
LEMMA PartedInside ==
  ASSUME NEW t, TreeOK(t), NEW x \in DOMAIN t, NEW a \in t[x].rights, NEW b \in t[x].rights,
         NEW c \in DOMAIN t, Parted(a, b, c, t)
  PROVE  c \in t[x].rights
  <1>1. /\ t[c].lefts \subseteq DOMAIN t /\ t[x].lefts \subseteq DOMAIN t
        /\ t[c].rights \subseteq DOMAIN t /\ t[x].rights \subseteq DOMAIN t
    BY DEF TreeOK, NodesOK
  <1>2. t[c].lefts \cap t[c].rights = {} /\ t[x].lefts \cap t[x].rights = {}
    BY DEF TreeOK, Nested
  <1>3. c # x
    BY <1>2 DEF Parted
  <1>4. a \in Below(c, t) /\ b \in Below(c, t)
    BY DEF Parted, Below
  <1>5. CASE c \in Below(x, t)
    <2>1. c \notin t[x].lefts
      BY <1>2, <1>4 DEF TreeOK, Nested
    <2> QED
      BY <1>5, <2>1 DEF Below
  <1>6. CASE x \in Below(c, t)
    <2>1. a \in Below(x, t) /\ b \in Below(x, t)
      BY DEF Below
    <2>2. x \in t[c].lefts => a \in t[c].lefts /\ b \in t[c].lefts
      BY <2>1 DEF TreeOK, Nested
    <2>3. x \in t[c].rights => a \in t[c].rights /\ b \in t[c].rights
      BY <2>1 DEF TreeOK, Nested
    <2> QED
      BY <1>2, <1>6, <2>2, <2>3 DEF Parted, Below
  <1>7. ASSUME NEW d \in DOMAIN t, Parted(x, c, d, t)
        PROVE  FALSE
    <2>1. a \in Below(x, t)
      BY DEF Below
    <2>2. t[d].lefts \cap t[d].rights = {}
      BY DEF TreeOK, Nested
    <2> QED
      BY <1>4, <1>7, <2>1, <2>2 DEF Parted, TreeOK, Nested
  <1> QED
    BY <1>3, <1>5, <1>6, <1>7 DEF TreeOK, Joined

(* The node at the end of the pointers to the left in a subtree.           *)
Leftmost(m, S, t) ==
  /\ t[m].lefts = {}
  /\ \A a \in S : m \in Below(a, t) => m \in t[a].lefts

(* In a right subtree there is one ...                                     *)
LEMMA LeftmostExists ==
  ASSUME NEW t, TreeOK(t), NEW x \in DOMAIN t, t[x].rights # {}
  PROVE  \E m \in t[x].rights : Leftmost(m, t[x].rights, t)
  <1> DEFINE S == t[x].rights
             Less(n) == {m \in S : t[m].key < t[n].key}
             f == [n \in S |-> Cardinality(Less(n))]
  <1>1. S \in SUBSET DOMAIN t /\ IsFiniteSet(S)
    BY FS_Subset DEF TreeOK, NodesOK
  <1>2. ASSUME NEW n \in S
        PROVE  /\ IsFiniteSet(Less(n)) /\ Cardinality(Less(n)) \in Nat
               /\ t[n].key \in Int /\ t[n].lefts \subseteq S
    <2>1. IsFiniteSet(Less(n)) /\ Cardinality(Less(n)) \in Nat
      BY <1>1, FS_Subset, FS_CardinalityType
    <2>2. t[n].key \in Int
      BY <1>1 DEF TreeOK, NodesOK
    <2>3. t[n].lefts \subseteq S
      BY DEF TreeOK, Nested, Below
    <2> QED
      BY <2>1, <2>2, <2>3
  <1>3. PICK n \in S : \A m \in S : f[n] <= f[m]
    <2>1. f \in [S -> Nat]
      BY <1>2
    <2> HIDE DEF f
    <2> QED
      BY <2>1, LeastBy
  <1>4. ASSUME NEW m \in S
        PROVE  t[n].key <= t[m].key
    <2>0. \A q \in S : t[q].key \in Int
      BY <1>2
    <2> SUFFICES ASSUME t[m].key < t[n].key PROVE FALSE
      BY <2>0
    <2>1. Less(m) \subseteq Less(n) /\ m \in Less(n) /\ m \notin Less(m)
      <3> HIDE DEF f, S
      <3> QED
        BY <2>0
    <2>2. Cardinality(Less(m)) < Cardinality(Less(n))
      <3> HIDE DEF Less
      <3> QED
        BY <1>2, <2>1, Smaller
    <2>3. f[n] <= f[m] /\ f[m] = Cardinality(Less(m)) /\ f[n] = Cardinality(Less(n))
      BY <1>3
    <2> HIDE DEF Less, f
    <2> QED
      BY <1>2, <2>2, <2>3
  <1> DEFINE C == {m \in S : t[m].key = t[n].key}
  <1>5. PICK m \in C : \A a \in C : m \notin Below(a, t)
    <2>1. C \in SUBSET DOMAIN t /\ C # {}
      BY <1>1
    <2> HIDE DEF C
    <2> QED
      BY <2>1, Topmost DEF TreeOK
  <1> HIDE DEF f, Less
  <1>6. m \in S /\ t[m].key = t[n].key
    OBVIOUS
  <1>7. t[m].lefts = {}
    <2> SUFFICES ASSUME NEW b \in t[m].lefts PROVE FALSE
      OBVIOUS
    <2>1. b \in S /\ t[b].key < t[m].key
      BY <1>1, <1>2, <1>6 DEF TreeOK, Ordered
    <2> QED
      BY <1>2, <1>4, <1>6, <2>1
  <1>8. ASSUME NEW a \in S, m \in Below(a, t)
        PROVE  m \in t[a].lefts
    <2> SUFFICES ASSUME m \in t[a].rights PROVE FALSE
      BY <1>8 DEF Below
    <2>1. t[a].key <= t[m].key
      BY <1>1 DEF TreeOK, Ordered
    <2>2. a \in C
      BY <1>2, <1>4, <1>6, <2>1
    <2> QED
      BY <1>5, <1>8, <2>2
  <1> QED
    BY <1>6, <1>7, <1>8 DEF Leftmost

(* ... and its key is the least one there.                                 *)
LEMMA LeftmostLeast ==
  ASSUME NEW t, TreeOK(t), NEW x \in DOMAIN t, NEW m \in t[x].rights,
         Leftmost(m, t[x].rights, t), NEW b \in t[x].rights
  PROVE  t[m].key <= t[b].key
  <1>1. m \in DOMAIN t /\ b \in DOMAIN t /\ t[x].rights \subseteq DOMAIN t
    BY DEF TreeOK, NodesOK
  <1>2. /\ t[m].key \in Int /\ t[b].key \in Int
    BY <1>1 DEF TreeOK, NodesOK
  <1>3. CASE b \in Below(m, t)
    <2>1. b \in t[m].rights
      BY <1>3 DEF Below, Leftmost
    <2> QED
      BY <1>1, <2>1 DEF TreeOK, Ordered
  <1>4. CASE m \in Below(b, t)
    <2>1. m \in t[b].lefts
      BY <1>4 DEF Leftmost
    <2>2. t[m].key < t[b].key
      BY <1>1, <2>1 DEF TreeOK, Ordered
    <2> QED
      BY <1>2, <2>2
  <1>5. ASSUME NEW c \in DOMAIN t, Parted(m, b, c, t)
        PROVE  t[m].key <= t[b].key
    <2>1. c \in t[x].rights
      BY <1>5, PartedInside
    <2>2. m \in Below(c, t) /\ t[c].lefts \cap t[c].rights = {}
      BY <1>5 DEF Parted, Below, TreeOK, Nested
    <2>3. m \in t[c].lefts /\ b \in t[c].rights
      BY <1>5, <2>1, <2>2 DEF Leftmost, Parted
    <2>4. t[m].key < t[c].key /\ t[c].key <= t[b].key /\ t[c].key \in Int
      BY <2>3 DEF TreeOK, Ordered, NodesOK
    <2> QED
      BY <1>2, <2>4
  <1>6. CASE b = m
    BY <1>2, <1>6
  <1> QED
    BY <1>1, <1>3, <1>4, <1>5, <1>6 DEF TreeOK, Joined

(* What the deletion of a node with two subtrees takes from the right one: *)
(* the least key, and the node found for it, which has no left subtree.    *)
LEMMA LeastTaken ==
  ASSUME NEW t, TreeOK(t), NEW x \in DOMAIN t, t[x].rights # {},
         NEW least, least = MinKey(t[x].rights, t)
  PROVE  /\ least \in Int
         /\ \A b \in t[x].rights : least <= t[b].key
         /\ SearchIn(least, t[x].rights, t) # {}
         /\ \A m \in SearchIn(least, t[x].rights, t) :
              m \in t[x].rights /\ t[m].key = least /\ t[m].lefts = {}
  <1> DEFINE S == t[x].rights
             m == CHOOSE m \in S : /\ t[m].lefts = {}
                                   /\ \A a \in S : m \in Below(a, t) => m \in t[a].lefts
  <1>1. m \in S /\ Leftmost(m, S, t)
    BY LeftmostExists DEF Leftmost
  <1>2. least = t[m].key
    BY DEF MinKey
  <1> HIDE DEF m
  <1>3. S \in SUBSET DOMAIN t
    BY DEF TreeOK, NodesOK
  <1>4. least \in Int
    BY <1>1, <1>2, <1>3 DEF TreeOK, NodesOK
  <1>5. \A b \in S : least <= t[b].key
    BY <1>1, <1>2, LeftmostLeast
  <1>6. SearchIn(least, S, t) # {}
    BY <1>1, <1>2, <1>3, <1>4, SearchInFinds
  <1>7. ASSUME NEW n \in SearchIn(least, S, t)
        PROVE  n \in S /\ t[n].key = least /\ t[n].lefts = {}
    <2>1. n \in S /\ t[n].key = least
      BY DEF SearchIn
    <2>2. ASSUME NEW b \in t[n].lefts
          PROVE  FALSE
      <3>1. b \in S
        BY <2>1 DEF TreeOK, Nested, Below
      <3>2. t[b].key < least /\ least <= t[b].key /\ t[b].key \in Int
        BY <1>3, <1>5, <2>1, <3>1 DEF TreeOK, Ordered, NodesOK
      <3> QED
        BY <1>4, <3>2
    <2> QED
      BY <2>1, <2>2
  <1> QED
    BY <1>4, <1>5, <1>6, <1>7

-----------------------------------------------------------------------------
(* Deletion.                                                               *)

(* A node with one subtree at most leaves a search tree.                   *)
LEMMA WithoutOK ==
  ASSUME NEW t, TreeOK(t), NEW n \in DOMAIN t, t[n].lefts = {} \/ t[n].rights = {}
  PROVE  TreeOK(Without(n, t))
  <1> DEFINE u == Without(n, t)
             D == DOMAIN t \ {n}
  <1>1. /\ DOMAIN t \subseteq Int /\ IsFiniteSet(DOMAIN t)
        /\ t \in [DOMAIN t -> [key : Int, lefts : SUBSET DOMAIN t,
                               rights : SUBSET DOMAIN t, origin : Int]]
    BY DEF TreeOK, NodesOK
  <1>2. DOMAIN u = D
    BY DEF Without
  <1>3. ASSUME NEW m \in D
        PROVE  /\ u[m].key = t[m].key
               /\ u[m].origin = t[m].origin
               /\ u[m].lefts = t[m].lefts \ {n}
               /\ u[m].rights = t[m].rights \ {n}
               /\ u[m] \in [key : Int, lefts : SUBSET D, rights : SUBSET D, origin : Int]
    <2>1. /\ t[m] \in [key : Int, lefts : SUBSET DOMAIN t,
                       rights : SUBSET DOMAIN t, origin : Int]
          /\ u[m] = [t[m] EXCEPT !.lefts = @ \ {n}, !.rights = @ \ {n}]
      BY <1>1 DEF Without
    <2> HIDE DEF u
    <2> QED
      BY <2>1
  <1>4. u = [m \in D |-> u[m]]
    BY <1>2 DEF Without
  <1> HIDE DEF u
  <1>5. NodesOK(u)
    <2>1. IsFiniteSet(D)
      BY <1>1, FS_RemoveElement
    <2> QED
      BY <1>1, <1>2, <1>3, <1>4, <2>1 DEF NodesOK
  <1>6. \A m \in D : Below(m, u) = Below(m, t) \ {n}
    BY <1>3 DEF Below
  <1>7. Nested(u)
    <2> SUFFICES ASSUME NEW a \in D
                 PROVE  /\ a \notin Below(a, u)
                        /\ u[a].lefts \cap u[a].rights = {}
                        /\ \A b \in u[a].lefts : Below(b, u) \subseteq u[a].lefts
                        /\ \A b \in u[a].rights : Below(b, u) \subseteq u[a].rights
      BY <1>2 DEF Nested
    <2>1. /\ a \notin Below(a, t)
          /\ t[a].lefts \cap t[a].rights = {}
          /\ \A b \in t[a].lefts : Below(b, t) \subseteq t[a].lefts
          /\ \A b \in t[a].rights : Below(b, t) \subseteq t[a].rights
      BY DEF TreeOK, Nested
    <2>2. u[a].lefts \subseteq D /\ u[a].rights \subseteq D
      BY <1>3
    <2> QED
      BY <1>3, <1>6, <2>1, <2>2
  <1>8. Joined(u)
    <2> SUFFICES ASSUME NEW a \in D, NEW b \in D,
                        a # b, a \notin Below(b, u), b \notin Below(a, u)
                 PROVE  \E c \in D : Parted(a, b, c, u)
      BY <1>2 DEF Joined
    <2>1. a \notin Below(b, t) /\ b \notin Below(a, t)
      BY <1>6
    <2>2. PICK c \in DOMAIN t : Parted(a, b, c, t)
      BY <2>1 DEF TreeOK, Joined
    <2>3. c # n
      BY <2>2 DEF Parted
    <2> QED
      BY <1>3, <2>2, <2>3 DEF Parted
  <1>9. Ordered(u)
    BY <1>2, <1>3 DEF TreeOK, Ordered
  <1> QED
    BY <1>5, <1>7, <1>8, <1>9 DEF TreeOK, u

(* So does one whose key becomes the least of its right subtree.           *)
LEMMA RekeyedOK ==
  ASSUME NEW t, TreeOK(t), NEW n \in DOMAIN t, NEW least \in Int,
         \A b \in t[n].rights : least <= t[b].key,
         NEW m \in t[n].rights, t[m].key = least
  PROVE  /\ TreeOK([t EXCEPT ![n].key = least])
         /\ DOMAIN [t EXCEPT ![n].key = least] = DOMAIN t
         /\ [t EXCEPT ![n].key = least][m] = t[m]
         /\ \A a \in DOMAIN t :
              [t EXCEPT ![n].key = least][a].key = IF a = n THEN least ELSE t[a].key
         /\ \A a \in DOMAIN t : [t EXCEPT ![n].key = least][a].origin = t[a].origin
  <1> DEFINE u == [t EXCEPT ![n].key = least]
             D == DOMAIN t
             R == [key : Int, lefts : SUBSET D, rights : SUBSET D, origin : Int]
  <1>1. D \subseteq Int /\ IsFiniteSet(D) /\ t \in [D -> R]
    BY DEF TreeOK, NodesOK
  <1>2. DOMAIN u = D
    OBVIOUS
  <1>3. ASSUME NEW a \in D
        PROVE  /\ u[a].key = IF a = n THEN least ELSE t[a].key
               /\ u[a].origin = t[a].origin
               /\ u[a].lefts = t[a].lefts
               /\ u[a].rights = t[a].rights
               /\ u[a] \in R
    <2>1. t[a] \in R /\ u[a] = IF a = n THEN [t[a] EXCEPT !.key = least] ELSE t[a]
      BY <1>1
    <2> HIDE DEF u, D
    <2> QED
      BY <2>1
  <1>4. u = [a \in D |-> u[a]]
    BY <1>2
  <1>5. m \in D /\ m # n /\ u[m] = t[m]
    <2>1. m \in D
      BY <1>1
    <2>2. m # n
      BY DEF TreeOK, Nested, Below
    <2> QED
      BY <2>1, <2>2
  <1> HIDE DEF u
  <1>6. NodesOK(u)
    BY <1>1, <1>2, <1>3, <1>4 DEF NodesOK
  <1>7. \A a \in D : Below(a, u) = Below(a, t)
    BY <1>3 DEF Below
  <1>8. \A a \in D : t[a].lefts \subseteq D /\ t[a].rights \subseteq D /\ t[a].key \in Int
    BY <1>1
  <1>9. Nested(u)
    <2> SUFFICES ASSUME NEW a \in D
                 PROVE  /\ a \notin Below(a, u)
                        /\ u[a].lefts \cap u[a].rights = {}
                        /\ \A b \in u[a].lefts : Below(b, u) \subseteq u[a].lefts
                        /\ \A b \in u[a].rights : Below(b, u) \subseteq u[a].rights
      BY <1>2 DEF Nested
    <2>1. /\ a \notin Below(a, t)
          /\ t[a].lefts \cap t[a].rights = {}
          /\ \A b \in t[a].lefts : Below(b, t) \subseteq t[a].lefts
          /\ \A b \in t[a].rights : Below(b, t) \subseteq t[a].rights
      BY DEF TreeOK, Nested
    <2> HIDE DEF D
    <2> QED
      BY <1>3, <1>7, <1>8, <2>1
  <1>10. Joined(u)
    <2>1. \A a, b, c \in D : Parted(a, b, c, t) => Parted(a, b, c, u)
      BY <1>3 DEF Parted
    <2> QED
      BY <1>2, <1>7, <2>1 DEF TreeOK, Joined
  <1>11. Ordered(u)
    <2> SUFFICES ASSUME NEW a \in D
                 PROVE  /\ \A b \in t[a].lefts : u[b].key < u[a].key
                        /\ \A b \in t[a].rights : u[a].key <= u[b].key
      BY <1>2, <1>3 DEF Ordered
    <2>1. /\ \A b \in t[a].lefts : t[b].key < t[a].key
          /\ \A b \in t[a].rights : t[a].key <= t[b].key
      BY DEF TreeOK, Ordered
    <2>2. t[n].key <= least /\ \A b \in t[n].lefts : t[b].key < t[n].key
      BY DEF TreeOK, Ordered
    <2>3. /\ n \in t[a].lefts => m \in t[a].lefts
          /\ n \in t[a].rights => m \in t[a].rights
      BY DEF TreeOK, Nested, Below
    <2>4. n \notin t[n].lefts /\ n \notin t[n].rights
      BY DEF TreeOK, Nested, Below
    <2>5. CASE a = n
      <3>1. \A b \in t[n].lefts : t[b].key < least
        BY <1>8, <2>2
      <3> QED
        BY <1>3, <1>8, <2>4, <2>5, <3>1
    <2>6. CASE a # n
      BY <1>3, <1>8, <2>1, <2>3, <2>6
    <2> QED
      BY <2>5, <2>6
  <1> QED
    BY <1>2, <1>3, <1>5, <1>6, <1>9, <1>10, <1>11 DEF TreeOK, u

-----------------------------------------------------------------------------
(* The copies of a key.                                                    *)

(* The nodes of a key.                                                     *)
At(key, t) == {n \in DOMAIN t : t[n].key = key}

LEMMA CopiesAt ==
  ASSUME NEW t, NodesOK(t), NEW key
  PROVE  /\ At(key, t) \subseteq DOMAIN t
         /\ IsFiniteSet(At(key, t))
         /\ CopiesOf(key, t) = Cardinality(At(key, t))
         /\ CopiesOf(key, t) \in Nat
         /\ CopiesOf(key, t) = 0 <=> At(key, t) = {}
  <1>1. At(key, t) \subseteq DOMAIN t
    BY DEF At
  <1>2. IsFiniteSet(At(key, t))
    BY <1>1, FS_Subset DEF NodesOK
  <1> QED
    BY <1>1, <1>2, FS_CardinalityType, FS_EmptySet DEF CopiesOf, At

(* The search finds every key the tree holds, and nothing else.            *)
LEMMA SearchIsRight ==
  ASSUME NEW t, TreeOK(t), NEW key \in Int
  PROVE  Search(key, t) # {} <=> CopiesOf(key, t) > 0
  <1>1. Search(key, t) \subseteq At(key, t)
    BY DEF Search, SearchIn, At
  <1>2. At(key, t) # {} => Search(key, t) # {}
    BY SearchInFinds DEF Search, At
  <1>3. CopiesOf(key, t) \in Nat /\ (CopiesOf(key, t) = 0 <=> At(key, t) = {})
    BY CopiesAt DEF TreeOK
  <1> QED
    BY <1>1, <1>2, <1>3

(* What the deletion of a node does to the tree and to the copies of keys. *)
LEMMA WithoutCopies ==
  ASSUME NEW t, TreeOK(t), NEW n \in DOMAIN t, t[n].lefts = {} \/ t[n].rights = {}
  PROVE  /\ TreeOK(Without(n, t))
         /\ DOMAIN Without(n, t) = DOMAIN t \ {n}
         /\ \A m \in DOMAIN t \ {n} : Without(n, t)[m].origin = t[m].origin
         /\ \A j : At(j, Without(n, t)) = At(j, t) \ {n}
  <1>1. DOMAIN Without(n, t) = DOMAIN t \ {n}
    BY DEF Without
  <1>2. ASSUME NEW m \in DOMAIN t \ {n}
        PROVE  Without(n, t)[m].key = t[m].key /\ Without(n, t)[m].origin = t[m].origin
    <2>1. /\ t[m] \in [key : Int, lefts : SUBSET DOMAIN t,
                       rights : SUBSET DOMAIN t, origin : Int]
          /\ Without(n, t)[m] = [t[m] EXCEPT !.lefts = @ \ {n}, !.rights = @ \ {n}]
      BY DEF Without, TreeOK, NodesOK
    <2> QED
      BY <2>1
  <1>3. \A j : At(j, Without(n, t)) = At(j, t) \ {n}
    BY <1>1, <1>2 DEF At
  <1> QED
    BY <1>1, <1>2, <1>3, WithoutOK

LEMMA DeletedTakesOne ==
  ASSUME NEW t, TreeOK(t), NEW n \in DOMAIN t, NEW k, t[n].key = k
  PROVE  /\ TreeOK(Deleted(n, t))
         /\ DOMAIN Deleted(n, t) \subseteq DOMAIN t
         /\ \A m \in DOMAIN Deleted(n, t) : Deleted(n, t)[m].origin = t[m].origin
         /\ CopiesOf(k, Deleted(n, t)) = CopiesOf(k, t) - 1
         /\ \A j : j # k => CopiesOf(j, Deleted(n, t)) = CopiesOf(j, t)
  <1>1. CASE t[n].lefts = {} \/ t[n].rights = {}
    <2> DEFINE u == Without(n, t)
    <2>1. Deleted(n, t) = u
      BY <1>1 DEF Deleted
    <2>2. /\ TreeOK(u) /\ DOMAIN u = DOMAIN t \ {n}
          /\ \A m \in DOMAIN t \ {n} : u[m].origin = t[m].origin
          /\ \A j : At(j, u) = At(j, t) \ {n}
      BY <1>1, WithoutCopies
    <2> HIDE DEF u
    <2>3. NodesOK(t) /\ NodesOK(u)
      BY <2>2 DEF TreeOK
    <2>4. n \in At(k, t) /\ \A j : j # k => n \notin At(j, t)
      BY DEF At
    <2>5. CopiesOf(k, u) = CopiesOf(k, t) - 1
      <3>1. IsFiniteSet(At(k, t)) /\ CopiesOf(k, t) = Cardinality(At(k, t))
            /\ CopiesOf(k, u) = Cardinality(At(k, u))
        BY <2>3, CopiesAt
      <3> QED
        BY <2>2, <2>4, <3>1, FS_RemoveElement
    <2>6. ASSUME NEW j, j # k
          PROVE  CopiesOf(j, u) = CopiesOf(j, t)
      <3>1. At(j, u) = At(j, t)
        BY <2>2, <2>4, <2>6
      <3> QED
        BY <2>3, <3>1, CopiesAt
    <2> QED
      BY <2>1, <2>2, <2>5, <2>6
  <1>2. CASE t[n].lefts # {} /\ t[n].rights # {}
    <2> DEFINE least == MinKey(t[n].rights, t)
               m == CHOOSE m \in SearchIn(least, t[n].rights, t) : TRUE
               u == [t EXCEPT ![n].key = least]
               w == Without(m, u)
    <2>1. Deleted(n, t) = w
      BY <1>2 DEF Deleted
    <2>2. /\ least \in Int
          /\ \A b \in t[n].rights : least <= t[b].key
          /\ m \in t[n].rights /\ t[m].key = least /\ t[m].lefts = {}
      <3>1. /\ least \in Int
            /\ \A b \in t[n].rights : least <= t[b].key
            /\ SearchIn(least, t[n].rights, t) # {}
            /\ \A q \in SearchIn(least, t[n].rights, t) :
                 q \in t[n].rights /\ t[q].key = least /\ t[q].lefts = {}
        BY <1>2, LeastTaken
      <3>2. m \in SearchIn(least, t[n].rights, t)
        BY <3>1
      <3> QED
        BY <3>1, <3>2
    <2> HIDE DEF least, m
    <2>3. /\ TreeOK(u) /\ DOMAIN u = DOMAIN t /\ u[m] = t[m]
          /\ \A a \in DOMAIN t : u[a].key = IF a = n THEN least ELSE t[a].key
          /\ \A a \in DOMAIN t : u[a].origin = t[a].origin
      BY <2>2, RekeyedOK
    <2>4. m \in DOMAIN t /\ m # n
      BY <2>2 DEF TreeOK, NodesOK, Nested, Below
    <2> HIDE DEF u
    <2>5. /\ TreeOK(w) /\ DOMAIN w = DOMAIN t \ {m}
          /\ \A a \in DOMAIN t \ {m} : w[a].origin = u[a].origin
          /\ \A j : At(j, w) = At(j, u) \ {m}
      <3>1. m \in DOMAIN u /\ u[m].lefts = {}
        BY <2>2, <2>3, <2>4
      <3>2. /\ TreeOK(w) /\ DOMAIN w = DOMAIN u \ {m}
            /\ \A a \in DOMAIN u \ {m} : w[a].origin = u[a].origin
            /\ \A j : At(j, w) = At(j, u) \ {m}
        BY <2>3, <3>1, WithoutCopies
      <3> QED
        BY <2>3, <3>2
    <2> HIDE DEF w
    <2>6. NodesOK(t) /\ NodesOK(w)
      BY <2>5 DEF TreeOK
    <2>7. \A j : At(j, w) = ((At(j, t) \ {n}) \cup (IF j = least THEN {n} ELSE {})) \ {m}
      <3>1. ASSUME NEW j
            PROVE  At(j, u) = (At(j, t) \ {n}) \cup (IF j = least THEN {n} ELSE {})
        BY <2>3 DEF At
      <3> QED
        BY <2>5, <3>1
    <2>8. /\ n \in At(k, t) /\ m \in At(least, t)
          /\ \A j : j # k => n \notin At(j, t)
          /\ \A j : j # least => m \notin At(j, t)
      BY <2>2, <2>4 DEF At
    <2>9. \A j : /\ IsFiniteSet(At(j, t))
                 /\ CopiesOf(j, t) = Cardinality(At(j, t))
                 /\ CopiesOf(j, w) = Cardinality(At(j, w))
      BY <2>6, CopiesAt
    <2>10. CopiesOf(k, w) = CopiesOf(k, t) - 1
      <3>1. CASE k = least
        <4>1. At(k, w) = At(k, t) \ {m} /\ m \in At(k, t)
          BY <2>4, <2>7, <2>8, <3>1
        <4> QED
          BY <2>9, <4>1, FS_RemoveElement
      <3>2. CASE k # least
        <4>1. At(k, w) = At(k, t) \ {n} /\ n \in At(k, t)
          BY <2>4, <2>7, <2>8, <3>2
        <4> QED
          BY <2>9, <4>1, FS_RemoveElement
      <3> QED
        BY <3>1, <3>2
    <2>11. ASSUME NEW j, j # k
           PROVE  CopiesOf(j, w) = CopiesOf(j, t)
      <3>1. CASE j = least
        <4> DEFINE S == At(j, t)
        <4>1. At(j, w) = (S \ {m}) \cup {n} /\ m \in S /\ n \notin S
          BY <2>4, <2>7, <2>8, <2>11, <3>1
        <4>2. IsFiniteSet(S \ {m}) /\ Cardinality(S \ {m}) = Cardinality(S) - 1
          BY <2>9, <4>1, FS_RemoveElement
        <4>3. Cardinality((S \ {m}) \cup {n}) = Cardinality(S \ {m}) + 1
          BY <4>1, <4>2, FS_AddElement
        <4>4. Cardinality(S) \in Nat
          BY <2>9, FS_CardinalityType
        <4> HIDE DEF S
        <4>5. Cardinality(At(j, w)) = Cardinality(S)
          BY <4>1, <4>2, <4>3, <4>4
        <4> QED
          BY <2>9, <4>5 DEF S
      <3>2. CASE j # least
        <4>1. At(j, w) = At(j, t)
          BY <2>4, <2>7, <2>8, <2>11, <3>2
        <4> QED
          BY <2>9, <4>1
      <3> QED
        BY <3>1, <3>2
    <2> QED
      BY <2>1, <2>3, <2>5, <2>10, <2>11
  <1> QED
    BY <1>1, <1>2

(* remove takes one copy of its key, if there is one, and nothing else.    *)
LEMMA RemovedTakesOne ==
  ASSUME NEW t, TreeOK(t), NEW k \in Int
  PROVE  /\ TreeOK(Removed(k, t))
         /\ DOMAIN Removed(k, t) \subseteq DOMAIN t
         /\ \A m \in DOMAIN Removed(k, t) : Removed(k, t)[m].origin = t[m].origin
         /\ CopiesOf(k, t) > 0 => CopiesOf(k, Removed(k, t)) = CopiesOf(k, t) - 1
         /\ CopiesOf(k, t) = 0 => Removed(k, t) = t
         /\ \A j : j # k => CopiesOf(j, Removed(k, t)) = CopiesOf(j, t)
  <1>1. CopiesOf(k, t) \in Nat /\ (Search(k, t) # {} <=> CopiesOf(k, t) > 0)
    BY CopiesAt, SearchIsRight DEF TreeOK
  <1>2. CASE Search(k, t) = {}
    <2>1. Removed(k, t) = t
      BY <1>2 DEF Removed
    <2> QED
      BY <1>1, <1>2, <2>1
  <1>3. CASE Search(k, t) # {}
    <2> DEFINE n == CHOOSE n \in Search(k, t) : TRUE
    <2>1. n \in DOMAIN t /\ t[n].key = k
      <3>1. n \in Search(k, t)
        BY <1>3
      <3> HIDE DEF n
      <3> QED
        BY <3>1 DEF Search, SearchIn
    <2>2. Removed(k, t) = Deleted(n, t)
      BY <1>3 DEF Removed
    <2> HIDE DEF n
    <2> QED
      BY <1>1, <1>3, <2>1, <2>2, DeletedTakesOne
  <1> QED
    BY <1>2, <1>3

-----------------------------------------------------------------------------
(* Insertion.                                                              *)

(* The nodes an insertion passes are those that get the new node below.    *)
LEMMA InsertShape ==
  ASSUME NEW t, NodesOK(t), NEW key \in Int, NEW o \in Int, o \notin DOMAIN t
  PROVE  LET u == Insert(key, o, t)
             R == [key : Int, lefts : SUBSET DOMAIN u, rights : SUBSET DOMAIN u, origin : Int]
         IN /\ DOMAIN u = DOMAIN t \cup {o}
            /\ u \in [DOMAIN u -> R]
            /\ u[o] = Node(key)
            /\ \A n \in DOMAIN t :
                 /\ u[n].key = t[n].key /\ u[n].origin = t[n].origin
                 /\ u[n].lefts = t[n].lefts \cup
                      (IF OnWay(key, n, DOMAIN t, t) /\ key < t[n].key THEN {o} ELSE {})
                 /\ u[n].rights = t[n].rights \cup
                      (IF OnWay(key, n, DOMAIN t, t) /\ ~(key < t[n].key) THEN {o} ELSE {})
  <1> DEFINE D == DOMAIN t
             E == D \cup {o}
             Q == [key : Int, lefts : SUBSET D, rights : SUBSET D, origin : Int]
             R == [key : Int, lefts : SUBSET E, rights : SUBSET E, origin : Int]
             u == Insert(key, o, t)
             way(n) == OnWay(key, n, D, t)
  <1>1. DOMAIN u = E
    BY DEF Insert
  <1>2. u[o] = Node(key)
    BY DEF Insert
  <1>3. Node(key) \in R
    BY DEF Node
  <1>4. ASSUME NEW n \in D
        PROVE  /\ u[n].key = t[n].key /\ u[n].origin = t[n].origin
               /\ u[n].lefts = t[n].lefts \cup (IF way(n) /\ key < t[n].key THEN {o} ELSE {})
               /\ u[n].rights = t[n].rights \cup (IF way(n) /\ ~(key < t[n].key) THEN {o} ELSE {})
               /\ u[n] \in R
    <2>1. t[n] \in Q /\ n # o
      BY DEF NodesOK
    <2>2. u[n] = IF ~way(n) THEN t[n]
                 ELSE IF key < t[n].key THEN [t[n] EXCEPT !.lefts = @ \cup {o}]
                 ELSE [t[n] EXCEPT !.rights = @ \cup {o}]
      BY <2>1 DEF Insert
    <2> HIDE DEF u, way, D
    <2>3. CASE ~way(n)
      BY <2>1, <2>2, <2>3
    <2>4. CASE way(n) /\ key < t[n].key
      <3>1. u[n] = [t[n] EXCEPT !.lefts = @ \cup {o}]
        BY <2>2, <2>4
      <3> QED
        BY <2>1, <2>4, <3>1
    <2>5. CASE way(n) /\ ~(key < t[n].key)
      <3>1. u[n] = [t[n] EXCEPT !.rights = @ \cup {o}]
        BY <2>2, <2>5
      <3> QED
        BY <2>1, <2>5, <3>1
    <2> QED
      BY <2>3, <2>4, <2>5
  <1>5. u = [n \in E |-> u[n]]
    BY DEF Insert
  <1>6. \A n \in E : u[n] \in R
    BY <1>2, <1>3, <1>4
  <1> HIDE DEF u, R
  <1>7. u \in [E -> R]
    BY <1>5, <1>6
  <1> QED
    BY <1>1, <1>2, <1>4, <1>7 DEF u, R

(* A tree u that has a node more than t, of a key and an offset.           *)
Inserted(u, key, o, t) ==
  /\ TreeOK(u)
  /\ DOMAIN u = DOMAIN t \cup {o}
  /\ u[o].key = key /\ u[o].origin = key
  /\ \A n \in DOMAIN t : u[n].key = t[n].key /\ u[n].origin = t[n].origin

(* It is put where the search tree stays one.                              *)
LEMMA InsertOK ==
  ASSUME NEW t, TreeOK(t), NEW key \in Int, NEW o \in Int, o \notin DOMAIN t
  PROVE  Inserted(Insert(key, o, t), key, o, t)
  <1> DEFINE D == DOMAIN t
             u == Insert(key, o, t)
             way(n) == OnWay(key, n, D, t)
  <1>1. /\ DOMAIN u = D \cup {o}
        /\ u \in [DOMAIN u -> [key : Int, lefts : SUBSET DOMAIN u,
                               rights : SUBSET DOMAIN u, origin : Int]]
        /\ u[o] = Node(key)
        /\ \A n \in D :
             /\ u[n].key = t[n].key /\ u[n].origin = t[n].origin
             /\ u[n].lefts = t[n].lefts \cup (IF way(n) /\ key < t[n].key THEN {o} ELSE {})
             /\ u[n].rights = t[n].rights \cup (IF way(n) /\ ~(key < t[n].key) THEN {o} ELSE {})
    BY InsertShape DEF TreeOK
  <1> HIDE DEF u
  <1>2. u[o].key = key /\ u[o].origin = key /\ u[o].lefts = {} /\ u[o].rights = {}
    BY <1>1 DEF Node
  <1>3. \A n \in D : /\ t[n].key \in Int
                     /\ t[n].lefts \subseteq D /\ t[n].rights \subseteq D
    BY DEF TreeOK, NodesOK
  <1>4. ASSUME NEW n \in D
        PROVE  Below(n, u) = Below(n, t) \cup (IF way(n) THEN {o} ELSE {})
    <2>1. /\ u[n].lefts = t[n].lefts \cup (IF way(n) /\ key < t[n].key THEN {o} ELSE {})
          /\ u[n].rights = t[n].rights \cup (IF way(n) /\ ~(key < t[n].key) THEN {o} ELSE {})
      BY <1>1
    <2> HIDE DEF way
    <2> QED
      BY <2>1 DEF Below
  <1>5. Below(o, u) = {}
    BY <1>2 DEF Below
  \* The nodes above one that is passed are passed.
  <1>6. ASSUME NEW a \in D, NEW b \in Below(a, t), way(b)
        PROVE  way(a) /\ (b \in t[a].lefts <=> key < t[a].key)
    <2>1. ASSUME NEW c \in D, a \in Below(c, t)
          PROVE  b \in Below(c, t) /\ (a \in t[c].lefts <=> b \in t[c].lefts)
      <3>1. a \in t[c].lefts => b \in t[c].lefts
        BY DEF TreeOK, Nested
      <3>2. a \in t[c].rights => b \in t[c].rights
        BY DEF TreeOK, Nested
      <3>3. t[c].lefts \cap t[c].rights = {}
        BY DEF TreeOK, Nested
      <3> QED
        BY <2>1, <3>1, <3>2, <3>3 DEF Below
    <2>2. \A c \in D : b \in Below(c, t) => (b \in t[c].lefts <=> key < t[c].key)
      BY <1>6 DEF OnWay
    <2>3. way(a)
      BY <2>1, <2>2 DEF OnWay
    <2> QED
      BY <2>2, <2>3
  <1>7. NodesOK(u)
    <2>1. IsFiniteSet(D \cup {o}) /\ D \cup {o} \subseteq Int
      BY FS_AddElement DEF TreeOK, NodesOK
    <2> QED
      BY <1>1, <2>1 DEF NodesOK
  <1>8. Nested(u)
    <2> SUFFICES ASSUME NEW a \in D
                 PROVE  /\ a \notin Below(a, u)
                        /\ u[a].lefts \cap u[a].rights = {}
                        /\ \A b \in u[a].lefts : Below(b, u) \subseteq u[a].lefts
                        /\ \A b \in u[a].rights : Below(b, u) \subseteq u[a].rights
      BY <1>1, <1>2, <1>5 DEF Nested
    <2>1. /\ a \notin Below(a, t)
          /\ t[a].lefts \cap t[a].rights = {}
          /\ \A b \in t[a].lefts : Below(b, t) \subseteq t[a].lefts
          /\ \A b \in t[a].rights : Below(b, t) \subseteq t[a].rights
      BY DEF TreeOK, Nested
    <2>2. a # o
      OBVIOUS
    <2>3. /\ u[a].lefts = t[a].lefts \cup (IF way(a) /\ key < t[a].key THEN {o} ELSE {})
          /\ u[a].rights = t[a].rights \cup (IF way(a) /\ ~(key < t[a].key) THEN {o} ELSE {})
      BY <1>1
    <2>4. o \notin t[a].lefts /\ o \notin t[a].rights
      BY <1>3
    <2>5. \A b \in Below(a, t) :
            /\ Below(b, u) = Below(b, t) \cup (IF way(b) THEN {o} ELSE {})
            /\ way(b) => way(a) /\ (b \in t[a].lefts <=> key < t[a].key)
      BY <1>3, <1>4, <1>6 DEF Below
    <2> HIDE DEF way
    <2>6. a \notin Below(a, u)
      BY <1>4, <2>1, <2>2
    <2>7. u[a].lefts \cap u[a].rights = {}
      BY <2>1, <2>3, <2>4
    <2>8. ASSUME NEW b \in u[a].lefts
          PROVE  Below(b, u) \subseteq u[a].lefts
      <3>1. CASE b = o
        BY <1>5, <3>1
      <3>2. CASE b \in t[a].lefts
        BY <2>1, <2>3, <2>5, <3>2 DEF Below
      <3> QED
        BY <2>3, <3>1, <3>2
    <2>9. ASSUME NEW b \in u[a].rights
          PROVE  Below(b, u) \subseteq u[a].rights
      <3>1. CASE b = o
        BY <1>5, <3>1
      <3>2. CASE b \in t[a].rights
        <4>1. b \notin t[a].lefts
          BY <2>1, <3>2
        <4> QED
          BY <2>1, <2>3, <2>5, <3>2, <4>1 DEF Below
      <3> QED
        BY <2>3, <3>1, <3>2
    <2> QED
      BY <2>6, <2>7, <2>8, <2>9
  <1>9. Joined(u)
    <2>1. \A a, b, c \in D : Parted(a, b, c, t) => Parted(a, b, c, u)
      BY <1>1 DEF Parted
    <2>2. ASSUME NEW a \in D, NEW b \in D
          PROVE  \/ a = b \/ a \in Below(b, u) \/ b \in Below(a, u)
                 \/ \E c \in DOMAIN u : Parted(a, b, c, u)
      BY <1>1, <1>4, <2>1 DEF TreeOK, Joined
    <2>3. ASSUME NEW b \in D, ~way(b)
          PROVE  \E c \in DOMAIN u : Parted(o, b, c, u)
      <3> DEFINE C == {a \in D : b \in Below(a, t) /\ ~(b \in t[a].lefts <=> key < t[a].key)}
      <3>1. C # {} /\ C \in SUBSET D
        BY <2>3 DEF OnWay
      <3>2. PICK c \in C : \A a \in C : c \notin Below(a, t)
        <4> HIDE DEF C
        <4> QED
          BY <3>1, Topmost DEF TreeOK
      <3>3. c \in D /\ b \in Below(c, t) /\ ~(b \in t[c].lefts <=> key < t[c].key)
        OBVIOUS
      <3>4. way(c)
        <4> SUFFICES ASSUME NEW d \in D, c \in Below(d, t)
                     PROVE  c \in t[d].lefts <=> key < t[d].key
          BY DEF OnWay
        <4>1. c \in t[d].lefts => b \in t[d].lefts
          BY <3>3 DEF TreeOK, Nested
        <4>2. c \in t[d].rights => b \in t[d].rights
          BY <3>3 DEF TreeOK, Nested
        <4>3. t[d].lefts \cap t[d].rights = {}
          BY DEF TreeOK, Nested
        <4>4. b \in Below(d, t) /\ (c \in t[d].lefts <=> b \in t[d].lefts)
          BY <4>1, <4>2, <4>3 DEF Below
        <4>5. d \notin C
          BY <3>2
        <4> QED
          BY <4>4, <4>5
      <3>5. IF key < t[c].key THEN o \in u[c].lefts /\ b \in t[c].rights
            ELSE o \in u[c].rights /\ b \in t[c].lefts
        <4>1. /\ u[c].lefts = t[c].lefts \cup (IF way(c) /\ key < t[c].key THEN {o} ELSE {})
              /\ u[c].rights = t[c].rights \cup (IF way(c) /\ ~(key < t[c].key) THEN {o} ELSE {})
          BY <1>1, <3>3
        <4> HIDE DEF way
        <4> QED
          BY <3>3, <3>4, <4>1 DEF Below
      <3>6. t[c].lefts \subseteq u[c].lefts /\ t[c].rights \subseteq u[c].rights
        BY <1>1, <3>3
      <3> QED
        BY <1>1, <3>3, <3>5, <3>6 DEF Parted
    <2>4. ASSUME NEW b \in D
          PROVE  o \in Below(b, u) \/ \E c \in DOMAIN u : Parted(o, b, c, u) /\ Parted(b, o, c, u)
      <3>1. \A c : Parted(o, b, c, u) => Parted(b, o, c, u)
        BY DEF Parted
      <3> HIDE DEF way
      <3> QED
        BY <1>4, <2>3, <3>1
    <2> QED
      BY <1>1, <2>2, <2>4 DEF Joined
  <1>10. Ordered(u)
    <2> SUFFICES ASSUME NEW a \in D
                 PROVE  /\ \A b \in u[a].lefts : u[b].key < u[a].key
                        /\ \A b \in u[a].rights : u[a].key <= u[b].key
      BY <1>1, <1>2 DEF Ordered
    <2>1. /\ \A b \in t[a].lefts : t[b].key < t[a].key
          /\ \A b \in t[a].rights : t[a].key <= t[b].key
      BY DEF TreeOK, Ordered
    <2>2. /\ u[a].lefts = t[a].lefts \cup (IF way(a) /\ key < t[a].key THEN {o} ELSE {})
          /\ u[a].rights = t[a].rights \cup (IF way(a) /\ ~(key < t[a].key) THEN {o} ELSE {})
          /\ u[a].key = t[a].key
      BY <1>1
    <2> HIDE DEF way
    <2>3. \A b \in t[a].lefts \cup t[a].rights : u[b].key = t[b].key
      BY <1>1, <1>3
    <2> QED
      BY <1>2, <1>3, <2>1, <2>2, <2>3
  <1> QED
    BY <1>1, <1>2, <1>7, <1>8, <1>9, <1>10 DEF TreeOK, Inserted, u

-----------------------------------------------------------------------------
(* The index built of a file.                                              *)

(* The tree of a new index is the root.                                    *)
LEMMA EmptyTreeOK ==
  /\ TreeOK(EmptyTree)
  /\ DOMAIN EmptyTree = {Root}
  /\ EmptyTree[Root].key = RootKey /\ EmptyTree[Root].origin = RootKey
  <1> DEFINE t == EmptyTree
  <1>1. /\ DOMAIN t = {Root} /\ t[Root] = Node(RootKey)
        /\ t = [n \in {Root} |-> t[n]]
    BY DEF EmptyTree
  <1> HIDE DEF t
  <1>2. /\ t[Root].key = RootKey /\ t[Root].origin = RootKey
        /\ t[Root].lefts = {} /\ t[Root].rights = {}
        /\ t[Root] \in [key : Int, lefts : SUBSET {Root}, rights : SUBSET {Root}, origin : Int]
    BY <1>1 DEF Node, RootKey
  <1>3. NodesOK(t)
    <2>1. IsFiniteSet({Root})
      BY FS_Singleton
    <2>2. {Root} \subseteq Int
      BY DEF Root
    <2>3. t \in [{Root} -> [key : Int, lefts : SUBSET {Root}, rights : SUBSET {Root},
                           origin : Int]]
      BY <1>1, <1>2
    <2> QED
      BY <1>1, <2>1, <2>2, <2>3 DEF NodesOK
  <1>4. Nested(t) /\ Joined(t) /\ Ordered(t)
    BY <1>1, <1>2 DEF Nested, Joined, Ordered, Below
  <1> QED
    BY <1>1, <1>2, <1>3, <1>4 DEF TreeOK, t

(* The nodes of an index that was built of n records.                      *)
BuiltOf(t, n, all) ==
  /\ TreeOK(t)
  /\ DOMAIN t = -1..(n - 1)
  /\ t[Root].key = RootKey /\ t[Root].origin = RootKey
  /\ \A i \in 0..(n - 1) : /\ t[i].key = all[i]
                           /\ t[i].origin = all[i]

(* The equation of the recursion in Built, up to n.                        *)
BuildStep(f, i, all) ==
  IF i = 0 THEN EmptyTree
  ELSE Insert(all[i - 1], i - 1, f[i - 1])

BuiltUpTo(f, n, all) ==
  f = [i \in 0..n |-> BuildStep(f, i, all)]

LEMMA BuiltExists ==
  ASSUME NEW end \in Nat, NEW all
  PROVE  \E f : BuiltUpTo(f, end, all)
  <1> DEFINE T == {n \in Nat : ~\E f : BuiltUpTo(f, n, all)}
  <1> SUFFICES ASSUME T # {} PROVE FALSE
    OBVIOUS
  <1>1. PICK n \in T : \A k \in T : n <= k
    BY LeastElement
  <1>2. CASE n = 0
    <2> DEFINE f == [i \in 0..0 |-> EmptyTree]
    <2>1. f = [i \in 0..0 |-> BuildStep(f, i, all)]
      BY DEF BuildStep
    <2>2. BuiltUpTo(f, 0, all)
      BY <2>1 DEF BuiltUpTo
    <2> QED
      BY <1>2, <2>2
  <1>3. CASE n # 0
    <2>1. n \in Nat /\ n - 1 \in Nat /\ n - 1 < n
      BY <1>3
    <2>2. n - 1 \notin T
      BY <1>1, <2>1
    <2>3. PICK g : BuiltUpTo(g, n - 1, all)
      BY <2>1, <2>2
    <2> DEFINE f == [i \in 0..n |-> IF i = n THEN BuildStep(g, n, all) ELSE g[i]]
    <2>4. ASSUME NEW i \in 0..n
          PROVE  f[i] = BuildStep(f, i, all)
      <3>1. CASE i = 0
        <4>1. f[i] = g[i] /\ i \in 0..(n - 1)
          BY <1>3, <2>1, <3>1
        <4>2. g[i] = BuildStep(g, i, all)
          BY <2>3, <4>1 DEF BuiltUpTo
        <4> QED
          BY <3>1, <4>1, <4>2 DEF BuildStep
      <3>2. CASE i # 0
        <4>1. i - 1 \in 0..n /\ i - 1 # n
          BY <2>1, <3>2
        <4>2. f[i - 1] = g[i - 1]
          BY <4>1
        <4>3. BuildStep(f, i, all) = BuildStep(g, i, all)
          BY <3>2, <4>2 DEF BuildStep
        <4>4. CASE i = n
          BY <4>3, <4>4
        <4>5. CASE i # n
          <5>1. f[i] = g[i] /\ i \in 0..(n - 1)
            BY <2>1, <4>5
          <5>2. g[i] = BuildStep(g, i, all)
            BY <2>3, <5>1 DEF BuiltUpTo
          <5> QED
            BY <4>3, <5>1, <5>2
        <4> QED
          BY <4>4, <4>5
      <3> QED
        BY <3>1, <3>2
    <2>5. f = [i \in 0..n |-> f[i]]
      OBVIOUS
    <2> HIDE DEF f
    <2>6. BuiltUpTo(f, n, all)
      BY <2>4, <2>5 DEF BuiltUpTo
    <2> QED
      BY <2>6
  <1> QED
    BY <1>2, <1>3

LEMMA BuiltEquation ==
  ASSUME NEW end \in Nat, NEW all
  PROVE  \E f : BuiltUpTo(f, end, all) /\ Built(all, end) = f[end]
  <1> DEFINE f == CHOOSE f : f = [n \in 0..end |->
        IF n = 0 THEN EmptyTree
        ELSE Insert(all[n - 1], n - 1, f[n - 1])]
  <1>1. Built(all, end) = f[end]
    BY DEF Built
  <1>2. \E g : g = [n \in 0..end |->
        IF n = 0 THEN EmptyTree
        ELSE Insert(all[n - 1], n - 1, g[n - 1])]
    BY BuiltExists DEF BuiltUpTo, BuildStep
  <1>3. f = [n \in 0..end |->
        IF n = 0 THEN EmptyTree
        ELSE Insert(all[n - 1], n - 1, f[n - 1])]
    BY <1>2
  <1> HIDE DEF f
  <1>4. BuiltUpTo(f, end, all)
    BY <1>3 DEF BuiltUpTo, BuildStep
  <1> QED
    BY <1>1, <1>4

(* One more record is read.                                                *)
LEMMA BuiltNext ==
  ASSUME NEW n \in Nat, NEW t, NEW all, NEW key \in Int,
         BuiltOf(t, n, all), key = all[n]
  PROVE  BuiltOf(Insert(key, n, t), n + 1, all)
  <1> DEFINE u == Insert(key, n, t)
  <1>1. TreeOK(t) /\ DOMAIN t = -1..(n - 1)
    BY DEF BuiltOf
  <1>2. n \in Int /\ n \notin DOMAIN t /\ Root \in DOMAIN t /\ n # Root
    BY <1>1 DEF Root
  <1>3. /\ TreeOK(u) /\ DOMAIN u = DOMAIN t \cup {n}
        /\ u[n].key = key /\ u[n].origin = key
        /\ \A i \in DOMAIN t : u[i].key = t[i].key /\ u[i].origin = t[i].origin
    <2>1. Inserted(u, key, n, t)
      BY <1>1, <1>2, InsertOK
    <2> QED
      BY <2>1 DEF Inserted
  <1> HIDE DEF u
  <1>4. DOMAIN u = -1..((n + 1) - 1)
    BY <1>1, <1>3
  <1>5. ASSUME NEW i \in 0..((n + 1) - 1)
        PROVE  /\ u[i].key = all[i]
               /\ u[i].origin = all[i]
    <2>1. CASE i = n
      BY <1>3, <2>1
    <2>2. CASE i # n
      <3>1. i \in 0..(n - 1) /\ i \in DOMAIN t
        BY <1>1, <2>2
      <3> QED
        BY <1>3, <3>1 DEF BuiltOf
    <2> QED
      BY <2>1, <2>2
  <1>6. u[Root].key = RootKey /\ u[Root].origin = RootKey
    BY <1>2, <1>3 DEF BuiltOf
  <1> QED
    BY <1>3, <1>4, <1>5, <1>6 DEF BuiltOf, u

(* An index built has a node for each record read, with its key.           *)
LEMMA BuiltIs ==
  ASSUME NEW end \in Nat, NEW all,
         \A i \in 0..(end - 1) : all[i] \in Int
  PROVE  BuiltOf(Built(all, end), end, all)
  <1>1. PICK f : BuiltUpTo(f, end, all) /\ Built(all, end) = f[end]
    BY BuiltEquation
  <1>2. \A n \in 0..end : f[n] = BuildStep(f, n, all)
    BY <1>1 DEF BuiltUpTo
  <1> DEFINE T == {n \in 0..end : ~BuiltOf(f[n], n, all)}
  <1>3. SUFFICES ASSUME T # {} PROVE FALSE
    BY <1>1
  <1>4. PICK n \in T : \A k \in T : n <= k
    <2>1. T \subseteq Nat
      OBVIOUS
    <2> HIDE DEF T
    <2> QED
      BY <1>3, <2>1, LeastElement
  <1>5. n \in 0..end /\ ~BuiltOf(f[n], n, all)
    OBVIOUS
  <1>6. CASE n = 0
    <2>1. f[n] = EmptyTree
      BY <1>2, <1>5, <1>6 DEF BuildStep
    <2>2. -1..(n - 1) = {-1} /\ 0..(n - 1) = {}
      BY <1>6
    <2> QED
      BY <1>5, <2>1, <2>2, EmptyTreeOK DEF BuiltOf, Root
  <1>7. CASE n # 0
    <2>1. n - 1 \in 0..end /\ n - 1 < n /\ n \in Nat /\ n - 1 \in Nat
      BY <1>5, <1>7
    <2>2. n - 1 \notin T
      BY <1>4, <2>1
    <2>3. BuiltOf(f[n - 1], n - 1, all)
      BY <2>1, <2>2
    <2>4. all[n - 1] \in Int
      <3>1. n - 1 \in 0..(end - 1)
        BY <1>5, <1>7
      <3> QED
        BY <3>1
    <2>5. BuiltOf(Insert(all[n - 1], n - 1, f[n - 1]),
                  (n - 1) + 1, all)
      BY <2>1, <2>3, <2>4, BuiltNext
    <2>6. f[n] = Insert(all[n - 1], n - 1, f[n - 1])
      BY <1>2, <1>5, <1>7 DEF BuildStep
    <2>7. (n - 1) + 1 = n
      BY <2>1
    <2> QED
      BY <1>5, <2>5, <2>6, <2>7
  <1> QED
    BY <1>6, <1>7

-----------------------------------------------------------------------------
(* The indexes.                                                            *)

(* What happens to the files and the offset is what CollectionFiles says.  *)
LEMMA StoreStep == [StoreNext]_storeVars => [FilesNext]_fileVars
  <1> SUFFICES ASSUME [StoreNext]_storeVars PROVE [FilesNext]_fileVars
    OBVIOUS
  <1>1. CASE UNCHANGED storeVars
    BY <1>1 DEF storeVars
  <1>2. ASSUME ProcessEnds
        PROVE  FilesNext
    BY <1>2 DEF ProcessEnds, FilesNext
  <1>3. ASSUME NEW c \in Collections, Open(c) \/ GetRecord(c) \/ DropCollection(c)
        PROVE  FilesNext
    BY <1>2, <1>3 DEF Open, GetRecord, DropCollection, FilesNext
  <1>4. ASSUME NEW c \in Collections, NEW k \in Keys, InsertRecord(c, k)
        PROVE  FilesNext
    BY <1>2, <1>4 DEF InsertRecord, FilesNext
  <1>5. ASSUME NEW c \in Collections, NEW k \in Keys, DeleteRecord(c, k)
        PROVE  UNCHANGED fileVars
    BY <1>5 DEF DeleteRecord
  <1> QED
    BY <1>1, <1>2, <1>3, <1>4, <1>5 DEF StoreNext

(* The engine implements the files alone: what is read from an index never *)
(* decides where a record goes (pico_collection.h, OffsetManager.h).       *)
THEOREM StoreKeepsFiles == StoreSpec => FilesSpec
  <1>1. StoreInit => FilesInit
    BY DEF StoreInit
  <1> QED
    BY <1>1, StoreStep, PTL DEF StoreSpec, FilesSpec

(* So a file is appended to in the engine as it is, indexes, drops and     *)
(* restarts included, as long as no other collection moves the offset      *)
(* (pico_collection.h:430,433, OffsetManager.h).                           *)
THEOREM StoreAppends == StoreSpec => AppendsAtEnd
  BY StoreKeepsFiles, FilesAppend, PTL

(* The inductive invariant: the index of an open collection is a search    *)
(* tree; and as long as no other collection has moved the offset, each of  *)
(* its nodes was inserted for the record of the file at its offset.        *)
IndexesOK ==
  /\ open \subseteq Collections
  /\ index = [c \in Collections |-> index[c]]
  /\ \A c \in Collections :
       IF c \in open THEN TreeOK(index[c]) ELSE index[c] = NoTree

OriginsOf(t, records) ==
  \A n \in DOMAIN t :
    \/ n = Root /\ t[n].origin = RootKey
    \/ n \in 0..(Len(records) - 1) /\ t[n].origin = records[n + 1]

OriginsOK ==
  \A c \in Collections :
    (c \in open /\ files[c] # NoFile /\ Alone(c)) => OriginsOf(index[c], files[c])

StoreInv == FilesInv /\ IndexesOK /\ OriginsOK

LEMMA RecordsAreInt == Records \subseteq Int /\ RootKey \in Int /\ RootKey \notin Records
  BY FilesAssumption, StoreAssumption DEF Records, RootKey

(* A file longer than before holds what it held.                           *)
LEMMA OriginsStay ==
  ASSUME NEW t, NEW r \in Seq(Records), NEW s \in Seq(Records),
         IsPrefix(r, s), OriginsOf(t, r)
  PROVE  OriginsOf(t, s)
  <1>1. Len(r) \in Nat /\ Len(s) \in Nat /\ Len(r) <= Len(s)
        /\ SubSeq(r, 1, Len(r)) = SubSeq(s, 1, Len(r))
    BY DEF IsPrefix
  <1>2. ASSUME NEW i \in 1..Len(r)
        PROVE  s[i] = r[i]
    <2>1. SubSeq(r, 1, Len(r))[i] = r[i] /\ SubSeq(s, 1, Len(r))[i] = s[i]
      BY <1>1
    <2> QED
      BY <1>1, <2>1
  <1>3. ASSUME NEW n \in 0..(Len(r) - 1)
        PROVE  n \in 0..(Len(s) - 1) /\ s[n + 1] = r[n + 1]
    <2>1. n + 1 \in 1..Len(r) /\ n \in 0..(Len(s) - 1)
      BY <1>1
    <2> QED
      BY <1>2, <2>1
  <1> QED
    BY <1>3 DEF OriginsOf

(* What is read for an index is a record.                                  *)
LEMMA RetrievedRecord ==
  ASSUME NEW records \in Seq(Records), NEW end \in Nat, NEW i \in 0..(end - 1),
         NEW memory \in [Len(records)..(end - 1) -> Unset]
  PROVE  /\ Retrieved(records, i, memory) \in Records
         /\ i < Len(records) => Retrieved(records, i, memory) = records[i + 1]
  <1>1. CASE i < Len(records)
    <2>1. i + 1 \in 1..Len(records)
      BY <1>1
    <2>2. records[i + 1] \in Records
      BY <2>1
    <2> QED
      BY <1>1, <2>2 DEF Retrieved
  <1>2. CASE ~(i < Len(records))
    <2>1. i \in Len(records)..(end - 1)
      BY <1>2
    <2>2. memory[i] \in Records
      BY <2>1, StoreAssumption
    <2> QED
      BY <1>2, <2>2 DEF Retrieved
  <1> QED
    BY <1>1, <1>2

(* A collection is opened with an index of its file.                       *)
LEMMA OpenBuilds ==
  ASSUME StoreInv, NEW c \in Collections, Open(c)
  PROVE  /\ files'[c] \in Seq(Records)
         /\ index' = [index EXCEPT ![c] = index'[c]]
         /\ \E end \in Nat :
              /\ \E memory \in [Len(files'[c])..(end - 1) -> Unset] :
                   BuiltOf(index'[c], end, AllRecords(files'[c], end, memory))
              /\ offset = -1 => end = Len(files'[c])
  <1> DEFINE records == files'[c]
             end == EndOfFile(records)
  <1>1. PICK memory \in [Len(records)..(end - 1) -> Unset] :
          index' = [index EXCEPT ![c] =
                     Built(AllRecords(records, end, memory), end)]
    BY DEF Open
  <1>2. records \in Seq(Records)
    <2>1. files \in [Collections -> Seq(Records) \cup {NoFile}]
      BY DEF StoreInv, FilesInv, FilesType
    <2>2. files' = [files EXCEPT ![c] = IF @ = NoFile THEN <<>> ELSE @]
      BY DEF Open, OpenFile
    <2>3. <<>> \in Seq(Records)
      OBVIOUS
    <2> QED
      BY <2>1, <2>2, <2>3
  <1>3. end \in Nat /\ (offset = -1 => end = Len(records))
    <2>1. offset \in Nat \cup {-1} /\ Len(records) \in Nat
      BY <1>2 DEF StoreInv, FilesInv, FilesType
    <2> QED
      BY <2>1 DEF EndOfFile, InitialOffset
  <1> HIDE DEF end, records
  <1> DEFINE all == AllRecords(records, end, memory)
  <1>4. \A i \in 0..(end - 1) : all[i] \in Int
    BY <1>1, <1>2, <1>3, RetrievedRecord, RecordsAreInt DEF AllRecords
  <1> HIDE DEF all
  <1>6. BuiltOf(Built(all, end), end, all)
    BY <1>3, <1>4, BuiltIs
  <1>7. index'[c] = Built(all, end) /\ index' = [index EXCEPT ![c] = index'[c]]
    BY <1>1 DEF StoreInv, IndexesOK, all
  <1>8. BuiltOf(index'[c], end, all)
    BY <1>6, <1>7
  <1> QED
    BY <1>1, <1>2, <1>3, <1>7, <1>8 DEF records, all

LEMMA OpenKeepsIndexes ==
  ASSUME StoreInv, NEW c \in Collections, Open(c)
  PROVE  IndexesOK' /\ OriginsOK'
  <1>1. /\ files'[c] \in Seq(Records)
        /\ index' = [index EXCEPT ![c] = index'[c]]
    BY OpenBuilds
  <1>2. PICK end \in Nat :
          /\ \E memory \in [Len(files'[c])..(end - 1) -> Unset] :
               BuiltOf(index'[c], end, AllRecords(files'[c], end, memory))
          /\ offset = -1 => end = Len(files'[c])
    BY OpenBuilds
  <1> PICK memory \in [Len(files'[c])..(end - 1) -> Unset] :
          BuiltOf(index'[c], end, AllRecords(files'[c], end, memory))
    BY <1>2
  <1>3. /\ open' = open \cup {c} /\ c \notin open /\ writers' = writers
        /\ files' = [files EXCEPT ![c] = IF @ = NoFile THEN <<>> ELSE @]
    BY DEF Open, OpenFile
  <1>4. /\ open \subseteq Collections
        /\ index = [d \in Collections |-> index[d]]
        /\ files \in [Collections -> Seq(Records) \cup {NoFile}]
    BY DEF StoreInv, IndexesOK, FilesInv, FilesType
  <1>5. /\ index' = [d \in Collections |-> index'[d]]
        /\ \A d \in Collections : d # c => index'[d] = index[d] /\ files'[d] = files[d]
    <2>1. \A d \in Collections : d # c => files'[d] = files[d]
      BY <1>3, <1>4
    <2>2. \A d \in Collections : d # c => index'[d] = index[d]
      BY <1>1, <1>4
    <2>3. index' = [d \in Collections |-> index'[d]]
      BY <1>1, <1>4
    <2> QED
      BY <2>1, <2>2, <2>3
  <1>6. TreeOK(index'[c])
    BY <1>2 DEF BuiltOf
  <1>7. IndexesOK'
    <2>1. \A d \in Collections :
            IF d \in open' THEN TreeOK(index'[d]) ELSE index'[d] = NoTree
      BY <1>3, <1>5, <1>6 DEF StoreInv, IndexesOK
    <2> QED
      BY <1>3, <1>4, <1>5, <2>1 DEF IndexesOK
  <1>8. ASSUME Alone(c)
        PROVE  OriginsOf(index'[c], files'[c])
    <2>1. offset = -1
      BY <1>3, <1>8 DEF StoreInv, FilesInv, Alone
    <2>2. end = Len(files'[c])
      BY <1>2, <2>1
    <2> SUFFICES ASSUME NEW n \in DOMAIN index'[c], n # Root
                 PROVE  /\ n \in 0..(Len(files'[c]) - 1)
                        /\ index'[c][n].origin = files'[c][n + 1]
      BY <1>2 DEF OriginsOf, BuiltOf
    <2>3. DOMAIN index'[c] = -1..(end - 1)
      BY <1>2 DEF BuiltOf
    <2>4. n \in -1..(end - 1) /\ n # -1
      BY <2>3 DEF Root
    <2>5. n \in 0..(end - 1) /\ n \in Nat /\ n < end
      BY <2>4
    <2>6. index'[c][n].origin = Retrieved(files'[c], n, memory)
      BY <2>5 DEF BuiltOf, AllRecords
    <2> QED
      BY <1>1, <1>2, <2>2, <2>5, <2>6, RetrievedRecord
  <1>9. OriginsOK'
    BY <1>3, <1>5, <1>8 DEF OriginsOK, Alone, StoreInv
  <1> QED
    BY <1>7, <1>9

(* The steps that leave every index as it is.                              *)
LEMMA FilesKeepIndexes ==
  ASSUME StoreInv, UNCHANGED <<index, open>>,
         \/ UNCHANGED <<files, writers>>
         \/ \E c \in Collections : DropFile(c)
         \/ \E c \in Collections : \E k \in Keys : WriteRecord(c, k)
  PROVE  IndexesOK' /\ OriginsOK'
  <1>1. IndexesOK'
    BY DEF StoreInv, IndexesOK
  <1>2. ASSUME UNCHANGED <<files, writers>>
        PROVE  OriginsOK'
    BY <1>2 DEF StoreInv, OriginsOK, Alone
  <1>3. ASSUME NEW c \in Collections, DropFile(c)
        PROVE  OriginsOK'
    <2>1. writers' = writers /\ files' = [files EXCEPT ![c] = NoFile]
      BY <1>3 DEF DropFile
    <2>2. files \in [Collections -> Seq(Records) \cup {NoFile}]
      BY DEF StoreInv, FilesInv, FilesType
    <2>3. \A d \in Collections : files'[d] # NoFile => files'[d] = files[d]
      BY <2>1, <2>2
    <2> QED
      BY <2>1, <2>3 DEF StoreInv, OriginsOK, Alone
  <1>4. ASSUME NEW c \in Collections, NEW k \in Keys, WriteRecord(c, k)
        PROVE  OriginsOK'
    <2>1. /\ writers' = writers \cup {c} /\ files[c] # NoFile
      BY <1>4 DEF WriteRecord
    <2>2. SUFFICES ASSUME NEW d \in Collections,
                          d \in open, files'[d] # NoFile, Alone(d)'
                   PROVE  OriginsOf(index[d], files'[d])
      BY DEF OriginsOK
    <2>3. d = c /\ Alone(c)
      BY <2>1, <2>2 DEF Alone
    <2>4. files[c] \in Seq(Records) /\ IsPrefix(files[c], files'[c]) /\ FilesInv'
      BY <1>4, <2>1, <2>3, WriteKeeps, WritesAtEnd DEF StoreInv
    <2>5. files'[c] \in Seq(Records)
      BY <2>2, <2>3, <2>4 DEF FilesInv, FilesType
    <2>6. OriginsOf(index[c], files[c])
      BY <2>1, <2>2, <2>3 DEF StoreInv, OriginsOK
    <2> QED
      BY <2>3, <2>4, <2>5, <2>6, OriginsStay
  <1>5. OriginsOK'
    <2>1. CASE \E c \in Collections : DropFile(c)
      BY <1>3, <2>1
    <2>2. CASE \E c \in Collections : \E k \in Keys : WriteRecord(c, k)
      <3>1. PICK c \in Collections, k \in Keys : WriteRecord(c, k)
        BY <2>2
      <3> QED
        BY <1>4, <3>1
    <2> QED
      BY <1>2, <2>1, <2>2
  <1> QED
    BY <1>1, <1>5

LEMMA DeletionKeepsIndexes ==
  ASSUME StoreInv, NEW c \in Collections, NEW k \in Keys, DeleteRecord(c, k)
  PROVE  /\ IndexesOK' /\ OriginsOK'
         /\ c \in open /\ TreeOK(index[c]) /\ k \in Int
         /\ index' = [index EXCEPT ![c] = Removed(k, index[c])]
  <1>1. /\ c \in open /\ UNCHANGED <<files, open, offset, writers>>
        /\ index' = [index EXCEPT ![c] = Removed(k, index[c])]
    BY DEF DeleteRecord, IsOpen, fileVars
  <1>2. TreeOK(index[c]) /\ k \in Int
    BY <1>1, RecordsAreInt DEF StoreInv, IndexesOK, Records
  <1> DEFINE t == index[c]
             u == Removed(k, t)
  <1>3. /\ TreeOK(u) /\ DOMAIN u \subseteq DOMAIN t
        /\ \A m \in DOMAIN u : u[m].origin = t[m].origin
    BY <1>2, RemovedTakesOne
  <1> HIDE DEF u
  <1>4. index = [d \in Collections |-> index[d]]
    BY DEF StoreInv, IndexesOK
  <1>5. /\ index' = [d \in Collections |-> index'[d]]
        /\ index'[c] = u
        /\ \A d \in Collections : d # c => index'[d] = index[d]
    BY <1>1, <1>4 DEF u
  <1>6. IndexesOK'
    BY <1>1, <1>3, <1>5 DEF StoreInv, IndexesOK
  <1>7. OriginsOf(t, files[c]) => OriginsOf(u, files[c])
    BY <1>3 DEF OriginsOf
  <1>8. OriginsOK'
    BY <1>1, <1>5, <1>7 DEF StoreInv, OriginsOK, Alone
  <1> QED
    BY <1>1, <1>2, <1>6, <1>8

LEMMA EndKeepsIndexes ==
  ASSUME ProcessEnds
  PROVE  IndexesOK' /\ OriginsOK'
  BY DEF ProcessEnds, ForgetFiles, IndexesOK, OriginsOK

LEMMA StoreInvInit == StoreInit => StoreInv
  BY FilesInvInit DEF StoreInit, StoreInv, IndexesOK, OriginsOK, FilesInit

LEMMA StoreInvInductive == StoreInv /\ [StoreNext]_storeVars => StoreInv'
  <1> SUFFICES ASSUME StoreInv, [StoreNext]_storeVars PROVE StoreInv'
    OBVIOUS
  <1>1. FilesInv'
    BY StoreStep, FilesInvInductive DEF StoreInv
  <1>2. CASE UNCHANGED storeVars
    BY <1>1, <1>2, FilesKeepIndexes DEF storeVars, fileVars, StoreInv
  <1>3. CASE StoreNext
    <2>1. ASSUME ProcessEnds
          PROVE  StoreInv'
      BY <1>1, <2>1, EndKeepsIndexes DEF StoreInv
    <2>2. ASSUME NEW c \in Collections, Open(c)
          PROVE  StoreInv'
      BY <1>1, <2>2, OpenKeepsIndexes DEF StoreInv
    <2>3. ASSUME NEW c \in Collections, GetRecord(c)
          PROVE  StoreInv'
      BY <2>1, <2>3 DEF GetRecord
    <2>4. ASSUME NEW c \in Collections, DropCollection(c)
          PROVE  StoreInv'
      <3>1. DropFile(c) /\ UNCHANGED <<index, open>>
        BY <2>4 DEF DropCollection, DropFile
      <3> QED
        BY <1>1, <3>1, FilesKeepIndexes DEF StoreInv
    <2>5. ASSUME NEW c \in Collections, NEW k \in Keys, InsertRecord(c, k)
          PROVE  StoreInv'
      <3>1. CASE ProcessEnds
        BY <2>1, <3>1
      <3>2. CASE WriteRecord(c, k) /\ UNCHANGED index
        <4>1. UNCHANGED <<index, open>>
          BY <3>2 DEF WriteRecord
        <4> QED
          BY <1>1, <3>2, <4>1, FilesKeepIndexes DEF StoreInv
      <3> QED
        BY <2>5, <3>1, <3>2 DEF InsertRecord
    <2>6. ASSUME NEW c \in Collections, NEW k \in Keys, DeleteRecord(c, k)
          PROVE  StoreInv'
      BY <1>1, <2>6, DeletionKeepsIndexes DEF StoreInv
    <2> QED
      BY <1>3, <2>1, <2>2, <2>3, <2>4, <2>5, <2>6 DEF StoreNext
  <1> QED
    BY <1>2, <1>3

(* The inductive invariant of the indexes always holds.                    *)
THEOREM AlwaysStoreInv == StoreSpec => []StoreInv
  BY StoreInvInit, StoreInvInductive, PTL DEF StoreSpec

-----------------------------------------------------------------------------
(* The promises of the indexes.                                            *)

(* The descent of search finds every key the tree holds, and no other, for *)
(* any collections, keys and sizes of files, whatever was inserted and     *)
(* deleted, copies included (pico_index.h:51-79,178-254).                  *)
THEOREM KeysAreFound == StoreSpec => []SearchFinds
  <1>1. StoreInv => SearchFinds
    BY RecordsAreInt, SearchIsRight DEF StoreInv, IndexesOK, SearchFinds, IsOpen
  <1> QED
    BY <1>1, AlwaysStoreInv, PTL

(* The offset of an index entry is that of a record of its key, as long as *)
(* no deletion has moved the key and no other collection the offset        *)
(* (pico_index.h:63-65, OffsetManager.h).                                  *)
THEOREM EntriesPoint == StoreSpec => []EntriesPointToKeys
  <1>1. StoreInv => EntriesPointToKeys
    <2> SUFFICES ASSUME StoreInv, NEW c \in Collections,
                        IsOpen(c), files[c] # NoFile, Alone(c),
                        NEW n \in DOMAIN index[c],
                        index[c][n].key # RootKey,
                        index[c][n].key = index[c][n].origin
                 PROVE  n < Len(files[c]) /\ files[c][n + 1] = index[c][n].key
      BY DEF EntriesPointToKeys
    <2>1. OriginsOf(index[c], files[c])
      BY DEF StoreInv, OriginsOK, IsOpen
    <2>2. n \in 0..(Len(files[c]) - 1) /\ index[c][n].origin = files[c][n + 1]
      BY <2>1 DEF OriginsOf
    <2>3. Len(files[c]) \in Nat
      BY WritesAtEnd DEF StoreInv
    <2> QED
      BY <2>2, <2>3
  <1> QED
    BY <1>1, AlwaysStoreInv, PTL

(* An index built of a whole file counts as many copies of a key as the    *)
(* file.                                                                   *)
LEMMA BuiltCounts ==
  ASSUME NEW t, NEW records \in Seq(Records), NEW memory,
         BuiltOf(t, Len(records), AllRecords(records, Len(records), memory)),
         NEW k \in Records
  PROVE  CopiesOf(k, t) = Cardinality({i \in DOMAIN records : records[i] = k})
  <1> DEFINE I == {i \in DOMAIN records : records[i] = k}
             N == At(k, t)
             f == [n \in N |-> n + 1]
  <1>1. /\ NodesOK(t) /\ Len(records) \in Nat /\ DOMAIN records = 1..Len(records)
        /\ DOMAIN t = -1..(Len(records) - 1)
        /\ t[-1].key # k
    BY RecordsAreInt DEF BuiltOf, TreeOK, Root
  <1>2. ASSUME NEW n \in 0..(Len(records) - 1)
        PROVE  t[n].key = records[n + 1]
    <2>1. n \in Nat /\ n < Len(records)
      BY <1>1
    <2> QED
      BY <2>1 DEF BuiltOf, AllRecords, Retrieved
  <1>3. N = {n \in 0..(Len(records) - 1) : records[n + 1] = k}
    <2>1. \A n \in -1..(Len(records) - 1) : n = -1 \/ n \in 0..(Len(records) - 1)
      BY <1>1
    <2>2. \A n \in 0..(Len(records) - 1) : n \in -1..(Len(records) - 1)
      BY <1>1
    <2> QED
      BY <1>1, <1>2, <2>1, <2>2 DEF At
  <1>4. f \in Bijection(N, I)
    <2>1. \A n \in N : n \in Int /\ n + 1 \in I
      BY <1>1, <1>3
    <2>2. ASSUME NEW i \in I
          PROVE  i \in Int /\ i - 1 \in N /\ (i - 1) + 1 = i
      <3>1. i \in 1..Len(records) /\ records[i] = k
        BY <1>1
      <3>2. i - 1 \in 0..(Len(records) - 1) /\ (i - 1) + 1 = i
        BY <1>1, <3>1
      <3> QED
        BY <1>3, <3>1, <3>2
    <2> HIDE DEF N, I
    <2>3. f \in [N -> I]
      BY <2>1
    <2>4. \A m, n \in N : f[m] = f[n] => m = n
      BY <2>1
    <2>5. \A i \in I : \E n \in N : f[n] = i
      BY <2>2
    <2> HIDE DEF f
    <2> QED
      BY <2>3, <2>4, <2>5, Fun_IsBij
  <1>5. IsFiniteSet(N) /\ CopiesOf(k, t) = Cardinality(N)
    BY <1>1, CopiesAt
  <1> HIDE DEF N, I, f
  <1>6. Cardinality(I) = Cardinality(N)
    BY <1>4, <1>5, FS_Bijection DEF ExistsBijection
  <1> QED
    BY <1>5, <1>6 DEF I

(* The index of a collection opened before any record is written has an    *)
(* entry for each record of its file, whatever was done to it before the   *)
(* process ended, and no other node but the root                           *)
(* (pico_collection.h:53-81,314-343).                                      *)
THEOREM OpenIndexesFile == StoreSpec => OpenedIndexesFile
  <1> DEFINE Step ==
        \A c \in Collections :
          (~IsOpen(c) /\ IsOpen(c)' /\ offset = -1) =>
             /\ \A k \in Records :
                  CopiesOf(k, index'[c]) =
                    Cardinality({i \in DOMAIN files'[c] : files'[c][i] = k})
             /\ TreeSize(index'[c]) = Len(files'[c]) + 1
  <1>1. ASSUME StoreInv, [StoreNext]_storeVars, NEW c \in Collections,
               ~IsOpen(c), IsOpen(c)'
        PROVE  Open(c)
    <2>1. CASE UNCHANGED storeVars
      BY <1>1, <2>1 DEF storeVars, fileVars, IsOpen
    <2>2. ~ProcessEnds
      BY <1>1 DEF ProcessEnds, ForgetFiles, IsOpen
    <2>3. ASSUME NEW d \in Collections, Open(d)
          PROVE  d = c
      BY <1>1, <2>3 DEF Open, OpenFile, IsOpen
    <2>4. ASSUME NEW d \in Collections,
                 \/ GetRecord(d) \/ DropCollection(d)
                 \/ \E k \in Keys : InsertRecord(d, k) \/ DeleteRecord(d, k)
          PROVE  FALSE
      BY <1>1, <2>2, <2>4 DEF GetRecord, DropCollection, DropFile, InsertRecord,
           WriteRecord, DeleteRecord, IsOpen, fileVars
    <2> QED
      BY <1>1, <2>1, <2>2, <2>3, <2>4 DEF StoreNext
  <1>2. StoreInv /\ [StoreNext]_storeVars => [Step]_storeVars
    <2> SUFFICES ASSUME StoreInv, [StoreNext]_storeVars, NEW c \in Collections,
                        ~IsOpen(c), IsOpen(c)', offset = -1
                 PROVE  /\ \A k \in Records :
                             CopiesOf(k, index'[c]) =
                               Cardinality({i \in DOMAIN files'[c] : files'[c][i] = k})
                        /\ TreeSize(index'[c]) = Len(files'[c]) + 1
      OBVIOUS
    <2>1. Open(c)
      BY <1>1
    <2>2. files'[c] \in Seq(Records)
      BY <2>1, OpenBuilds
    <2>3. PICK memory :
            BuiltOf(index'[c], Len(files'[c]),
                    AllRecords(files'[c], Len(files'[c]), memory))
      BY <2>1, OpenBuilds
    <2>4. \A k \in Records :
            CopiesOf(k, index'[c]) =
              Cardinality({i \in DOMAIN files'[c] : files'[c][i] = k})
      BY <2>2, <2>3, BuiltCounts
    <2>5. TreeSize(index'[c]) = Len(files'[c]) + 1
      <3>1. Len(files'[c]) \in Nat /\ -1 \in Int
        BY <2>2
      <3>2. DOMAIN index'[c] = -1..(Len(files'[c]) - 1)
        BY <2>3 DEF BuiltOf
      <3>3. Cardinality(-1..(Len(files'[c]) - 1)) = Len(files'[c]) + 1
        BY <3>1, FS_Interval
      <3> QED
        BY <3>2, <3>3 DEF TreeSize
    <2> QED
      BY <2>4, <2>5
  <1> QED
    BY <1>2, AlwaysStoreInv, PTL DEF StoreSpec, OpenedIndexesFile

-----------------------------------------------------------------------------
(* The index implements a bag of keys.                                     *)

LEMMA NoCopies == \A k : CopiesOf(k, NoTree) = 0
  BY FS_EmptySet DEF CopiesOf, NoTree

LEMMA StoreInitMaps == StoreInit => Abstract!Init
  BY NoCopies DEF StoreInit, Abstract!Init, Abstract!Empty, KeysIn

(* An index opened is a bag filled ...                                     *)
LEMMA OpenFills ==
  ASSUME StoreInv, NEW c \in Collections, Open(c)
  PROVE  Abstract!Fill(c)
  <1>1. /\ index' = [index EXCEPT ![c] = index'[c]]
        /\ TreeOK(index'[c])
    BY OpenBuilds DEF BuiltOf
  <1>2. index = [d \in Collections |-> index[d]] /\ index[c] = NoTree
    BY DEF StoreInv, IndexesOK, Open, OpenFile
  <1>3. KeysIn[c] = Abstract!Empty
    BY <1>2, NoCopies DEF KeysIn, Abstract!Empty
  <1>4. KeysIn'[c] \in [Records -> Nat]
    <2>1. \A k \in Records : CopiesOf(k, index'[c]) \in Nat
      BY <1>1, CopiesAt DEF TreeOK
    <2>2. KeysIn'[c] = [k \in Records |-> CopiesOf(k, index'[c])]
      BY DEF KeysIn
    <2> QED
      BY <2>1, <2>2
  <1>5. KeysIn' = [KeysIn EXCEPT ![c] = KeysIn'[c]]
    <2>1. \A d \in Collections : d # c => index'[d] = index[d]
      BY <1>1, <1>2
    <2> QED
      BY <2>1 DEF KeysIn
  <1> QED
    BY <1>3, <1>4, <1>5 DEF Abstract!Fill

(* ... and a deletion takes one copy of its key, if there is one.          *)
LEMMA DeletionTakes ==
  ASSUME StoreInv, NEW c \in Collections, NEW k \in Keys, DeleteRecord(c, k)
  PROVE  Abstract!TakeOne(c, k) \/ UNCHANGED KeysIn
  <1>1. /\ TreeOK(index[c]) /\ k \in Int /\ k \in Records
        /\ index' = [index EXCEPT ![c] = Removed(k, index[c])]
        /\ index = [d \in Collections |-> index[d]]
    BY DeletionKeepsIndexes DEF StoreInv, IndexesOK, Records
  <1> DEFINE t == index[c]
             u == Removed(k, t)
  <1>2. /\ index'[c] = u
        /\ \A d \in Collections : d # c => index'[d] = index[d]
    BY <1>1
  <1>3. /\ CopiesOf(k, t) \in Nat
        /\ CopiesOf(k, t) > 0 => CopiesOf(k, u) = CopiesOf(k, t) - 1
        /\ CopiesOf(k, t) = 0 => u = t
        /\ \A j : j # k => CopiesOf(j, u) = CopiesOf(j, t)
    BY <1>1, RemovedTakesOne, CopiesAt DEF TreeOK
  <1> HIDE DEF u
  <1>4. CASE CopiesOf(k, t) = 0
    <2>1. \A d \in Collections : index'[d] = index[d]
      BY <1>2, <1>3, <1>4
    <2> QED
      BY <2>1 DEF KeysIn
  <1>5. CASE CopiesOf(k, t) > 0
    <2>1. KeysIn[c][k] > 0
      BY <1>1, <1>5 DEF KeysIn
    <2>2. ASSUME NEW d \in Collections
          PROVE  KeysIn'[d] = [KeysIn EXCEPT ![c][k] = @ - 1][d]
      <3>1. CASE d = c
        <4>1. KeysIn'[c] = [j \in Records |-> CopiesOf(j, u)]
          BY <1>2 DEF KeysIn
        <4>2. KeysIn[c] = [j \in Records |-> CopiesOf(j, t)]
          BY DEF KeysIn
        <4>3. [j \in Records |-> CopiesOf(j, u)]
                = [[j \in Records |-> CopiesOf(j, t)] EXCEPT ![k] = @ - 1]
          BY <1>1, <1>3, <1>5
        <4>4. [KeysIn EXCEPT ![c][k] = @ - 1][c] = [KeysIn[c] EXCEPT ![k] = @ - 1]
          BY DEF KeysIn
        <4> QED
          BY <3>1, <4>1, <4>2, <4>3, <4>4
      <3>2. CASE d # c
        BY <1>2, <3>2 DEF KeysIn
      <3> QED
        BY <3>1, <3>2
    <2>3. KeysIn' = [KeysIn EXCEPT ![c][k] = @ - 1]
      BY <2>2 DEF KeysIn
    <2> QED
      BY <2>1, <2>3 DEF Abstract!TakeOne
  <1> QED
    BY <1>3, <1>4, <1>5

(* A deletion takes one copy of its key out of the index, or nothing when  *)
(* there is none, and leaves every other key as it was; an index is filled *)
(* only while it is empty (pico_index.h:35-80,256-290).                    *)
THEOREM IndexBag == StoreSpec => IndexIsABag
  <1>1. ASSUME ProcessEnds
        PROVE  Abstract!Lose
    BY <1>1, NoCopies DEF ProcessEnds, Abstract!Lose, Abstract!Empty, KeysIn
  <1>2. UNCHANGED index => UNCHANGED KeysIn
    BY DEF KeysIn
  <1>3. StoreInv /\ [StoreNext]_storeVars => [Abstract!Next]_KeysIn
    <2> SUFFICES ASSUME StoreInv, [StoreNext]_storeVars
                 PROVE  Abstract!Next \/ UNCHANGED KeysIn
      OBVIOUS
    <2>1. CASE UNCHANGED storeVars
      BY <1>2, <2>1 DEF storeVars
    <2>2. CASE ProcessEnds
      BY <1>1, <2>2 DEF Abstract!Next
    <2>3. ASSUME NEW c \in Collections, Open(c)
          PROVE  Abstract!Next
      BY <2>3, OpenFills DEF Abstract!Next
    <2>4. ASSUME NEW c \in Collections, NEW k \in Keys, DeleteRecord(c, k)
          PROVE  Abstract!Next \/ UNCHANGED KeysIn
      <3>1. k \in Records
        BY DEF Records
      <3> QED
        BY <2>4, <3>1, DeletionTakes DEF Abstract!Next
    <2>5. ASSUME NEW c \in Collections,
                 \/ GetRecord(c) \/ DropCollection(c)
                 \/ \E k \in Keys : InsertRecord(c, k)
          PROVE  Abstract!Next \/ UNCHANGED KeysIn
      BY <1>2, <2>2, <2>5 DEF GetRecord, DropCollection, InsertRecord
    <2> QED
      BY <2>1, <2>2, <2>3, <2>4, <2>5 DEF StoreNext
  <1> QED
    BY <1>3, StoreInitMaps, AlwaysStoreInv, PTL DEF StoreSpec, IndexIsABag, Abstract!Spec
=============================================================================
