----------------------------- MODULE StageProofs -----------------------------
(***************************************************************************)
(* Theorems about stages of a conversion, each one for every value of the  *)
(* stage's constants.                                                      *)
(***************************************************************************)
EXTENDS FieldNumbers, WorkbookIndex, DataRows, HeaderOptions, Storing, Values, Books, Loading,
        FiniteSetTheorems, SequenceTheorems, WellFoundedInduction, TLAPS

(***************************************************************************)
(* FieldNumbers: every set of fields, every set of schemas, and any number *)
(* of generations.                                                         *)
(***************************************************************************)
NumbersTypeInv ==
  /\ proto \in [Messages -> Generated]
  /\ done \in [Messages -> Generated]
  /\ schema \in Schemas \cup {None}
  /\ message \in Messages
  /\ old \in Generated
  /\ number \in Numbers
  /\ reserved \in SUBSET Nat
  /\ used \in SUBSET Nat
  /\ highest \in Nat
  /\ next \in Nat \ {0}
  /\ ledger \subseteq Messages \X Nat \X FieldNames

\* No two fields of a message have one number, and none has a reserved one.
Distinct(md) ==
  /\ \A f, g \in FieldNames : md.number[f] # 0 /\ md.number[f] = md.number[g] => f = g
  /\ \A f \in FieldNames : md.number[f] # 0 => md.number[f] \notin md.reserved

\* What the ledger asks of the next generation of a message.
Succeeds(md, new) ==
  /\ \A f \in FieldNames : md.number[f] # 0 /\ new.number[f] # 0 => new.number[f] = md.number[f]
  /\ \A f \in FieldNames : md.number[f] = 0 /\ new.number[f] # 0 =>
       new.number[f] \notin md.reserved /\ \A g \in FieldNames : md.number[g] # new.number[f]
  /\ md.reserved \subseteq new.reserved
  /\ \A f \in FieldNames : md.number[f] # 0 /\ new.number[f] = 0 => md.number[f] \in new.reserved

\* What is reserved while the fields F are numbered.
ReservedOf(F, md, res) ==
  /\ md.reserved \subseteq res
  /\ \A f \in FieldNames : md.number[f] # 0 => (md.number[f] \in res <=> f \notin F)

\* The first i - 1 of the fields fs have numbers, which are those of md or new,
\* and all new ones are counted as used.
NumberingOf(fs, i, md, num, res, use) ==
  /\ \A f \in FieldNames : num[f] # 0 <=> \E k \in 1..Len(fs) : k < i /\ fs[k] = f
  /\ \A f \in FieldNames : num[f] # 0 /\ md.number[f] # 0 => num[f] = md.number[f]
  /\ \A f \in FieldNames : num[f] # 0 /\ md.number[f] = 0 =>
       num[f] \in use /\ num[f] \notin Used(md) /\ num[f] \notin res
  /\ \A f, g \in FieldNames : num[f] # 0 /\ num[f] = num[g] => f = g
  /\ Used(md) \subseteq use
  /\ ReservedOf({fs[k] : k \in 1..Len(fs)}, md, res)

\* The latest message of the sheet, of this generation or of the last.
Latest == IF schema = None \/ message = Sheet THEN proto[Sheet] ELSE done[Sheet]

\* A number once given is that of its name, or it is reserved.
LedgerOf(md, entries) ==
  \A a \in entries : a[1] = Sheet =>
    a[2] # 0 /\ (md.number[a[3]] = a[2] \/ a[2] \in md.reserved)

NumbersInv ==
  /\ \A m \in Messages : Distinct(proto[m]) /\ Distinct(done[m])
  /\ schema # None => /\ Distinct(old)
                      /\ NumberingOf(schema.fields[message], next, old, number, reserved, used)
                      /\ message = Sheet => old = proto[Sheet]
                      /\ message # Sheet => Succeeds(proto[Sheet], done[Sheet])

LedgerInv == LedgerOf(Latest, ledger) /\ NumbersKeepMeaning
-----------------------------------------------------------------------------
LEMMA MessageTypes ==
  /\ Sheet \in Messages /\ Scalar \notin Nested
  /\ Nested = Messages \ {Sheet}
  /\ Messages = Nested \cup {Sheet}
  BY MessagesAssumption DEF Messages

LEMMA NoMessageFacts ==
  /\ NoMessage \in Generated
  /\ NoNumbers \in Numbers
  /\ \A f \in FieldNames : NoMessage.number[f] = 0 /\ NoNumbers[f] = 0
  /\ NoMessage.reserved = {}
  /\ Distinct(NoMessage)
  <1>1. NoNumbers \in Numbers /\ \A f \in FieldNames : NoNumbers[f] = 0
    BY DEF NoNumbers, Numbers
  <1>2. /\ NoMessage.number = NoNumbers /\ NoMessage.reserved = {}
        /\ NoMessage \in Generated
    BY <1>1 DEF NoMessage, Generated
  <1>3. QED
    BY <1>1, <1>2 DEF Distinct

LEMMA GeneratedFields ==
  ASSUME NEW md \in Generated
  PROVE  /\ md.number \in Numbers /\ \A f \in FieldNames : md.number[f] \in Nat
         /\ md.type \in [FieldNames -> Nested \cup {Scalar}]
         /\ md.reserved \subseteq Nat
         /\ Used(md) \subseteq Nat
         /\ \A n : n \in Used(md) <=> \/ n \in md.reserved
                                      \/ \E f \in FieldNames : md.number[f] # 0 /\ md.number[f] = n
  BY DEF Generated, Numbers, Used, Active

LEMMA SchemaFields ==
  ASSUME NEW s \in Schemas, NEW m \in Messages
  PROVE  /\ s.fields[m] \in Seq(FieldNames)
         /\ s.type \in [FieldNames -> Nested \cup {Scalar}]
         /\ \A i, j \in 1..Len(s.fields[m]) : s.fields[m][i] = s.fields[m][j] => i = j
  BY SchemasAssumption DEF SchemaType

\* The start of a message: nothing is numbered, and what is reserved is what was,
\* and what the fields that are gone had.
LEMMA StartTypes ==
  ASSUME NEW s \in Schemas, NEW m \in Messages, NEW md \in Generated, StartNumbering(s, m, md)
  PROVE  /\ message' = m /\ old' = md /\ number' = NoNumbers /\ next' = 1
         /\ used' = Used(md) /\ used' \in SUBSET Nat
         /\ highest' \in Nat /\ reserved' \in SUBSET Nat
         /\ \E high \in Nat : /\ \A k \in Used(md) : k <= high
                              /\ reserved' = ReservedNow(md, FieldsOf(s, m), high)
  <1>1. PICK high \in Used(md) \cup {0} :
          /\ IsHighest(high, md)
          /\ highest' = high
          /\ reserved' = ReservedNow(md, FieldsOf(s, m), high)
    BY DEF StartNumbering
  <1>2. high \in Nat /\ Used(md) \subseteq Nat /\ md.reserved \subseteq Nat
    BY GeneratedFields
  <1>3. ReservedNow(md, FieldsOf(s, m), high) \in SUBSET Nat
    BY <1>2 DEF ReservedNow
  <1>4. \A k \in Used(md) : k <= high
    BY <1>1 DEF IsHighest
  <1>5. QED
    BY <1>1, <1>2, <1>3, <1>4 DEF StartNumbering

LEMMA ReservedFacts ==
  ASSUME NEW md \in Generated, Distinct(md), NEW F \in SUBSET FieldNames, NEW high \in Nat,
         \A k \in Used(md) : k <= high
  PROVE  ReservedOf(F, md, ReservedNow(md, F, high))
  <1> DEFINE kept == {md.number[f] : f \in {g \in F : md.number[g] # 0}}
             res == ReservedNow(md, F, high)
  <1>1. \A n : n \in res <=> (n \in md.reserved \/ (n \in 1..high /\ n \notin kept)) /\ n \notin kept
    BY DEF ReservedNow
  <1>2. \A n : n \in kept <=> \E f \in F : md.number[f] # 0 /\ md.number[f] = n
    OBVIOUS
  <1> HIDE DEF res, kept
  <1>3. md.reserved \subseteq res
    BY <1>1, <1>2 DEF Distinct
  <1>4. ASSUME NEW f \in FieldNames, md.number[f] # 0
        PROVE  md.number[f] \in res <=> f \notin F
    <2>1. md.number[f] \in kept <=> f \in F
      BY <1>2, <1>4 DEF Distinct
    <2>2. md.number[f] \in Used(md) /\ md.number[f] \in Nat
      BY <1>4, GeneratedFields
    <2>3. md.number[f] \in 1..high
      BY <1>4, <2>2
    <2>4. QED
      BY <1>1, <2>1, <2>3
  <1>5. QED
    BY <1>3, <1>4 DEF ReservedOf, res

LEMMA StartNumbers ==
  ASSUME NEW s \in Schemas, NEW m \in Messages, NEW md \in Generated, Distinct(md),
         StartNumbering(s, m, md)
  PROVE  /\ NumberingOf(s.fields[m], 1, md, NoNumbers, reserved', used')
         /\ message' = m /\ old' = md /\ number' = NoNumbers /\ next' = 1
  <1>1. /\ message' = m /\ old' = md /\ number' = NoNumbers /\ next' = 1
        /\ used' = Used(md)
    BY StartTypes
  <1>2. PICK high \in Nat : /\ \A k \in Used(md) : k <= high
                            /\ reserved' = ReservedNow(md, FieldsOf(s, m), high)
    BY StartTypes
  <1>3. FieldsOf(s, m) \in SUBSET FieldNames
    BY SchemaFields DEF FieldsOf
  <1>4. ReservedOf(FieldsOf(s, m), md, reserved')
    BY <1>2, <1>3, ReservedFacts
  <1>5. FieldsOf(s, m) = {s.fields[m][k] : k \in 1..Len(s.fields[m])}
    BY DEF FieldsOf
  <1>6. \A k \in 1..Len(s.fields[m]) : ~(k < 1)
    BY SchemaFields
  <1>7. QED
    BY <1>1, <1>4, <1>5, <1>6, NoMessageFacts DEF NumberingOf

\* One more field gets its number.
LEMMA NumberOne ==
  ASSUME NEW fs \in Seq(FieldNames), \A i, j \in 1..Len(fs) : fs[i] = fs[j] => i = j,
         NEW md \in Generated, Distinct(md),
         NEW num \in Numbers, NEW res, NEW use, NEW i \in 1..Len(fs),
         NumberingOf(fs, i, md, num, res, use),
         NEW n \in Nat \ {0}, NEW more,
         \/ md.number[fs[i]] = n /\ more = use
         \/ md.number[fs[i]] = 0 /\ n \notin use \cup res /\ more = use \cup {n}
  PROVE  NumberingOf(fs, i + 1, md, [num EXCEPT ![fs[i]] = n], res, more)
  <1> DEFINE f == fs[i] new == [num EXCEPT ![f] = n]
  <1>1. f \in FieldNames /\ Len(fs) \in Nat
    OBVIOUS
  <1>2. new[f] = n /\ \A g \in FieldNames : g # f => new[g] = num[g]
    BY <1>1 DEF Numbers
  <1>3. /\ \A g \in FieldNames : num[g] # 0 <=> \E k \in 1..Len(fs) : k < i /\ fs[k] = g
        /\ \A g \in FieldNames : num[g] # 0 /\ md.number[g] # 0 => num[g] = md.number[g]
        /\ \A g \in FieldNames : num[g] # 0 /\ md.number[g] = 0 =>
             num[g] \in use /\ num[g] \notin Used(md) /\ num[g] \notin res
        /\ \A g, h \in FieldNames : num[g] # 0 /\ num[g] = num[h] => g = h
        /\ Used(md) \subseteq use
        /\ ReservedOf({fs[k] : k \in 1..Len(fs)}, md, res)
    BY DEF NumberingOf
  <1>4. \A g \in FieldNames : md.number[g] # 0 => md.number[g] \in Used(md)
    BY GeneratedFields
  <1>5. f = fs[i]
    OBVIOUS
  <1>6. use \subseteq more
    OBVIOUS
  <1> HIDE DEF new, f
  <1>7. ASSUME NEW g \in FieldNames
        PROVE  new[g] # 0 <=> \E k \in 1..Len(fs) : k < i + 1 /\ fs[k] = g
    <2>1. CASE g = f
      BY <1>1, <1>2, <1>5, <2>1
    <2>2. CASE g # f
      <3>1. \A k \in 1..Len(fs) : k < i + 1 /\ fs[k] = g <=> k < i /\ fs[k] = g
        BY <1>1, <1>5, <2>2
      <3>2. QED
        BY <1>2, <1>3, <2>2, <3>1
    <2>3. QED
      BY <2>1, <2>2
  <1>8. ASSUME NEW g \in FieldNames, new[g] # 0, md.number[g] # 0 PROVE new[g] = md.number[g]
    BY <1>2, <1>3, <1>5, <1>8
  <1>9. ASSUME NEW g \in FieldNames, new[g] # 0, md.number[g] = 0
        PROVE  new[g] \in more /\ new[g] \notin Used(md) /\ new[g] \notin res
    BY <1>2, <1>3, <1>5, <1>6, <1>9
  <1>10. \A g \in FieldNames : g # f => num[g] # n \/ num[g] = 0
    <2> SUFFICES ASSUME NEW g \in FieldNames, g # f, num[g] # 0, num[g] = n PROVE FALSE
      OBVIOUS
    <2>1. CASE md.number[f] = n
      <3>1. CASE md.number[g] # 0
        BY <1>1, <1>3, <2>1, <3>1 DEF Distinct
      <3>2. CASE md.number[g] = 0
        BY <1>1, <1>3, <1>4, <2>1, <3>2
      <3>3. QED
        BY <3>1, <3>2
    <2>2. CASE n \notin use
      BY <1>3, <1>4, <2>2
    <2>3. QED
      BY <1>5, <2>1, <2>2
  <1>11. ASSUME NEW g \in FieldNames, NEW h \in FieldNames, new[g] # 0, new[g] = new[h]
         PROVE  g = h
    BY <1>2, <1>3, <1>10, <1>11
  <1>12. Used(md) \subseteq more
    BY <1>3, <1>6
  <1>13. NumberingOf(fs, i + 1, md, new, res, more)
    BY <1>3, <1>7, <1>8, <1>9, <1>11, <1>12 DEF NumberingOf
  <1>14. QED
    BY <1>13 DEF new, f

\* A message whose fields all have their numbers succeeds the one before it.
LEMMA NumberedAll ==
  ASSUME NEW fs \in Seq(FieldNames), NEW md \in Generated, Distinct(md),
         NEW new \in Generated, NEW use, NEW i \in Nat, i > Len(fs),
         NumberingOf(fs, i, md, new.number, new.reserved, use)
  PROVE  Distinct(new) /\ Succeeds(md, new)
  <1> DEFINE num == new.number res == new.reserved F == {fs[k] : k \in 1..Len(fs)}
  <1>1. /\ \A f \in FieldNames : num[f] # 0 <=> \E k \in 1..Len(fs) : k < i /\ fs[k] = f
        /\ \A f \in FieldNames : num[f] # 0 /\ md.number[f] # 0 => num[f] = md.number[f]
        /\ \A f \in FieldNames : num[f] # 0 /\ md.number[f] = 0 =>
             num[f] \in use /\ num[f] \notin Used(md) /\ num[f] \notin res
        /\ \A f, g \in FieldNames : num[f] # 0 /\ num[f] = num[g] => f = g
        /\ md.reserved \subseteq res
        /\ \A f \in FieldNames : md.number[f] # 0 => (md.number[f] \in res <=> f \notin F)
    BY DEF NumberingOf, ReservedOf
  <1>2. \A f \in FieldNames : num[f] # 0 <=> f \in F
    <2>1. \A k \in 1..Len(fs) : k < i
      OBVIOUS
    <2>2. QED
      BY <1>1, <2>1
  <1>3. /\ \A n \in md.reserved : n \in Used(md)
        /\ \A f \in FieldNames : md.number[f] # 0 => md.number[f] \in Used(md)
    BY GeneratedFields
  <1> HIDE DEF F
  <1>4. Distinct(new)
    BY <1>1, <1>2 DEF Distinct
  <1>5. Succeeds(md, new)
    BY <1>1, <1>2, <1>3 DEF Succeeds
  <1>6. QED
    BY <1>4, <1>5
-----------------------------------------------------------------------------
LEMMA NumberedType ==
  ASSUME NumbersTypeInv, schema # None
  PROVE  /\ Numbered \in Generated
         /\ Numbered.number = number /\ Numbered.reserved = reserved
  <1>1. schema \in Schemas
    BY DEF NumbersTypeInv
  <1>2. schema.type \in [FieldNames -> Nested \cup {Scalar}]
    BY <1>1, MessageTypes, SchemaFields
  <1>3. QED
    BY <1>2 DEF NumbersTypeInv, Numbered, Generated, Numbers

\* The message of a field that is yet to be generated, and its old one.
LEMMA NestedTypes ==
  ASSUME NumbersTypeInv, NEW sheet \in Generated, NEW f \in ToNest(sheet)
  PROVE  LET oldType == FieldTypeAt(proto[Sheet], sheet.number[f])
         IN  /\ sheet.type[f] \in Messages /\ sheet.type[f] # Sheet
             /\ oldType # Scalar => oldType \in Messages
  <1>1. f \in FieldNames /\ sheet.type[f] # Scalar
    BY DEF ToNest
  <1>2. sheet.type[f] \in Nested
    BY <1>1, GeneratedFields
  <1>3. proto[Sheet] \in Generated
    BY MessageTypes DEF NumbersTypeInv
  <1> DEFINE md == proto[Sheet] n == sheet.number[f]
  <1>4. md.type \in [FieldNames -> Nested \cup {Scalar}]
    BY <1>3, GeneratedFields
  <1> HIDE DEF md, n
  <1>5. FieldTypeAt(md, n) # Scalar => FieldTypeAt(md, n) \in Nested
    <2>1. CASE \E h \in FieldNames : md.number[h] = n /\ n # 0
      <3> DEFINE h == CHOOSE h \in FieldNames : md.number[h] = n
      <3>1. h \in FieldNames
        BY <2>1
      <3>2. FieldTypeAt(md, n) = md.type[h]
        BY <2>1 DEF FieldTypeAt
      <3> HIDE DEF h
      <3>3. QED
        BY <1>4, <3>1, <3>2
    <2>2. CASE ~\E h \in FieldNames : md.number[h] = n /\ n # 0
      BY <2>2 DEF FieldTypeAt
    <2>3. QED
      BY <2>1, <2>2
  <1>6. QED
    BY <1>2, <1>5, MessageTypes DEF md, n

\* What NestMessage does, without its choices.
LEMMA NestMessageFacts ==
  ASSUME NumbersTypeInv, NestMessage
  PROVE  /\ schema # None /\ schema \in Schemas /\ next > Len(schema.fields[message])
         /\ \E m \in Messages \ {Sheet} :
              \/ StartNumbering(schema, m, NoMessage)
              \/ \E t \in Messages : StartNumbering(schema, m, proto[t])
         /\ done' = [done EXCEPT ![message] = Numbered]
         /\ ledger' = ledger \cup {<<message, number[f], f>> : f \in {g \in FieldNames : number[g] # 0}}
         /\ UNCHANGED <<proto, schema>>
  <1> DEFINE sheet == IF message = Sheet THEN Numbered ELSE done[Sheet]
  <1>1. /\ schema # None /\ schema \in Schemas /\ next > Len(schema.fields[message])
        /\ done' = [done EXCEPT ![message] = Numbered]
        /\ ledger' = ledger \cup {<<message, number[f], f>> : f \in {g \in FieldNames : number[g] # 0}}
        /\ UNCHANGED <<proto, schema>>
    BY DEF NestMessage, NumbersTypeInv
  <1>2. PICK f \in ToNest(sheet) :
          LET oldType == FieldTypeAt(proto[Sheet], sheet.number[f])
          IN StartNumbering(schema, sheet.type[f],
               IF oldType = Scalar THEN NoMessage ELSE proto[oldType])
    BY DEF NestMessage
  <1>3. sheet \in Generated
    BY <1>1, MessageTypes, NumberedType DEF NumbersTypeInv
  <1> HIDE DEF sheet
  <1> DEFINE t == FieldTypeAt(proto[Sheet], sheet.number[f]) m == sheet.type[f]
  <1>4. m \in Messages \ {Sheet} /\ (t # Scalar => t \in Messages)
    BY <1>3, NestedTypes
  <1>5. StartNumbering(schema, m, IF t = Scalar THEN NoMessage ELSE proto[t])
    BY <1>2
  <1> HIDE DEF t, m
  <1>6. StartNumbering(schema, m, NoMessage) \/ (t \in Messages /\ StartNumbering(schema, m, proto[t]))
    <2>1. CASE t = Scalar
      BY <1>5, <2>1
    <2>2. CASE t # Scalar
      BY <1>4, <1>5, <2>2
    <2>3. QED
      BY <2>1, <2>2
  <1>7. QED
    BY <1>1, <1>4, <1>6

LEMMA LedgerTypes ==
  ASSUME NumbersTypeInv
  PROVE  ledger \cup {<<message, number[f], f>> : f \in {g \in FieldNames : number[g] # 0}}
           \subseteq Messages \X Nat \X FieldNames
  BY DEF NumbersTypeInv, Numbers

LEMMA AssignNumberFacts ==
  ASSUME NumbersTypeInv, AssignNumber
  PROVE  LET f == schema.fields[message][next]
         IN  /\ schema # None /\ schema \in Schemas /\ next \in 1..Len(schema.fields[message])
             /\ f \in FieldNames
             /\ \E n \in Nat \ {0} :
                  /\ number' = [number EXCEPT ![f] = n]
                  /\ \/ old.number[f] = n /\ used' = used /\ highest' = highest
                     \/ /\ old.number[f] = 0 /\ n \notin used \cup reserved
                        /\ used' = used \cup {n} /\ highest' = n
             /\ next' = next + 1
             /\ UNCHANGED <<proto, schema, message, old, reserved, done, ledger>>
  <1> DEFINE f == schema.fields[message][next]
  <1>1. /\ schema # None /\ schema \in Schemas /\ next <= Len(schema.fields[message])
        /\ next \in Nat \ {0} /\ message \in Messages
    BY DEF AssignNumber, NumbersTypeInv
  <1>2. schema.fields[message] \in Seq(FieldNames)
    BY <1>1, SchemaFields
  <1>3. next \in 1..Len(schema.fields[message]) /\ f \in FieldNames
    BY <1>1, <1>2
  <1>4. old.number[f] \in Nat
    BY <1>3, GeneratedFields DEF NumbersTypeInv
  <1>5. /\ next' = next + 1
        /\ UNCHANGED <<proto, schema, message, old, reserved, done, ledger>>
        /\ \/ /\ old.number[f] # 0
              /\ number' = [number EXCEPT ![f] = old.number[f]]
              /\ UNCHANGED <<used, highest>>
           \/ /\ old.number[f] = 0
              /\ \E n \in 1..MaxNumber :
                   /\ n > highest /\ n \notin used \cup reserved
                   /\ number' = [number EXCEPT ![f] = n]
                   /\ used' = used \cup {n}
                   /\ highest' = n
    BY DEF AssignNumber
  <1> HIDE DEF f
  <1>6. \A n \in 1..MaxNumber : n \in Nat \ {0}
    BY NumberBoundsAssumption
  <1>7. \E n \in Nat \ {0} :
          /\ number' = [number EXCEPT ![f] = n]
          /\ \/ old.number[f] = n /\ used' = used /\ highest' = highest
             \/ /\ old.number[f] = 0 /\ n \notin used \cup reserved
                /\ used' = used \cup {n} /\ highest' = n
    BY <1>4, <1>5, <1>6
  <1>8. QED
    BY <1>1, <1>3, <1>5, <1>7 DEF f

LEMMA NumbersTypeInit == InitNumbers => NumbersTypeInv
  BY MessageTypes, NoMessageFacts DEF InitNumbers, NumbersTypeInv

LEMMA NumbersTypeStep ==
  ASSUME NumbersTypeInv, [NextNumbers]_numberVars
  PROVE  NumbersTypeInv'
  <1>1. CASE UNCHANGED numberVars
    BY <1>1 DEF numberVars, building, NumbersTypeInv
  <1>2. ASSUME NEW s \in Schemas, Generate(s) PROVE NumbersTypeInv'
    <2>1. /\ schema' = s /\ done' = [m \in Messages |-> NoMessage]
          /\ StartNumbering(s, Sheet, proto[Sheet]) /\ UNCHANGED <<proto, ledger>>
      BY <1>2 DEF Generate
    <2>2. proto[Sheet] \in Generated
      BY MessageTypes DEF NumbersTypeInv
    <2>3. QED
      BY <2>1, <2>2, MessageTypes, StartTypes, NoMessageFacts DEF NumbersTypeInv
  <1>3. ASSUME RemoveSheet PROVE NumbersTypeInv'
    BY <1>3, NoMessageFacts DEF RemoveSheet, NumbersTypeInv, building
  <1>4. ASSUME AssignNumber PROVE NumbersTypeInv'
    <2> DEFINE f == schema.fields[message][next]
    <2>1. PICK n \in Nat \ {0} :
            /\ number' = [number EXCEPT ![f] = n]
            /\ used' = used \/ used' = used \cup {n}
            /\ highest' = highest \/ highest' = n
      BY <1>4, AssignNumberFacts
    <2>2. /\ next' = next + 1
          /\ UNCHANGED <<proto, schema, message, old, reserved, done, ledger>>
      BY <1>4, AssignNumberFacts
    <2>3. number' \in Numbers
      BY <2>1 DEF NumbersTypeInv, Numbers
    <2>4. used' \in SUBSET Nat /\ highest' \in Nat /\ next' \in Nat \ {0}
      <3>1. used \in SUBSET Nat /\ highest \in Nat /\ next \in Nat \ {0}
        BY DEF NumbersTypeInv
      <3>2. used' \in SUBSET Nat
        BY <2>1, <3>1
      <3>3. highest' \in Nat /\ next' \in Nat \ {0}
        BY <2>1, <2>2, <3>1
      <3>4. QED
        BY <3>2, <3>3
    <2>5. QED
      BY <2>2, <2>3, <2>4 DEF NumbersTypeInv
  <1>5. ASSUME NestMessage PROVE NumbersTypeInv'
    <2>1. /\ schema # None /\ schema \in Schemas
          /\ done' = [done EXCEPT ![message] = Numbered]
          /\ ledger' = ledger \cup {<<message, number[f], f>> : f \in {g \in FieldNames : number[g] # 0}}
          /\ UNCHANGED <<proto, schema>>
      BY <1>5, NestMessageFacts
    <2>2. PICK m \in Messages \ {Sheet} :
            \/ StartNumbering(schema, m, NoMessage)
            \/ \E t \in Messages : StartNumbering(schema, m, proto[t])
      BY <1>5, NestMessageFacts
    <2>3. PICK md \in Generated : StartNumbering(schema, m, md)
      BY <2>2, NoMessageFacts DEF NumbersTypeInv
    <2>4. /\ message' = m /\ old' = md /\ number' = NoNumbers /\ next' = 1
          /\ used' \in SUBSET Nat /\ highest' \in Nat /\ reserved' \in SUBSET Nat
      BY <2>1, <2>3, StartTypes
    <2>5. done' \in [Messages -> Generated]
      BY <2>1, NumberedType DEF NumbersTypeInv
    <2>6. ledger' \subseteq Messages \X Nat \X FieldNames
      BY <2>1, LedgerTypes
    <2>7. QED
      BY <2>1, <2>4, <2>5, <2>6, NoMessageFacts DEF NumbersTypeInv
  <1>6. ASSUME WriteProto PROVE NumbersTypeInv'
    <2>1. /\ proto' = [done EXCEPT ![message] = Numbered] /\ schema # None /\ schema' = None
          /\ ledger' = ledger \cup {<<message, number[f], f>> : f \in {g \in FieldNames : number[g] # 0}}
          /\ UNCHANGED <<done, building>>
      BY <1>6 DEF WriteProto
    <2>2. proto' \in [Messages -> Generated]
      BY <2>1, NumberedType DEF NumbersTypeInv
    <2>3. ledger' \subseteq Messages \X Nat \X FieldNames
      BY <2>1, LedgerTypes
    <2>4. QED
      BY <2>1, <2>2, <2>3 DEF NumbersTypeInv, building
  <1>7. QED
    BY <1>1, <1>2, <1>3, <1>4, <1>5, <1>6 DEF NextNumbers

\* In every reachable state a message has numbers, types and reserved numbers.
THEOREM NumbersTypeCorrect == SpecNumbers => []NumbersTypeInv
  BY NumbersTypeInit, NumbersTypeStep, PTL DEF SpecNumbers
-----------------------------------------------------------------------------
LEMMA NumbersInit == InitNumbers => NumbersInv
  BY NoMessageFacts DEF InitNumbers, NumbersInv

\* The message that is done when all its fields are numbered.
LEMMA NumberedFacts ==
  ASSUME NumbersTypeInv, NumbersInv, schema # None, next > Len(schema.fields[message])
  PROVE  Distinct(Numbered) /\ Succeeds(old, Numbered)
  <1>1. schema \in Schemas /\ message \in Messages /\ next \in Nat /\ old \in Generated
    BY DEF NumbersTypeInv
  <1>2. schema.fields[message] \in Seq(FieldNames)
    BY <1>1, SchemaFields
  <1>3. /\ Distinct(old)
        /\ NumberingOf(schema.fields[message], next, old, number, reserved, used)
    BY DEF NumbersInv
  <1>4. /\ Numbered \in Generated
        /\ NumberingOf(schema.fields[message], next, old, Numbered.number, Numbered.reserved, used)
    BY <1>3, NumberedType
  <1>5. QED
    BY <1>1, <1>2, <1>3, <1>4, NumberedAll

\* The sheet's message, when the last message but those to be nested is numbered.
LEMMA SheetFacts ==
  ASSUME NumbersTypeInv, NumbersInv, schema # None, next > Len(schema.fields[message]),
         NEW new, new = [done EXCEPT ![message] = Numbered]
  PROVE  /\ \A m \in Messages : Distinct(new[m])
         /\ Succeeds(proto[Sheet], new[Sheet])
         /\ message = Sheet => new[Sheet] = Numbered
         /\ message # Sheet => new[Sheet] = done[Sheet]
  <1>1. \A m \in Messages : new[m] = IF m = message THEN Numbered ELSE done[m]
    BY DEF NumbersTypeInv
  <1>2. Distinct(Numbered) /\ Succeeds(old, Numbered)
    BY NumberedFacts
  <1>3. QED
    BY <1>1, <1>2, MessageTypes DEF NumbersInv

LEMMA NumbersStep ==
  ASSUME NumbersTypeInv, NumbersInv, [NextNumbers]_numberVars
  PROVE  NumbersInv'
  <1>1. CASE UNCHANGED numberVars
    BY <1>1 DEF numberVars, building, NumbersInv
  <1>2. ASSUME NEW s \in Schemas, Generate(s) PROVE NumbersInv'
    <2>1. /\ schema' = s /\ done' = [m \in Messages |-> NoMessage]
          /\ StartNumbering(s, Sheet, proto[Sheet]) /\ proto' = proto
      BY <1>2 DEF Generate
    <2>2. proto[Sheet] \in Generated /\ Distinct(proto[Sheet])
      BY MessageTypes DEF NumbersTypeInv, NumbersInv
    <2>3. /\ NumberingOf(s.fields[Sheet], 1, proto[Sheet], NoNumbers, reserved', used')
          /\ message' = Sheet /\ old' = proto[Sheet] /\ number' = NoNumbers /\ next' = 1
      BY <2>1, <2>2, MessageTypes, StartNumbers
    <2>4. \A m \in Messages : Distinct(proto'[m]) /\ Distinct(done'[m])
      BY <2>1, NoMessageFacts DEF NumbersInv
    <2>5. QED
      BY <2>1, <2>2, <2>3, <2>4 DEF NumbersInv
  <1>3. ASSUME RemoveSheet PROVE NumbersInv'
    BY <1>3, NoMessageFacts DEF RemoveSheet, NumbersInv
  <1>4. ASSUME AssignNumber PROVE NumbersInv'
    <2> DEFINE fs == schema.fields[message]
    <2>1. PICK n \in Nat \ {0} :
            /\ number' = [number EXCEPT ![fs[next]] = n]
            /\ \/ old.number[fs[next]] = n /\ used' = used
               \/ /\ old.number[fs[next]] = 0 /\ n \notin used \cup reserved
                  /\ used' = used \cup {n}
      BY <1>4, AssignNumberFacts
    <2>2. /\ schema # None /\ schema \in Schemas /\ next \in 1..Len(fs) /\ next' = next + 1
          /\ UNCHANGED <<proto, schema, message, old, reserved, done>>
      BY <1>4, AssignNumberFacts
    <2>3. /\ fs \in Seq(FieldNames) /\ \A i, j \in 1..Len(fs) : fs[i] = fs[j] => i = j
          /\ old \in Generated /\ number \in Numbers
      BY <2>2, SchemaFields DEF NumbersTypeInv
    <2>4. Distinct(old) /\ NumberingOf(fs, next, old, number, reserved, used)
      BY <2>2 DEF NumbersInv
    <2> HIDE DEF fs
    <2>5. NumberingOf(fs, next + 1, old, number', reserved, used')
      BY <2>1, <2>2, <2>3, <2>4, NumberOne
    <2>6. NumberingOf(fs, next', old', number', reserved', used')
      BY <2>2, <2>5
    <2>7. fs = schema'.fields[message']
      BY <2>2 DEF fs
    <2>8. QED
      BY <2>2, <2>4, <2>6, <2>7 DEF NumbersInv
  <1>5. ASSUME NestMessage PROVE NumbersInv'
    <2>1. /\ schema # None /\ schema \in Schemas /\ next > Len(schema.fields[message])
          /\ done' = [done EXCEPT ![message] = Numbered]
          /\ UNCHANGED <<proto, schema>>
      BY <1>5, NestMessageFacts
    <2>2. PICK m \in Messages \ {Sheet} :
            \/ StartNumbering(schema, m, NoMessage)
            \/ \E t \in Messages : StartNumbering(schema, m, proto[t])
      BY <1>5, NestMessageFacts
    <2>3. PICK md \in Generated : Distinct(md) /\ StartNumbering(schema, m, md)
      BY <2>2, NoMessageFacts DEF NumbersTypeInv, NumbersInv
    <2>4. /\ NumberingOf(schema.fields[m], 1, md, NoNumbers, reserved', used')
          /\ message' = m /\ old' = md /\ number' = NoNumbers /\ next' = 1
      BY <2>1, <2>3, StartNumbers
    <2>5. /\ \A p \in Messages : Distinct(done'[p])
          /\ Succeeds(proto[Sheet], done'[Sheet])
      BY <2>1, SheetFacts
    <2>6. QED
      BY <2>1, <2>3, <2>4, <2>5 DEF NumbersInv
  <1>6. ASSUME WriteProto PROVE NumbersInv'
    <2>1. /\ proto' = [done EXCEPT ![message] = Numbered] /\ schema # None /\ schema' = None
          /\ next > Len(schema.fields[message]) /\ done' = done
      BY <1>6 DEF WriteProto
    <2>2. \A m \in Messages : Distinct(proto'[m])
      BY <2>1, SheetFacts
    <2>3. QED
      BY <2>1, <2>2 DEF NumbersInv
  <1>7. QED
    BY <1>1, <1>2, <1>3, <1>4, <1>5, <1>6 DEF NextNumbers

\* exporter.go, assignFieldNumbers: whatever the columns become, the fields of a
\* message that is written have numbers of their own, none of which is reserved.
THEOREM NumbersAreDistinct == SpecNumbers => [](\A m \in Messages : Distinct(proto[m]))
  <1>1. NumbersInv => \A m \in Messages : Distinct(proto[m])
    BY DEF NumbersInv
  <1>2. QED
    BY <1>1, NumbersTypeInit, NumbersTypeStep, NumbersInit, NumbersStep, PTL DEF SpecNumbers
-----------------------------------------------------------------------------
\* exporter.go, assignFieldNumbers: over any number of generations, with columns
\* added, dropped and reordered, the message of the sheet keeps what NumberLedger
\* promises: a field that stays keeps its number, and no number is given twice.
THEOREM NumbersImplementLedger == SpecNumbers => ImplementsLedger
  <1>1. InitNumbers => Ledger!Init
    BY MessageTypes DEF InitNumbers, Ledger!Init, NoMessage, NoNumbers
  <1>2. ASSUME NumbersTypeInv, NumbersInv, NextNumbers
        PROVE  Ledger!Next \/ UNCHANGED <<proto[Sheet].number, proto[Sheet].reserved>>
    <2>1. ASSUME proto' = proto PROVE UNCHANGED <<proto[Sheet].number, proto[Sheet].reserved>>
      BY <2>1
    <2>2. ASSUME NEW s \in Schemas, Generate(s) PROVE proto' = proto
      BY <2>2 DEF Generate
    <2>3. ASSUME RemoveSheet PROVE Ledger!Forget
      BY <2>3, MessageTypes DEF RemoveSheet, Ledger!Forget, NoMessage, NoNumbers
    <2>4. ASSUME AssignNumber \/ NestMessage PROVE proto' = proto
      BY <2>4 DEF AssignNumber, NestMessage
    <2>5. ASSUME WriteProto PROVE Ledger!Evolve
      <3>1. /\ proto' = [done EXCEPT ![message] = Numbered] /\ schema # None
            /\ next > Len(schema.fields[message])
        BY <2>5 DEF WriteProto
      <3>2. Distinct(proto'[Sheet]) /\ Succeeds(proto[Sheet], proto'[Sheet])
        BY <1>2, <3>1, SheetFacts, MessageTypes
      <3>3. proto[Sheet] \in Generated /\ proto'[Sheet] \in Generated
        BY <1>2, NumbersTypeStep, MessageTypes DEF NumbersTypeInv
      <3>4. proto'[Sheet].number \in [FieldNames -> Nat]
        BY <3>3, GeneratedFields DEF Numbers
      <3>5. QED
        BY <3>2, <3>4 DEF Ledger!Evolve, Ledger!Present, Distinct, Succeeds
    <2>6. QED
      BY <1>2, <2>1, <2>2, <2>3, <2>4, <2>5 DEF NextNumbers, Ledger!Next
  <1>3. ASSUME UNCHANGED numberVars PROVE UNCHANGED <<proto[Sheet].number, proto[Sheet].reserved>>
    BY <1>3 DEF numberVars
  <1>4. QED
    BY <1>1, <1>2, <1>3, NumbersTypeInit, NumbersTypeStep, NumbersInit, NumbersStep, PTL
       DEF SpecNumbers, ImplementsLedger, Ledger!Spec
-----------------------------------------------------------------------------
\* No number of the sheet's message was given to two names.
Functional(entries) ==
  \A a, b \in entries : a[1] = Sheet /\ b[1] = Sheet /\ a[2] = b[2] => a[3] = b[3]

\* The numbers of the next generation go into the ledger.
LEMMA LedgerGrows ==
  ASSUME NEW md \in Generated, NEW new \in Generated, Distinct(new), Succeeds(md, new),
         NEW entries, entries \subseteq Messages \X Nat \X FieldNames,
         LedgerOf(md, entries), Functional(entries),
         NEW more,
         \A a \in more : \E f \in FieldNames : a = <<Sheet, new.number[f], f>> /\ new.number[f] # 0
  PROVE  LedgerOf(new, entries \cup more) /\ Functional(entries \cup more)
  <1>1. \A a \in entries : a[2] \in Nat /\ a[3] \in FieldNames
    OBVIOUS
  <1>2. \A a \in more : /\ a[1] = Sheet /\ a[3] \in FieldNames
                        /\ a[2] = new.number[a[3]] /\ a[2] # 0
    OBVIOUS
  <1>3. ASSUME NEW a \in entries, a[1] = Sheet
        PROVE  a[2] # 0 /\ (new.number[a[3]] = a[2] \/ a[2] \in new.reserved)
    <2>1. a[2] # 0 /\ a[3] \in FieldNames /\ (md.number[a[3]] = a[2] \/ a[2] \in md.reserved)
      BY <1>1, <1>3 DEF LedgerOf
    <2>2. CASE a[2] \in md.reserved
      BY <2>1, <2>2 DEF Succeeds
    <2>3. CASE md.number[a[3]] = a[2]
      BY <2>1, <2>3 DEF Succeeds
    <2>4. QED
      BY <2>1, <2>2, <2>3
  <1>4. LedgerOf(new, entries \cup more)
    BY <1>2, <1>3 DEF LedgerOf
  \* an entry that is there and a new one with its number are of one name
  <1>5. ASSUME NEW a \in entries, a[1] = Sheet, NEW b \in more, a[2] = b[2] PROVE a[3] = b[3]
    <2>1. a[3] \in FieldNames /\ (new.number[a[3]] = a[2] \/ a[2] \in new.reserved)
      BY <1>1, <1>3, <1>5
    <2>2. b[3] \in FieldNames /\ b[2] = new.number[b[3]] /\ b[2] # 0
      BY <1>2
    <2>3. QED
      BY <1>5, <2>1, <2>2 DEF Distinct
  <1>6. ASSUME NEW a \in more, NEW b \in more, a[2] = b[2] PROVE a[3] = b[3]
    BY <1>2, <1>6 DEF Distinct
  <1>7. Functional(entries \cup more)
    BY <1>5, <1>6 DEF Functional
  <1>8. QED
    BY <1>4, <1>7

LEMMA OtherEntries ==
  ASSUME NEW md, NEW entries, LedgerOf(md, entries), Functional(entries),
         NEW more, \A a \in more : a[1] # Sheet
  PROVE  LedgerOf(md, entries \cup more) /\ Functional(entries \cup more)
  BY DEF LedgerOf, Functional

\* When a message is done, its numbers go into the ledger.
LEMMA LedgerOfDone ==
  ASSUME NumbersTypeInv, NumbersInv, LedgerInv, schema # None, next > Len(schema.fields[message]),
         NEW new, new = [done EXCEPT ![message] = Numbered],
         NEW entries,
         entries = ledger \cup {<<message, number[f], f>> : f \in {g \in FieldNames : number[g] # 0}}
  PROVE  LedgerOf(new[Sheet], entries) /\ Functional(entries)
  <1> DEFINE more == {<<message, number[f], f>> : f \in {g \in FieldNames : number[g] # 0}}
  <1>1. LedgerOf(Latest, ledger) /\ Functional(ledger)
    BY DEF LedgerInv, NumbersKeepMeaning, Functional
  <1>2. ledger \subseteq Messages \X Nat \X FieldNames
    BY DEF NumbersTypeInv
  <1>3. \A a \in more : \E f \in FieldNames : a = <<message, number[f], f>> /\ number[f] # 0
    OBVIOUS
  <1>4. entries = ledger \cup more
    OBVIOUS
  <1> HIDE DEF more
  <1>5. CASE message = Sheet
    <2>1. Latest = proto[Sheet] /\ new[Sheet] = Numbered
      BY <1>5, SheetFacts DEF Latest
    <2>2. /\ Distinct(Numbered) /\ Succeeds(proto[Sheet], Numbered)
          /\ Numbered \in Generated /\ Numbered.number = number
          /\ proto[Sheet] \in Generated
      BY <1>5, NumberedFacts, NumberedType, MessageTypes DEF NumbersInv, NumbersTypeInv
    <2>3. \A a \in more : \E f \in FieldNames :
            a = <<Sheet, Numbered.number[f], f>> /\ Numbered.number[f] # 0
      BY <1>3, <1>5, <2>2
    <2>4. LedgerOf(Numbered, ledger \cup more) /\ Functional(ledger \cup more)
      BY <1>1, <1>2, <2>1, <2>2, <2>3, LedgerGrows
    <2>5. QED
      BY <1>4, <2>1, <2>4
  <1>6. CASE message # Sheet
    <2>1. Latest = done[Sheet] /\ new[Sheet] = done[Sheet]
      BY <1>6, SheetFacts DEF Latest
    <2>2. \A a \in more : a[1] # Sheet
      BY <1>3, <1>6
    <2>3. LedgerOf(done[Sheet], ledger) /\ Functional(ledger)
      BY <1>1, <2>1
    <2>4. LedgerOf(done[Sheet], ledger \cup more) /\ Functional(ledger \cup more)
      BY <2>2, <2>3, OtherEntries
    <2>5. QED
      BY <1>4, <2>1, <2>4
  <1>7. QED
    BY <1>5, <1>6

LEMMA LedgerStep ==
  ASSUME NumbersTypeInv, NumbersInv, LedgerInv, [NextNumbers]_numberVars
  PROVE  LedgerInv'
  <1>1. CASE UNCHANGED numberVars
    BY <1>1 DEF numberVars, building, LedgerInv, Latest, NumbersKeepMeaning
  <1>2. ASSUME NEW s \in Schemas, Generate(s) PROVE LedgerInv'
    <2>1. Latest' = Latest /\ ledger' = ledger
      BY <1>2 DEF Generate, StartNumbering, Latest
    <2>2. QED
      BY <2>1 DEF LedgerInv, NumbersKeepMeaning
  <1>3. ASSUME RemoveSheet PROVE LedgerInv'
    BY <1>3 DEF RemoveSheet, LedgerInv, LedgerOf, NumbersKeepMeaning
  <1>4. ASSUME AssignNumber PROVE LedgerInv'
    BY <1>4 DEF AssignNumber, LedgerInv, Latest, NumbersKeepMeaning
  <1>5. ASSUME NestMessage PROVE LedgerInv'
    <2>1. /\ schema # None /\ schema \in Schemas /\ next > Len(schema.fields[message])
          /\ done' = [done EXCEPT ![message] = Numbered]
          /\ ledger' = ledger \cup {<<message, number[f], f>> : f \in {g \in FieldNames : number[g] # 0}}
          /\ schema' = schema
      BY <1>5, NestMessageFacts
    <2>2. message' # Sheet
      <3>1. PICK m \in Messages \ {Sheet} :
              \/ StartNumbering(schema, m, NoMessage)
              \/ \E t \in Messages : StartNumbering(schema, m, proto[t])
        BY <1>5, NestMessageFacts
      <3>2. QED
        BY <3>1 DEF StartNumbering
    <2>3. LedgerOf(done'[Sheet], ledger') /\ Functional(ledger')
      BY <2>1, LedgerOfDone
    <2>4. QED
      BY <2>1, <2>2, <2>3 DEF LedgerInv, Latest, NumbersKeepMeaning, Functional
  <1>6. ASSUME WriteProto PROVE LedgerInv'
    <2>1. /\ proto' = [done EXCEPT ![message] = Numbered] /\ schema # None /\ schema' = None
          /\ next > Len(schema.fields[message])
          /\ ledger' = ledger \cup {<<message, number[f], f>> : f \in {g \in FieldNames : number[g] # 0}}
      BY <1>6 DEF WriteProto
    <2>2. LedgerOf(proto'[Sheet], ledger') /\ Functional(ledger')
      BY <2>1, LedgerOfDone
    <2>3. QED
      BY <2>1, <2>2 DEF LedgerInv, Latest, NumbersKeepMeaning, Functional
  <1>7. QED
    BY <1>1, <1>2, <1>3, <1>4, <1>5, <1>6 DEF NextNumbers

\* exporter.go, assignFieldNumbers: over any number of generations no number of
\* the sheet's message is ever given to two names, so that data of an older
\* generation is never read as another field.
THEOREM MeaningKept == SpecNumbers => []NumbersKeepMeaning
  <1>1. InitNumbers => LedgerInv
    BY DEF InitNumbers, LedgerInv, LedgerOf, NumbersKeepMeaning
  <1>2. LedgerInv => NumbersKeepMeaning
    BY DEF LedgerInv
  <1>3. QED
    BY <1>1, <1>2, NumbersTypeInit, NumbersTypeStep, NumbersInit, NumbersStep, LedgerStep, PTL DEF SpecNumbers
-----------------------------------------------------------------------------
\* No two fields of the sheet have one nested message.
Unshared(s) ==
  \A f, g \in FieldsOf(s, Sheet) : s.type[f] = s.type[g] /\ s.type[f] # Scalar => f = g

\* The fields of a message that stay keep their numbers.
Kept(md, new) ==
  \A f \in FieldNames : md.number[f] # 0 /\ new.number[f] # 0 => new.number[f] = md.number[f]

\* The old message of the nested message of a field with number n.
OldOf(n) == LET t == FieldTypeAt(proto[Sheet], n) IN IF t = Scalar THEN NoMessage ELSE proto[t]

\* The message that is being numbered is nested, of a field of the sheet, and is
\* numbered from that field's old one.
OfField ==
  \E f \in FieldNames : /\ done[Sheet].number[f] # 0
                        /\ schema.type[f] = message
                        /\ old = OldOf(done[Sheet].number[f])

\* The message new is the nested one of a field of the sheet, and keeps its numbers.
KeptSince(sheet, t, new) ==
  \E f \in FieldNames : /\ sheet.number[f] # 0
                        /\ schema.type[f] = t
                        /\ Kept(OldOf(sheet.number[f]), new)

\* Only a field that has a number has a type.
TypedHaveNumbers(md) == \A f \in FieldNames : md.type[f] # Scalar => md.number[f] # 0

\* The sheet's message has the columns' fields with the columns' types.
OfSchema(md) ==
  \A f \in FieldNames : md.number[f] # 0 => f \in FieldsOf(schema, Sheet) /\ md.type[f] = schema.type[f]

NestedInv ==
  /\ TypedHaveNumbers(proto[Sheet])
  /\ schema # None =>
       IF message = Sheet
       THEN \A t \in Nested : done[t] = NoMessage
       ELSE /\ TypedHaveNumbers(done[Sheet]) /\ OfSchema(done[Sheet])
            /\ OfField
            /\ \A t \in Nested : done[t] # NoMessage => KeptSince(done[Sheet], t, done[t])

\* What a finished message of the sheet has.
LEMMA NumberedSheet ==
  ASSUME NumbersTypeInv, NumbersInv, schema # None, message = Sheet
  PROVE  TypedHaveNumbers(Numbered) /\ OfSchema(Numbered)
  <1>1. /\ schema \in Schemas /\ Sheet \in Messages
        /\ NumberingOf(schema.fields[Sheet], next, old, number, reserved, used)
    BY MessageTypes DEF NumbersTypeInv, NumbersInv
  <1>2. ASSUME NEW f \in FieldNames, number[f] # 0 PROVE f \in FieldsOf(schema, Sheet)
    BY <1>1, <1>2 DEF NumberingOf, FieldsOf
  <1>3. /\ Numbered.number = number
        /\ \A f \in FieldNames : Numbered.type[f] = IF number[f] # 0 THEN schema.type[f] ELSE Scalar
    BY DEF Numbered
  <1>4. QED
    BY <1>2, <1>3 DEF TypedHaveNumbers, OfSchema

LEMMA NumberedKept ==
  ASSUME NumbersTypeInv, NumbersInv, schema # None, next > Len(schema.fields[message])
  PROVE  Kept(old, Numbered)
  BY NumberedFacts DEF Succeeds, Kept

\* What is done when the message that is being numbered is.
LEMMA DoneFacts ==
  ASSUME NumbersTypeInv, NumbersInv, NestedInv, schema # None,
         next > Len(schema.fields[message]),
         NEW new, new = [done EXCEPT ![message] = Numbered]
  PROVE  /\ TypedHaveNumbers(new[Sheet]) /\ OfSchema(new[Sheet])
         /\ \A t \in Nested : new[t] # NoMessage => KeptSince(new[Sheet], t, new[t])
  <1>1. \A m \in Messages : new[m] = IF m = message THEN Numbered ELSE done[m]
    BY DEF NumbersTypeInv
  <1>2. CASE message = Sheet
    <2>1. new[Sheet] = Numbered /\ \A t \in Nested : new[t] = NoMessage
      BY <1>1, <1>2, MessageTypes DEF NestedInv
    <2>2. QED
      BY <1>2, <2>1, NumberedSheet
  <1>3. CASE message # Sheet
    <2>1. new[Sheet] = done[Sheet]
      BY <1>1, <1>3, MessageTypes
    <2>2. /\ TypedHaveNumbers(done[Sheet]) /\ OfSchema(done[Sheet])
          /\ OfField
          /\ \A t \in Nested : done[t] # NoMessage => KeptSince(done[Sheet], t, done[t])
      BY <1>3 DEF NestedInv
    <2>3. ASSUME NEW t \in Nested, new[t] # NoMessage
          PROVE  KeptSince(done[Sheet], t, new[t])
      <3>1. CASE t = message
        BY <1>1, <2>2, <3>1, NumberedKept, MessageTypes DEF OfField, KeptSince
      <3>2. CASE t # message
        BY <1>1, <2>2, <2>3, <3>2, MessageTypes
      <3>3. QED
        BY <3>1, <3>2
    <2>4. QED
      BY <2>1, <2>2, <2>3
  <1>4. QED
    BY <1>2, <1>3

\* What NestMessage begins with.
LEMMA NestMessageOld ==
  ASSUME NumbersTypeInv, NestMessage
  PROVE  /\ schema # None /\ schema' = schema /\ proto' = proto
         /\ next > Len(schema.fields[message])
         /\ done' = [done EXCEPT ![message] = Numbered]
         /\ \E f \in FieldNames :
              /\ done'[Sheet].number[f] # 0 /\ done'[Sheet].type[f] # Scalar
              /\ message' = done'[Sheet].type[f] /\ message' # Sheet
              /\ old' = OldOf(done'[Sheet].number[f])
  <1> DEFINE sheet == IF message = Sheet THEN Numbered ELSE done[Sheet]
  <1>1. /\ schema # None /\ schema' = schema /\ proto' = proto
        /\ next > Len(schema.fields[message])
        /\ done' = [done EXCEPT ![message] = Numbered]
    BY DEF NestMessage
  <1>2. PICK f \in ToNest(sheet) :
          StartNumbering(schema, sheet.type[f], OldOf(sheet.number[f]))
    BY DEF NestMessage, OldOf
  <1>3. sheet \in Generated
    BY <1>1, NumberedType, MessageTypes DEF NumbersTypeInv
  <1>4. done'[Sheet] = sheet
    BY <1>1, MessageTypes DEF NumbersTypeInv
  <1> HIDE DEF sheet
  <1>5. f \in FieldNames /\ sheet.number[f] # 0 /\ sheet.type[f] # Scalar
    BY DEF ToNest
  <1>6. sheet.type[f] # Sheet
    BY <1>3, NestedTypes
  <1>7. message' = sheet.type[f] /\ old' = OldOf(sheet.number[f])
    BY <1>2 DEF StartNumbering
  <1>8. QED
    BY <1>1, <1>4, <1>5, <1>6, <1>7

LEMMA NestedInit == InitNumbers => NestedInv
  BY MessageTypes DEF InitNumbers, NestedInv, TypedHaveNumbers, NoMessage

LEMMA NestedStep ==
  ASSUME NumbersTypeInv, NumbersInv, NestedInv, [NextNumbers]_numberVars
  PROVE  NestedInv'
  <1>1. CASE UNCHANGED numberVars
    BY <1>1 DEF numberVars, building, NestedInv, OfField, KeptSince, OldOf, OfSchema
  <1>2. ASSUME NEW s \in Schemas, Generate(s) PROVE NestedInv'
    <2>1. /\ proto' = proto /\ message' = Sheet /\ done' = [m \in Messages |-> NoMessage]
      BY <1>2 DEF Generate, StartNumbering
    <2>2. QED
      BY <2>1, MessageTypes DEF NestedInv
  <1>3. ASSUME RemoveSheet PROVE NestedInv'
    <2>1. schema' = None /\ proto'[Sheet] = NoMessage
      BY <1>3, MessageTypes DEF RemoveSheet
    <2>2. TypedHaveNumbers(NoMessage)
      BY DEF TypedHaveNumbers, NoMessage
    <2>3. QED
      BY <2>1, <2>2 DEF NestedInv
  <1>4. ASSUME AssignNumber PROVE NestedInv'
    <2>1. UNCHANGED <<proto, schema, message, old, done>>
      BY <1>4 DEF AssignNumber
    <2>2. QED
      BY <2>1 DEF NestedInv, OfField, KeptSince, OldOf, OfSchema
  <1>5. ASSUME NestMessage PROVE NestedInv'
    <2>1. /\ schema # None /\ schema' = schema /\ proto' = proto
          /\ next > Len(schema.fields[message])
          /\ done' = [done EXCEPT ![message] = Numbered]
      BY <1>5, NestMessageOld
    <2>2. PICK f \in FieldNames :
            /\ done'[Sheet].number[f] # 0 /\ done'[Sheet].type[f] # Scalar
            /\ message' = done'[Sheet].type[f] /\ message' # Sheet
            /\ old' = OldOf(done'[Sheet].number[f])
      BY <1>5, NestMessageOld
    <2>3. /\ TypedHaveNumbers(done'[Sheet]) /\ OfSchema(done'[Sheet])
          /\ \A t \in Nested : done'[t] # NoMessage => KeptSince(done'[Sheet], t, done'[t])
      BY <2>1, DoneFacts
    <2>4. OfSchema(done[Sheet])' /\ OfField'
      BY <2>1, <2>2, <2>3 DEF OfSchema, OfField, OldOf
    <2>5. ASSUME NEW t \in Nested, done'[t] # NoMessage
          PROVE  KeptSince(done[Sheet], t, done[t])'
      BY <2>1, <2>3, <2>5 DEF KeptSince, OldOf
    <2>6. QED
      BY <2>1, <2>2, <2>3, <2>4, <2>5 DEF NestedInv
  <1>6. ASSUME WriteProto PROVE NestedInv'
    <2>1. /\ proto' = [done EXCEPT ![message] = Numbered] /\ schema # None /\ schema' = None
          /\ next > Len(schema.fields[message])
      BY <1>6 DEF WriteProto
    <2>2. TypedHaveNumbers(proto'[Sheet])
      BY <2>1, DoneFacts
    <2>3. QED
      BY <2>1, <2>2 DEF NestedInv
  <1>7. QED
    BY <1>1, <1>2, <1>3, <1>4, <1>5, <1>6 DEF NextNumbers

\* exporter.go:406, exportField and assignFieldNumbers: while no two fields of a
\* sheet share a nested message, the fields of the nested message of a field that
\* stays keep their numbers, over any number of generations.
THEOREM NestedKept ==
  ASSUME \A s \in Schemas : Unshared(s)
  PROVE  SpecNumbers => NestedFieldsKeepNumbers
  <1> DEFINE Step ==
        schema # None /\ schema' = None =>
          \A f \in FieldNames :
            LET t == proto[Sheet].type[f]
            IN t # Scalar /\ proto'[Sheet].type[f] = t
               => \A g \in FieldNames :
                    proto[t].number[g] # 0 /\ proto'[t].number[g] # 0
                      => proto'[t].number[g] = proto[t].number[g]
  <1>1. ASSUME NumbersTypeInv, NumbersInv, NestedInv, NextNumbers PROVE Step
    <2> SUFFICES ASSUME schema # None, schema' = None,
                        NEW f \in FieldNames, proto[Sheet].type[f] # Scalar,
                        proto'[Sheet].type[f] = proto[Sheet].type[f]
                 PROVE  Kept(proto[proto[Sheet].type[f]], proto'[proto[Sheet].type[f]])
      BY DEF Kept
    <2>1. WriteProto
      BY <1>1, SchemasAssumption DEF NextNumbers, Generate, RemoveSheet, AssignNumber, NestMessage
    <2>2. /\ proto' = [done EXCEPT ![message] = Numbered]
          /\ next > Len(schema.fields[message])
      BY <2>1 DEF WriteProto
    <2> DEFINE t == proto[Sheet].type[f]
    <2>3. proto[Sheet] \in Generated /\ schema \in Schemas
      BY <1>1, MessageTypes DEF NumbersTypeInv
    <2>4. t \in Nested
      BY <2>3, GeneratedFields
    <2>5. CASE proto'[t] = NoMessage
      BY <2>5, NoMessageFacts DEF Kept
    <2>6. CASE proto'[t] # NoMessage
      <3>1. /\ TypedHaveNumbers(proto'[Sheet]) /\ OfSchema(proto'[Sheet])
            /\ KeptSince(proto'[Sheet], t, proto'[t])
        BY <1>1, <2>2, <2>4, <2>6, DoneFacts
      <3>2. PICK g \in FieldNames : /\ proto'[Sheet].number[g] # 0
                                    /\ schema.type[g] = t
                                    /\ Kept(OldOf(proto'[Sheet].number[g]), proto'[t])
        BY <3>1 DEF KeptSince
      <3>3. proto'[Sheet].number[f] # 0 /\ proto[Sheet].number[f] # 0
        BY <1>1, <3>1 DEF TypedHaveNumbers, NestedInv
      <3>4. f \in FieldsOf(schema, Sheet) /\ g \in FieldsOf(schema, Sheet) /\ schema.type[f] = t
        BY <3>1, <3>2, <3>3 DEF OfSchema
      <3>5. g = f
        BY <2>3, <3>2, <3>4 DEF Unshared
      <3>6. Succeeds(proto[Sheet], proto'[Sheet]) /\ Distinct(proto[Sheet])
        BY <1>1, <2>2, SheetFacts, MessageTypes DEF NumbersInv
      <3>7. proto'[Sheet].number[g] = proto[Sheet].number[f]
        BY <3>3, <3>5, <3>6 DEF Succeeds
      <3>8. FieldTypeAt(proto[Sheet], proto[Sheet].number[f]) = t
        <4> DEFINE md == proto[Sheet]
        <4>1. md.number[f] # 0 /\ Distinct(md) /\ t = md.type[f]
          BY <3>3, <3>6
        <4> HIDE DEF md, t
        <4>2. (CHOOSE h \in FieldNames : md.number[h] = md.number[f]) = f
          BY <4>1 DEF Distinct
        <4>3. FieldTypeAt(md, md.number[f]) = t
          BY <4>1, <4>2 DEF FieldTypeAt
        <4>4. QED
          BY <4>3 DEF md
      <3>9. OldOf(proto'[Sheet].number[g]) = proto[t]
        BY <3>7, <3>8 DEF OldOf
      <3>10. QED
        BY <3>2, <3>9
    <2>7. QED
      BY <2>5, <2>6
  <1>2. ASSUME UNCHANGED numberVars PROVE Step
    BY <1>2 DEF numberVars
  <1>3. QED
    BY <1>1, <1>2, NumbersTypeInit, NumbersTypeStep, NumbersInit, NumbersStep, NestedInit, NestedStep, PTL
       DEF SpecNumbers, NestedFieldsKeepNumbers
-----------------------------------------------------------------------------
(***************************************************************************)
(* WorkbookIndex. Once GenWorkbook is called nothing is described any      *)
(* more, so that what the index says of a workbook does not change: each   *)
(* proto file is under way or converted once for each workbook looked up   *)
(* that the index has it for.                                              *)
(***************************************************************************)
DescribedProtos ==
  [book : [dir : BookDirs, name : PrimaryNames],
   merger : SpecifierChoices, scatter : SpecifierChoices]

IndexTypeInv ==
  /\ protos \in Seq(DescribedProtos) /\ DOMAIN protos \subseteq ProtoNames
  /\ asked \in Seq(BookFiles) /\ taken \in 0..Len(asked)
  /\ running \in [ProtoNames -> Nat] /\ converted \in [ProtoNames -> Nat]
  /\ result \in {"none", "failed", "done"}

LookedUp(p, k) == {i \in 1..k : p \in Get(asked[i])}

IndexInv ==
  /\ asked = <<>> => result = "none"
  /\ \A p \in ProtoNames : running[p] + converted[p] = Cardinality(LookedUp(p, taken))
  /\ result = "done" =>
       /\ taken = Len(asked)
       /\ \A p \in ProtoNames : running[p] = 0 /\ (converted[p] > 0 => ~ConvertFails(p))

LEMMA IndexTypeInit == InitIndex => IndexTypeInv
<1> SUFFICES ASSUME InitIndex PROVE IndexTypeInv
  OBVIOUS
<1>1. \A S : <<>> \in Seq(S) /\ Len(<<>>) = 0 /\ DOMAIN <<>> = {}
  BY EmptySeq
<1> QED
  BY <1>1 DEF InitIndex, IndexTypeInv

LEMMA BooksAreSeq ==
  ASSUME NEW books \in SomeBooks
  PROVE  books \in Seq(BookFiles) /\ Len(books) \in Nat \ {0} /\ books # <<>>
<1>1. PICK n \in 1..MaxAsked : books \in [1..n -> BookFiles]
  BY DEF SomeBooks
<1>2. n \in Nat \ {0}
  BY <1>1
<1>3. books \in Seq(BookFiles) /\ Len(books) = n
  BY <1>1, <1>2
<1> QED
  BY <1>2, <1>3

LEMMA IndexTypeStep == IndexTypeInv /\ [NextIndex]_indexVars => IndexTypeInv'
<1> SUFFICES ASSUME IndexTypeInv, [NextIndex]_indexVars PROVE IndexTypeInv'
  OBVIOUS
<1> USE DEF IndexTypeInv
<1>1. ASSUME NEW p \in ProtoNames, NEW dir \in BookDirs, NEW name \in PrimaryNames,
             NEW merger \in SpecifierChoices, NEW scatter \in SpecifierChoices,
             Describe(p, BookAt(dir, name), merger, scatter)
      PROVE  IndexTypeInv'
  <2> DEFINE new == [book |-> BookAt(dir, name), merger |-> merger, scatter |-> scatter]
  <2>1. /\ protos' = Append(protos, new) /\ p = Len(protos')
        /\ UNCHANGED <<asked, taken, running, converted, result>>
    BY <1>1 DEF Describe, Describing
  <2>2. new \in DescribedProtos
    BY DEF DescribedProtos, BookAt
  <2> HIDE DEF new
  <2>3. /\ protos' \in Seq(DescribedProtos) /\ Len(protos) \in Nat
        /\ DOMAIN protos = 1..Len(protos) /\ DOMAIN protos' = 1..(Len(protos) + 1)
        /\ Len(protos') = Len(protos) + 1
    BY <2>1, <2>2
  <2>4. DOMAIN protos' \subseteq ProtoNames
    BY <2>1, <2>3
  <2> QED
    BY <2>1, <2>3, <2>4
<1>2. ASSUME NEW from, NEW to, AddRewrite(from, to) PROVE IndexTypeInv'
  BY <1>2 DEF AddRewrite, Describing
<1>3. ASSUME NEW dir, SetSubdir(dir) PROVE IndexTypeInv'
  BY <1>3 DEF SetSubdir, Describing
<1>4. ASSUME NEW books \in SomeBooks, NEW ignore \in BOOLEAN, CallGenWorkbook(books, ignore)
      PROVE  IndexTypeInv'
  <2>1. asked = <<>> /\ taken = 0
    BY <1>4 DEF CallGenWorkbook
  <2>2. asked' = books /\ UNCHANGED <<protos, taken, running, converted>>
        /\ result' \in {"none", "failed", "done"}
    BY <1>4 DEF CallGenWorkbook, describing
  <2> QED
    BY <2>1, <2>2, BooksAreSeq
<1>5. CASE TakeBook
  <2>1. /\ taken < Len(asked) /\ taken' = taken + 1 /\ UNCHANGED <<protos, asked, converted>>
        /\ result' \in {"none", "failed", "done"}
    BY <1>5 DEF TakeBook, describing
  <2>2. running' \in [ProtoNames -> Nat]
    BY <1>5 DEF TakeBook
  <2>3. taken' \in 0..Len(asked)
    BY <2>1, LenProperties
  <2> QED
    BY <2>1, <2>2, <2>3
<1>6. CASE WaitAll
  BY <1>6 DEF WaitAll, describing
<1>7. ASSUME NEW p \in ProtoNames, EndConvert(p) PROVE IndexTypeInv'
  BY <1>7 DEF EndConvert, describing
<1>8. CASE UNCHANGED indexVars
  BY <1>8 DEF indexVars, describing
<1> QED
  BY <1>1, <1>2, <1>3, <1>4, <1>5, <1>6, <1>7, <1>8 DEF NextIndex

LEMMA LookedUpNext ==
  ASSUME NEW p, NEW k \in Nat
  PROVE  /\ IsFiniteSet(LookedUp(p, k)) /\ Cardinality(LookedUp(p, k)) \in Nat
         /\ Cardinality(LookedUp(p, k + 1))
              = Cardinality(LookedUp(p, k)) + (IF p \in Get(asked[k + 1]) THEN 1 ELSE 0)
<1>1. IsFiniteSet(1..k) /\ LookedUp(p, k) \subseteq 1..k
  BY FS_Interval DEF LookedUp
<1>2. IsFiniteSet(LookedUp(p, k)) /\ Cardinality(LookedUp(p, k)) \in Nat
  BY <1>1, FS_Subset, FS_CardinalityType
<1>3. k + 1 \notin LookedUp(p, k)
  BY <1>1
<1>4. LookedUp(p, k + 1) = IF p \in Get(asked[k + 1]) THEN LookedUp(p, k) \cup {k + 1}
                           ELSE LookedUp(p, k)
  BY DEF LookedUp
<1>5. Cardinality(LookedUp(p, k) \cup {k + 1}) = Cardinality(LookedUp(p, k)) + 1
  BY <1>2, <1>3, FS_AddElement
<1>6. CASE p \in Get(asked[k + 1])
  BY <1>2, <1>4, <1>5, <1>6
<1>7. CASE p \notin Get(asked[k + 1])
  BY <1>2, <1>4, <1>7
<1> QED
  BY <1>6, <1>7

LEMMA IndexStep == IndexTypeInv /\ IndexInv /\ [NextIndex]_indexVars => IndexInv'
<1> SUFFICES ASSUME IndexTypeInv, IndexInv, [NextIndex]_indexVars PROVE IndexInv'
  OBVIOUS
<1>1. CASE Describing
  <2>1. asked = <<>> /\ taken = 0 /\ UNCHANGED <<ignoring, asked, taken, running, converted, result>>
        /\ result = "none"
    BY <1>1 DEF Describing, IndexTypeInv, IndexInv
  <2>2. \A p : LookedUp(p, taken) = {} /\ LookedUp(p, taken)' = {}
    BY <2>1 DEF LookedUp
  <2> QED
    BY <2>1, <2>2 DEF IndexInv
<1>2. ASSUME NEW books \in SomeBooks, NEW ignore \in BOOLEAN, CallGenWorkbook(books, ignore)
      PROVE  IndexInv'
  <2>1. asked = <<>> /\ taken = 0 /\ asked' = books /\ books # <<>>
        /\ UNCHANGED <<taken, running, converted>> /\ result' # "done"
    BY <1>2, BooksAreSeq DEF CallGenWorkbook, IndexTypeInv
  <2>2. \A p : LookedUp(p, taken) = {} /\ LookedUp(p, taken)' = {}
    BY <2>1 DEF LookedUp
  <2> QED
    BY <2>1, <2>2 DEF IndexInv
<1>3. CASE UNCHANGED <<describing, asked>>
  <2>1. \A p, k : LookedUp(p, k)' = LookedUp(p, k)
    BY <1>3 DEF describing, LookedUp, Get, Considered, HasSubdirPrefix, IndexedBooks, RewriteSubdir,
                Resolve, SpecifiersOf
  <2>2. \A p : ConvertFails(p)' = ConvertFails(p)
    BY <1>3 DEF describing, ConvertFails, Considered, HasSubdirPrefix, RewriteSubdir, HasBoth, Resolve
  <2>3. CASE TakeBook
    <3>1. /\ result = "none" /\ taken < Len(asked) /\ taken' = taken + 1 /\ converted' = converted
          /\ result' # "done" /\ asked # <<>>
          /\ running' = [p \in ProtoNames |-> running[p]
                           + (IF p \in Get(asked[taken + 1]) THEN 1 ELSE 0)]
      BY <2>3 DEF TakeBook, IndexTypeInv
    <3>2. ASSUME NEW p \in ProtoNames
          PROVE  running'[p] + converted'[p] = Cardinality(LookedUp(p, taken'))
      <4>1. running[p] \in Nat /\ converted[p] \in Nat /\ taken \in Nat
        BY DEF IndexTypeInv
      <4>2. running'[p] = running[p] + (IF p \in Get(asked[taken + 1]) THEN 1 ELSE 0)
        BY <3>1
      <4>3. running[p] + converted[p] = Cardinality(LookedUp(p, taken))
        BY DEF IndexInv
      <4>4. Cardinality(LookedUp(p, taken + 1))
              = Cardinality(LookedUp(p, taken)) + (IF p \in Get(asked[taken + 1]) THEN 1 ELSE 0)
        BY <4>1, LookedUpNext
      <4>5. CASE p \in Get(asked[taken + 1])
        BY <3>1, <4>1, <4>2, <4>3, <4>4, <4>5
      <4>6. CASE p \notin Get(asked[taken + 1])
        BY <3>1, <4>1, <4>2, <4>3, <4>4, <4>6
      <4> QED
        BY <4>5, <4>6
    <3> QED
      BY <1>3, <2>1, <3>1, <3>2 DEF IndexInv
  <2>4. ASSUME NEW q \in ProtoNames, EndConvert(q) PROVE IndexInv'
    <3>1. /\ running[q] > 0 /\ running' = [running EXCEPT ![q] = @ - 1]
          /\ converted' = [converted EXCEPT ![q] = @ + 1] /\ UNCHANGED <<taken, result>>
      BY <2>4 DEF EndConvert
    <3>2. \A p \in ProtoNames : running'[p] + converted'[p] = running[p] + converted[p]
      BY <3>1 DEF IndexTypeInv
    <3>3. result # "done"
      BY <3>1 DEF IndexInv, IndexTypeInv
    <3> QED
      BY <1>3, <2>1, <3>1, <3>2, <3>3 DEF IndexInv
  <2>5. CASE WaitAll
    <3>1. /\ taken = Len(asked) /\ asked # <<>> /\ \A p \in ProtoNames : running[p] = 0
          /\ result' = "done" => ~\E p \in ProtoNames : converted[p] > 0 /\ ConvertFails(p)
          /\ UNCHANGED <<taken, running, converted>>
      BY <2>5 DEF WaitAll
    <3> QED
      BY <1>3, <2>1, <2>2, <3>1 DEF IndexInv
  <2>6. CASE UNCHANGED indexVars
    BY <1>3, <2>1, <2>2, <2>6 DEF IndexInv, indexVars
  <2>7. ASSUME NEW books \in SomeBooks, NEW ignore \in BOOLEAN, CallGenWorkbook(books, ignore)
        PROVE  IndexInv'
    BY <1>2, <2>7
  <2> QED
    BY <1>1, <2>3, <2>4, <2>5, <2>6, <2>7 DEF NextIndex, Describe, AddRewrite, SetSubdir
<1> QED
  BY <1>1, <1>2, <1>3
  DEF NextIndex, Describe, AddRewrite, SetSubdir, TakeBook, WaitAll, EndConvert, indexVars

\* The index has the proto files whose conversion reads the workbook.
LEMMA IndexedIsRead ==
  ASSUME RewritesOnce, NEW p \in DOMAIN protos, ~HasBoth(p), NEW b
  PROVE  p \in Get(b) <=> b \in BooksRead(p)
<1>1. SpecifiersOf(p) = protos[p].scatter \cup protos[p].merger
  BY DEF SpecifiersOf, HasBoth
<1>2. \A names : Resolve(RewriteSubdir(protos[p].book), names) = Resolve(protos[p].book, names)
  BY DEF RewritesOnce, Resolve
<1> QED
  BY <1>1, <1>2 DEF Get, IndexedBooks, BooksRead, ImportersOf

\* confgen.go, GenWorkbook; util.go, buildWorkbookIndex: a workbook is looked up for
\* exactly the proto files whose conversion reads it, and when all goroutines are
\* over without an error each of these was converted once for each of its workbooks
\* that was asked for, if no directory that is rewritten once is rewritten again.
THEOREM IndexExact == SpecIndex => []IndexIsExact
<1>1. InitIndex => IndexInv
  <2> SUFFICES ASSUME InitIndex PROVE IndexInv
    OBVIOUS
  <2>1. \A p : LookedUp(p, taken) = {}
    BY DEF InitIndex, LookedUp
  <2> QED
    BY <2>1, FS_EmptySet DEF InitIndex, IndexInv
<1>2. IndexTypeInv /\ IndexInv => IndexIsExact
  <2> SUFFICES ASSUME IndexTypeInv, IndexInv, RewritesOnce, result = "done", NEW p \in DOMAIN protos
               PROVE  running[p] = 0 /\ converted[p] = NumberAsked(p)
    BY IndexedIsRead DEF IndexIsExact
  <2>1. /\ p \in ProtoNames /\ running[p] = 0 /\ converted[p] \in Nat
        /\ converted[p] = Cardinality(LookedUp(p, Len(asked)))
        /\ converted[p] > 0 => ~ConvertFails(p)
    BY DEF IndexTypeInv, IndexInv
  <2>2. DOMAIN asked = 1..Len(asked) /\ Len(asked) \in Nat
    BY LenProperties DEF IndexTypeInv
  <2>3. CASE ~HasBoth(p)
    <3>1. LookedUp(p, Len(asked)) = {i \in DOMAIN asked : asked[i] \in BooksRead(p)}
      BY <2>2, <2>3, IndexedIsRead DEF LookedUp
    <3> QED
      BY <2>1, <3>1 DEF NumberAsked
  <2>4. CASE HasBoth(p)
    <3>1. \A b : b \in BooksRead(p) => p \in Get(b)
      BY <2>4 DEF BooksRead, Get, IndexedBooks
    <3>2. IsFiniteSet(LookedUp(p, Len(asked)))
      BY <2>2, LookedUpNext
    <3>3. LookedUp(p, Len(asked)) = {}
      <4>1. ASSUME NEW i \in LookedUp(p, Len(asked)) PROVE FALSE
        <5>1. Considered(p)
          BY <4>1 DEF LookedUp, Get
        <5>2. ~(converted[p] > 0)
          BY <2>1, <2>4, <5>1 DEF ConvertFails
        <5> QED
          BY <2>1, <3>2, <4>1, <5>2, FS_EmptySet
      <4> QED
        BY <4>1
    <3>4. {i \in DOMAIN asked : asked[i] \in BooksRead(p)} = {}
      BY <2>2, <3>1, <3>3 DEF LookedUp
    <3> QED
      BY <2>1, <3>3, <3>4 DEF NumberAsked
  <2> QED
    BY <2>3, <2>4
<1> QED
  BY <1>1, <1>2, IndexTypeInit, IndexTypeStep, IndexStep, PTL DEF SpecIndex

(***************************************************************************)
(* DataRows: rows of any number and width. The cells of the row before and *)
(* of the current one are not in the pool and hold what they were meant    *)
(* to; that is kept by whatever the parsers of other sheets do.            *)
(***************************************************************************)
RowData == Data \cup {Missing}
IsRow(cells) == cells \in [Cols -> Ids] /\ \A i, j \in Cols : cells[i] = cells[j] => i = j

RowsInv ==
  /\ columns \in TableColumns
  /\ meant \in Seq([Cols -> RowData]) /\ given \in Seq([Cols -> RowData])
  /\ Cols = {} => given = <<>> /\ prev = NoRow /\ curr = NoRow
  /\ Cols # {} =>
       /\ prev = NoRow \/ IsRow(prev)
       /\ curr = NoRow \/ IsRow(curr)
       /\ Range(prev) \cap Range(curr) = {}
       /\ pool = Ids \ (Range(prev) \cup Range(curr))
       /\ curr = NoRow => Len(meant) = Len(given)
       /\ curr # NoRow => Len(meant) = Len(given) + 1 /\ Read(curr) = meant[Len(meant)]
       /\ prev = NoRow <=> given = <<>>
       /\ prev # NoRow => Read(prev) = meant[Len(given)]
       /\ \A n \in 1..Len(given) : given[n] = meant[n]

LEMMA LeastOf ==
  ASSUME NEW T, T \subseteq Nat, T # {}
  PROVE  \E n \in T : \A k \in T : n <= k
<1>1. PICK n \in T : \A k \in T : ~(<<k, n>> \in OpToRel(<, Nat))
  BY NatLessThanWellFounded, WFMin
<1>2. \A k \in T : ~(k < n)
  BY <1>1 DEF OpToRel
<1> QED
  BY <1>2

\* Of the numbers in a set there is one below which there are n others.
LEMMA NthOf ==
  ASSUME NEW m \in Nat, NEW S \in SUBSET (1..m), NEW n \in Nat, n < Cardinality(S)
  PROVE  \E c \in S : Cardinality({d \in S : d < c}) = n
<1> DEFINE Below(c) == {d \in S : d < c}
           T == {c \in Nat : n < Cardinality(Below(c))}
<1>a. \A d \in S : d \in Nat /\ 0 < d /\ d <= m
  OBVIOUS
<1>1. IsFiniteSet(S)
  <2>1. IsFiniteSet(1..m)
    BY FS_Interval
  <2> QED
    BY <2>1, FS_Subset
<1>2. \A c : IsFiniteSet(Below(c)) /\ Cardinality(Below(c)) \in Nat
  BY <1>1, FS_Subset, FS_CardinalityType
<1>3. T # {}
  <2>1. \A d \in S : d < m + 1
    BY <1>a
  <2>2. Below(m + 1) = S
    BY <2>1
  <2> QED
    BY <2>2
<1>4. PICK c \in T : \A k \in T : c <= k
  <2> HIDE DEF T
  <2>1. T \subseteq Nat
    BY DEF T
  <2> QED
    BY <1>3, <2>1, LeastOf
<1>5. c # 0
  <2>a. \A d \in S : ~(d < 0)
    BY <1>a
  <2>1. Below(0) = {}
    BY <2>a
  <2> QED
    BY <2>1, FS_EmptySet
<1>6. c - 1 \in Nat /\ ~(c - 1 \in T)
  BY <1>4, <1>5
<1> DEFINE b == Cardinality(Below(c - 1))
<1>7. b \in Nat /\ b <= n
  BY <1>2, <1>6
<1>8. n < Cardinality(Below(c))
  BY <1>4
<1>9. c - 1 \in S
  <2> SUFFICES ASSUME c - 1 \notin S PROVE FALSE
    OBVIOUS
  <2>a. \A d \in S : d < c <=> d < c - 1
    BY <1>a, <1>6
  <2>1. Below(c) = Below(c - 1)
    BY <2>a
  <2> QED
    BY <1>7, <1>8, <2>1
<1>10. Below(c) = Below(c - 1) \cup {c - 1}
  <2>a. \A d \in S : d < c <=> d < c - 1 \/ d = c - 1
    BY <1>a, <1>6
  <2> QED
    BY <1>9, <2>a
<1>11. Cardinality(Below(c - 1) \cup {c - 1}) = b + 1
  <2>1. c - 1 \notin Below(c - 1)
    BY <1>6
  <2> HIDE DEF Below
  <2> QED
    BY <1>2, <2>1, FS_AddElement
<1>12. b = n
  <2> HIDE DEF Below, b
  <2> QED
    BY <1>7, <1>8, <1>10, <1>11
<1> QED
  BY <1>9, <1>12

LEMMA RowSize ==
  ASSUME NEW cells, IsRow(cells), Len(columns) \in Nat
  PROVE  IsFiniteSet(Range(cells)) /\ Cardinality(Range(cells)) <= Len(columns)
<1>1. cells \in Surjection(Cols, Range(cells))
  BY DEF IsRow, Range, Surjection
<1>2. IsFiniteSet(Cols) /\ Cardinality(Cols) = Len(columns)
  BY FS_Interval DEF Cols
<1> QED
  BY <1>1, <1>2, FS_Surjection

\* There is a free cell for each column.
LEMMA TakenFacts ==
  ASSUME RowsInv, curr = NoRow, Cols # {}
  PROVE  IsRow(Taken) /\ Range(Taken) \subseteq pool
<1>1. MaxCells \in Nat /\ Len(columns) \in Nat /\ 2 * Len(columns) <= MaxCells
  BY ColumnsAssumption DEF RowsInv
<1>2. IsFiniteSet(Ids) /\ Cardinality(Ids) = MaxCells
  BY <1>1, FS_Interval DEF Ids
<1>3. Range(NoRow) = {}
  BY DEF Range, NoRow
<1>4. pool = Ids \ Range(prev)
  BY <1>3 DEF RowsInv
<1>5. IsFiniteSet(Range(prev)) /\ Cardinality(Range(prev)) <= Len(columns)
  <2>1. CASE prev = NoRow
    BY <1>1, <1>3, <2>1, FS_EmptySet
  <2>2. CASE IsRow(prev)
    BY <1>1, <2>2, RowSize
  <2> QED
    BY <2>1, <2>2 DEF RowsInv
<1>6. Cardinality(pool) = MaxCells - Cardinality(Ids \cap Range(prev))
  BY <1>2, <1>4, FS_Difference
<1>7. Cardinality(Ids \cap Range(prev)) <= Cardinality(Range(prev))
  BY <1>5, FS_Subset
<1>8. /\ Cardinality(pool) \in Nat /\ Cardinality(Ids \cap Range(prev)) \in Nat
      /\ Cardinality(Range(prev)) \in Nat
  BY <1>2, <1>4, <1>5, FS_Subset, FS_CardinalityType
<1>9. Len(columns) <= Cardinality(pool)
  BY <1>1, <1>5, <1>6, <1>7, <1>8
<1>10. \A i \in Cols : \E c \in pool : Cardinality({d \in pool : d < c}) = i - 1
  <2> SUFFICES ASSUME NEW i \in Cols
               PROVE  \E c \in pool : Cardinality({d \in pool : d < c}) = i - 1
    OBVIOUS
  <2>1. i - 1 \in Nat /\ i - 1 < Cardinality(pool)
    BY <1>1, <1>8, <1>9 DEF Cols
  <2>2. pool \in SUBSET (1..MaxCells)
    BY <1>4 DEF Ids
  <2> QED
    BY <1>1, <2>1, <2>2, NthOf
<1> DEFINE Nth(i) == CHOOSE c \in pool : Cardinality({d \in pool : d < c}) = i - 1
<1>11. \A i \in Cols : Nth(i) \in pool /\ Cardinality({d \in pool : d < Nth(i)}) = i - 1
  BY <1>10
<1>12. Taken = [i \in Cols |-> Nth(i)]
  BY DEF Taken
<1>13. \A i, j \in Cols : Nth(i) = Nth(j) => i = j
  <2> SUFFICES ASSUME NEW i \in Cols, NEW j \in Cols, Nth(i) = Nth(j) PROVE i = j
    OBVIOUS
  <2>1. i - 1 = j - 1
    BY <1>11
  <2> QED
    BY <1>1, <2>1 DEF Cols
<1> HIDE DEF Nth
<1> QED
  BY <1>4, <1>11, <1>12, <1>13 DEF IsRow, Range

-----------------------------------------------------------------------------
\* What is written of a row of which the keys in omit are left out.
Written(row, omit, before, data) ==
  /\ columns \in TableColumns /\ row \in [Cols -> RowData] /\ Meant(row)
  /\ omit \subseteq {i \in Cols : IsKey(i)} /\ \A i \in omit : MayOmit(row, i)
  /\ before = IF meant = <<>> THEN NoRow ELSE Last(meant)
  /\ meant = <<>> \/ before # NoRow
  /\ data = [i \in Cols |-> IF i \in omit THEN Missing ELSE row[i]]

\* The keys that are left out are filled in (AddCell), those that are really
\* empty are not.
LEMMA CellAdded ==
  ASSUME NEW row, NEW omit, NEW before, NEW data, Written(row, omit, before, data),
         NEW i \in Cols, NEW begun, \A k \in 1..(i - 1) : begun[k] = row[k]
  PROVE  AddedCell(i, begun, data, before) = row[i]
<1> USE DEF Written
<1>1. Len(columns) \in Nat /\ Leveled(columns)
  BY ColumnsAssumption
<1>2. i \in 1..Len(columns) /\ data[i] = IF i \in omit THEN Missing ELSE row[i]
  BY DEF Cols
<1>3. CASE i \in omit
  <2>1. /\ IsKey(i) /\ meant # <<>> /\ before = Last(meant) /\ before # NoRow
        /\ \A k \in 1..i : IsKey(k) => row[k] = before[k]
    BY <1>3 DEF MayOmit
  <2>2. /\ columns[i].name # <<>>
        /\ \/ LevelPrefix(i) = <<>>
           \/ \E k \in 1..(i - 1) :
                /\ IsKey(k)
                /\ \A j \in k..(i - 1) : IsPrefix(LevelPrefix(i), columns[j].name)
    BY <1>1, <1>2, <2>1 DEF Leveled, IsKey, LevelPrefix
  <2>3. \A k \in 1..(i - 1) : IsKey(k) => before[k] = begun[k]
    BY <1>1, <1>2, <2>1
  <2>4. NeedPopulate(i, begun, before)
    BY <2>1, <2>2, <2>3 DEF NeedPopulate
  <2>5. AddedCell(i, begun, data, before) = before[i]
    BY <1>2, <1>3, <2>1, <2>2, <2>4 DEF AddedCell
  <2>6. i \in 1..i
    BY <1>1, <1>2
  <2> QED
    BY <2>1, <2>5, <2>6
<1>4. CASE i \notin omit
  <2>1. CASE row[i] # Missing
    BY <1>2, <1>4, <2>1 DEF AddedCell
  <2>2. CASE row[i] = Missing
    <3>1. /\ LevelPrefix(i) # <<>>
          /\ meant # <<>> => \A k \in 1..(i - 1) : IsKey(k) => row[k] # before[k]
      BY <2>2 DEF Meant
    <3>2. ~NeedPopulate(i, begun, before)
      BY <3>1 DEF NeedPopulate
    <3> QED
      BY <1>2, <1>4, <3>2 DEF AddedCell
  <2> QED
    BY <2>1, <2>2
<1> QED
  BY <1>3, <1>4

\* RowOfCells adds the cells one by one.
LEMMA RowFilled ==
  ASSUME NEW row, NEW omit, NEW before, NEW data, Written(row, omit, before, data)
  PROVE  RowOfCells(data, before) = row
<1> DEFINE n == Len(columns)
           Begun(i) == [k \in 1..i |-> row[k]]
           Grows(g) == g = [i \in 0..n |-> IF i = 0 THEN <<>>
                              ELSE Append(g[i - 1], AddedCell(i, g[i - 1], data, before))]
<1>1. n \in Nat /\ Cols = 1..n /\ row \in [1..n -> RowData]
  BY ColumnsAssumption DEF Cols, Written
<1>2. RowOfCells(data, before) = (CHOOSE g : Grows(g))[n]
  BY DEF RowOfCells
<1> HIDE DEF n
<1>3. \A i \in 1..n : AddedCell(i, Begun(i - 1), data, before) = row[i]
  <2> SUFFICES ASSUME NEW i \in 1..n PROVE AddedCell(i, Begun(i - 1), data, before) = row[i]
    OBVIOUS
  <2>1. i \in Cols /\ \A k \in 1..(i - 1) : Begun(i - 1)[k] = row[k]
    BY <1>1
  <2> HIDE DEF Begun
  <2> QED
    BY <2>1, CellAdded
<1>4. /\ Begun(0) = <<>> /\ Begun(n) = row
      /\ \A i \in 1..n : Append(Begun(i - 1), row[i]) = Begun(i)
  <2>1. \A i \in 1..n : Append(Begun(i - 1), row[i]) = Begun(i)
    <3> SUFFICES ASSUME NEW i \in 1..n PROVE Append(Begun(i - 1), row[i]) = Begun(i)
      OBVIOUS
    <3>1. Begun(i - 1) \in Seq(RowData) /\ Len(Begun(i - 1)) = i - 1 /\ row[i] \in RowData
      BY <1>1
    <3> QED
      BY <1>1, <3>1, AppendProperties
  <2> QED
    BY <1>1, <2>1
<1>5. \E g : Grows(g)
  <2> DEFINE w == [i \in 0..n |-> Begun(i)]
  <2>1. \A i \in 1..n : w[i - 1] = Begun(i - 1)
    BY <1>1
  <2>2. \A i \in 0..n : Begun(i) = IF i = 0 THEN <<>>
                          ELSE Append(w[i - 1], AddedCell(i, w[i - 1], data, before))
    <3> HIDE DEF w, Begun
    <3> SUFFICES ASSUME NEW i \in 0..n
                 PROVE  Begun(i) = IF i = 0 THEN <<>>
                          ELSE Append(w[i - 1], AddedCell(i, w[i - 1], data, before))
      OBVIOUS
    <3>1. CASE i = 0
      BY <1>4, <3>1
    <3>2. CASE i # 0
      <4>1. i \in 1..n
        BY <1>1, <3>2
      <4>2. w[i - 1] = Begun(i - 1) /\ AddedCell(i, Begun(i - 1), data, before) = row[i]
        BY <1>3, <2>1, <4>1
      <4> QED
        BY <1>4, <3>2, <4>1, <4>2
    <3> QED
      BY <3>1, <3>2
  <2>3. Grows(w)
    <3> HIDE DEF Begun
    <3> QED
      BY <2>2
  <2> QED
    BY <2>3
<1>6. ASSUME NEW g, Grows(g) PROVE g[n] = row
  <2> DEFINE Wrong == {i \in 0..n : g[i] # Begun(i)}
  <2>1. \A i \in 0..n : g[i] = IF i = 0 THEN <<>>
                          ELSE Append(g[i - 1], AddedCell(i, g[i - 1], data, before))
    BY <1>6
  <2> HIDE DEF Begun, Grows
  <2>2. Wrong = {}
    <3> SUFFICES ASSUME Wrong # {} PROVE FALSE
      OBVIOUS
    <3>1. PICK i \in Wrong : \A k \in Wrong : i <= k
      <4>1. Wrong \subseteq Nat
        BY <1>1
      <4> HIDE DEF Wrong
      <4> QED
        BY <4>1, LeastOf
    <3>2. i \in 0..n /\ g[i] # Begun(i) /\ i # 0
      BY <1>1, <1>4, <2>1
    <3>3. i \in 1..n /\ i - 1 \in 0..n /\ ~(i <= i - 1)
      BY <1>1, <3>2
    <3>4. g[i - 1] = Begun(i - 1)
      BY <3>1, <3>3
    <3>5. g[i] = Append(Begun(i - 1), row[i])
      BY <1>3, <2>1, <3>2, <3>3, <3>4
    <3> QED
      BY <1>4, <3>2, <3>3, <3>5
  <2>3. n \in 0..n
    BY <1>1
  <2>4. g[n] = Begun(n)
    BY <2>2, <2>3
  <2> QED
    BY <1>4, <2>4
<1> QED
  <2> HIDE DEF Grows
  <2> QED
    BY <1>2, <1>5, <1>6

-----------------------------------------------------------------------------
LEMMA RowsInit == InitRows => RowsInv
<1> SUFFICES ASSUME InitRows PROVE RowsInv
  OBVIOUS
<1>1. Range(<<>>) = {} /\ Len(<<>>) = 0 /\ <<>> \in Seq([Cols -> RowData])
  BY DEF Range
<1>2. /\ columns \in TableColumns /\ meant = <<>> /\ given = <<>> /\ prev = NoRow /\ curr = NoRow
      /\ pool = Ids /\ NoRow = <<>>
  BY DEF InitRows, NoRow
<1>3. \A n \in 1..Len(given) : given[n] = meant[n]
  BY <1>1, <1>2
<1>4. /\ meant \in Seq([Cols -> RowData]) /\ given \in Seq([Cols -> RowData])
      /\ Len(meant) = Len(given)
  BY <1>1, <1>2
<1>5. Range(prev) \cap Range(curr) = {} /\ pool = Ids \ (Range(prev) \cup Range(curr))
  BY <1>1, <1>2
<1> QED
  BY <1>2, <1>3, <1>4, <1>5 DEF RowsInv

\* Reading the cells of a row whose cells nobody has written to.
LEMMA ReadSame ==
  ASSUME NEW cells, \A c \in Range(cells) : rowContent'[c] = rowContent[c]
  PROVE  [i \in DOMAIN cells |-> rowContent'[cells[i]]] = Read(cells)
BY DEF Read, Range

LEMMA ReadRowStep ==
  ASSUME RowsInv, Cols # {}, NEW row \in [Cols -> Data \cup {Missing}],
         NEW omit \in SUBSET {i \in Cols : IsKey(i)}, ReadRow(row, omit)
  PROVE  RowsInv'
<1> DEFINE data == [i \in Cols |-> IF i \in omit THEN Missing ELSE row[i]]
           before == Read(prev)
<1>1. /\ curr = NoRow /\ Meant(row) /\ (\A i \in omit : MayOmit(row, i))
      /\ curr' = Taken /\ pool' = pool \ Range(Taken) /\ meant' = Append(meant, row)
      /\ UNCHANGED <<columns, prev, given>>
      /\ rowContent' = [c \in Ids |-> IF c \in Range(Taken)
                                      THEN RowOfCells(data, before)[CHOOSE i \in Cols : Taken[i] = c]
                                      ELSE rowContent[c]]
  BY DEF ReadRow
<1>2. IsRow(Taken) /\ Range(Taken) \subseteq pool
  BY <1>1, TakenFacts
<1>3. /\ Len(meant) \in Nat /\ Len(given) = Len(meant) /\ row \in [Cols -> RowData]
      /\ columns \in TableColumns /\ meant \in Seq([Cols -> RowData])
      /\ prev = NoRow <=> meant = <<>>
  <2>1. meant \in Seq([Cols -> RowData]) /\ given \in Seq([Cols -> RowData])
        /\ Len(meant) = Len(given) /\ (prev = NoRow <=> given = <<>>)
        /\ columns \in TableColumns
    BY <1>1 DEF RowsInv
  <2>2. Len(meant) \in Nat /\ Len(given) \in Nat /\ (meant = <<>> <=> Len(meant) = 0)
        /\ (given = <<>> <=> Len(given) = 0)
    BY <2>1, EmptySeq, LenProperties
  <2> QED
    BY <2>1, <2>2 DEF RowData
<1>4. before = IF meant = <<>> THEN NoRow ELSE Last(meant)
  <2>1. CASE meant = <<>>
    BY <1>3, <2>1 DEF Read, NoRow
  <2>2. CASE meant # <<>>
    BY <1>3, <2>2 DEF RowsInv, Last
  <2> QED
    BY <2>1, <2>2
<1>5. meant = <<>> \/ before # NoRow
  <2> SUFFICES ASSUME meant # <<>> PROVE before # NoRow
    OBVIOUS
  <2>1. Len(meant) \in 1..Len(meant)
    BY <1>3, EmptySeq
  <2>2. before \in [Cols -> RowData]
    BY <1>3, <1>4, <2>1, ElementOfSeq DEF Last
  <2> QED
    BY <2>2 DEF NoRow
<1>6. Written(row, omit, before, data)
  <2> HIDE DEF before
  <2> QED
    BY <1>1, <1>3, <1>4, <1>5 DEF Written
<1>7. RowOfCells(data, before) = row
  BY <1>6, RowFilled
<1> HIDE DEF data, before
<1>8. \A i \in Cols : rowContent'[Taken[i]] = row[i]
  <2> SUFFICES ASSUME NEW i \in Cols PROVE rowContent'[Taken[i]] = row[i]
    OBVIOUS
  <2>1. Taken[i] \in Ids /\ Taken[i] \in Range(Taken)
    BY <1>2 DEF IsRow, Range
  <2>2. (CHOOSE j \in Cols : Taken[j] = Taken[i]) = i
    BY <1>2 DEF IsRow
  <2> QED
    BY <1>1, <1>7, <2>1, <2>2
<1>9. Read(curr)' = row
  <2>1. Read(curr)' = [i \in Cols |-> rowContent'[Taken[i]]]
    BY <1>1, <1>2 DEF Read, IsRow
  <2> QED
    BY <1>3, <1>8, <2>1
<1>10. Range(prev) \cap Range(Taken) = {} /\ Range(prev) \subseteq Ids
  <2>1. pool = Ids \ (Range(prev) \cup Range(curr)) /\ (prev = NoRow \/ IsRow(prev))
    BY DEF RowsInv
  <2>2. prev = NoRow => Range(prev) = {}
    BY DEF Range, NoRow
  <2>3. IsRow(prev) => Range(prev) \subseteq Ids
    BY DEF Range, IsRow
  <2> QED
    BY <1>2, <2>1, <2>2, <2>3
<1>11. Read(prev)' = Read(prev)
  <2>1. \A c \in Range(prev) : rowContent'[c] = rowContent[c]
    BY <1>1, <1>2, <1>10
  <2>2. Read(prev)' = [i \in DOMAIN prev |-> rowContent'[prev[i]]]
    BY <1>1 DEF Read
  <2> QED
    BY <2>1, <2>2, ReadSame
<1>12. /\ meant' \in Seq([Cols -> RowData]) /\ Len(meant') = Len(meant) + 1
       /\ meant'[Len(meant) + 1] = row /\ \A n \in 1..Len(meant) : meant'[n] = meant[n]
  BY <1>1, <1>3, AppendProperties
<1>13. Cols' = Cols /\ Ids' = Ids /\ (IsRow(prev)' <=> IsRow(prev)) /\ IsRow(curr)'
  BY <1>1, <1>2 DEF Cols, Ids, IsRow
<1>14. Range(NoRow) = {}
  BY DEF Range, NoRow
<1>15. pool' = Ids \ (Range(prev) \cup Range(Taken))
  BY <1>1, <1>14 DEF RowsInv
<1>16. Taken # NoRow
  BY <1>2 DEF IsRow, NoRow
<1>17. Len(given) = 0 => given = <<>>
  BY EmptySeq DEF RowsInv
<1>18. prev # NoRow => Read(prev) = meant[Len(given)] /\ Len(given) \in 1..Len(meant)
  BY <1>3, <1>17 DEF RowsInv
<1>19. \A n \in 1..Len(given) : given[n] = meant[n]
  BY DEF RowsInv
<1>20. given \in Seq([Cols -> RowData]) /\ (prev = NoRow \/ IsRow(prev)) /\ (prev = NoRow <=> given = <<>>)
  BY DEF RowsInv
<1>21. /\ columns' \in TableColumns /\ meant' \in Seq([Cols' -> RowData])
       /\ given' \in Seq([Cols' -> RowData]) /\ Cols' # {}
       /\ prev' = NoRow \/ IsRow(prev)' 
       /\ curr' # NoRow /\ IsRow(curr)'
  BY <1>1, <1>3, <1>12, <1>13, <1>16, <1>20
<1>22. Range(prev') \cap Range(curr') = {} /\ pool' = Ids \ (Range(prev') \cup Range(curr'))
  BY <1>1, <1>10, <1>15
<1>23. /\ Len(meant') = Len(given') + 1 /\ Read(curr)' = meant'[Len(meant')]
       /\ prev' = NoRow <=> given' = <<>>
  BY <1>1, <1>3, <1>9, <1>12, <1>20
<1>24. prev' # NoRow => Read(prev)' = meant'[Len(given')]
  BY <1>1, <1>11, <1>12, <1>18
<1>25. \A n \in 1..Len(given') : given'[n] = meant'[n]
  BY <1>1, <1>3, <1>12, <1>19
<1> QED
  BY <1>13, <1>21, <1>22, <1>23, <1>24, <1>25 DEF RowsInv

LEMMA ParseRowStep ==
  ASSUME RowsInv, ParseRow
  PROVE  RowsInv'
<1>1. /\ curr # NoRow /\ given' = Append(given, Read(curr)) /\ pool' = pool \cup Range(prev)
      /\ prev' = curr /\ curr' = NoRow /\ UNCHANGED <<columns, meant, rowContent>>
  BY DEF ParseRow
<1>2. /\ Cols # {} /\ columns \in TableColumns
      /\ meant \in Seq([Cols -> RowData]) /\ given \in Seq([Cols -> RowData])
      /\ IsRow(curr) /\ (prev = NoRow \/ IsRow(prev))
      /\ Range(prev) \cap Range(curr) = {}
      /\ pool = Ids \ (Range(prev) \cup Range(curr))
      /\ Len(meant) = Len(given) + 1 /\ Read(curr) = meant[Len(meant)]
      /\ \A n \in 1..Len(given) : given[n] = meant[n]
  BY <1>1 DEF RowsInv
<1>3. Len(given) \in Nat /\ Len(meant) \in 1..Len(meant)
  BY <1>2, LenProperties
<1>4. Read(curr) \in [Cols -> RowData]
  BY <1>2, <1>3, ElementOfSeq
<1>5. /\ given' \in Seq([Cols -> RowData]) /\ Len(given') = Len(given) + 1
      /\ given'[Len(given) + 1] = Read(curr) /\ \A n \in 1..Len(given) : given'[n] = given[n]
  BY <1>1, <1>2, <1>4, AppendProperties
<1>6. given' # <<>>
  BY <1>3, <1>5
<1>7. Cols' = Cols /\ Ids' = Ids /\ IsRow(prev)'
  BY <1>1, <1>2 DEF Cols, Ids, IsRow
<1>8. Read(prev)' = Read(curr)
  BY <1>1 DEF Read
<1>9. Range(NoRow) = {}
  BY DEF Range, NoRow
<1>10. Range(prev) \subseteq Ids
  <2>1. IsRow(prev) => Range(prev) \subseteq Ids
    BY DEF IsRow, Range
  <2> QED
    BY <1>2, <1>9, <2>1
<1>11. Range(prev') \cap Range(curr') = {} /\ pool' = Ids \ (Range(prev') \cup Range(curr'))
  BY <1>1, <1>2, <1>9, <1>10
<1>12. \A n \in 1..Len(given') : given'[n] = meant'[n]
  BY <1>1, <1>2, <1>3, <1>5
<1>13. Len(meant') = Len(given') /\ Read(prev)' = meant'[Len(given')]
  BY <1>1, <1>2, <1>5, <1>8
<1> QED
  BY <1>1, <1>2, <1>5, <1>6, <1>7, <1>11, <1>12, <1>13 DEF RowsInv

\* What is written to free cells is not read.
LEMMA FreeCellsStep ==
  ASSUME RowsInv, UNCHANGED <<columns, meant, pool, prev, curr, given>>,
         \A c \in Ids \ pool : rowContent'[c] = rowContent[c]
  PROVE  RowsInv'
<1>1. Cols' = Cols /\ Ids' = Ids /\ (IsRow(prev)' <=> IsRow(prev)) /\ (IsRow(curr)' <=> IsRow(curr))
  BY DEF Cols, Ids, IsRow
<1>2. CASE Cols = {}
  BY <1>1, <1>2 DEF RowsInv
<1>3. CASE Cols # {}
  <2>1. pool = Ids \ (Range(prev) \cup Range(curr)) /\ (prev = NoRow \/ IsRow(prev))
        /\ (curr = NoRow \/ IsRow(curr))
    BY <1>3 DEF RowsInv
  <2>2. Range(NoRow) = {}
    BY DEF Range, NoRow
  <2>3. \A cells : IsRow(cells) => Range(cells) \subseteq Ids
    BY DEF Range, IsRow
  <2>4. /\ \A c \in Range(prev) : rowContent'[c] = rowContent[c]
        /\ \A c \in Range(curr) : rowContent'[c] = rowContent[c]
    BY <2>1, <2>2, <2>3
  <2>5. /\ Read(prev)' = [i \in DOMAIN prev |-> rowContent'[prev[i]]]
        /\ Read(curr)' = [i \in DOMAIN curr |-> rowContent'[curr[i]]]
    BY DEF Read
  <2>6. Read(prev)' = Read(prev) /\ Read(curr)' = Read(curr)
    BY <2>4, <2>5, ReadSame
  <2> QED
    BY <1>1, <1>3, <2>6 DEF RowsInv
<1> QED
  BY <1>2, <1>3

\* A table without columns gives nothing.
LEMMA NoColumnsStep ==
  ASSUME RowsInv, Cols = {}, NextRow
  PROVE  RowsInv'
<1>1. curr = NoRow /\ given = <<>> /\ prev = NoRow /\ columns \in TableColumns
      /\ meant \in Seq([Cols -> RowData]) /\ given \in Seq([Cols -> RowData])
  BY DEF RowsInv
<1>2. Taken = NoRow
  BY DEF Taken, NoRow
<1>3. /\ UNCHANGED <<columns, prev, given>> /\ curr' = NoRow
      /\ \/ UNCHANGED meant
         \/ \E row \in [Cols -> RowData] : meant' = Append(meant, row)
  BY <1>1, <1>2 DEF NextRow, ReadRow, ParseRow, IgnoreRow, BadMark, OtherSheet, RowData
<1>4. meant' \in Seq([Cols -> RowData])
  BY <1>1, <1>3, AppendProperties
<1>5. Cols' = Cols
  BY <1>3 DEF Cols
<1> QED
  BY <1>1, <1>3, <1>4, <1>5 DEF RowsInv

LEMMA RowsStep == RowsInv /\ [NextRow]_rowVars => RowsInv'
<1> SUFFICES ASSUME RowsInv, [NextRow]_rowVars PROVE RowsInv'
  OBVIOUS
<1>1. CASE UNCHANGED rowVars
  BY <1>1, FreeCellsStep DEF rowVars
<1>2. CASE Cols = {} /\ NextRow
  BY <1>2, NoColumnsStep
<1>3. CASE Cols # {} /\ NextRow
  <2>1. CASE \E row \in [Cols -> Data \cup {Missing}], omit \in SUBSET {i \in Cols : IsKey(i)} :
               ReadRow(row, omit)
    BY <1>3, <2>1, ReadRowStep
  <2>2. CASE ParseRow
    BY <2>2, ParseRowStep
  <2>3. CASE IgnoreRow
    <3>1. Range(Taken) \subseteq pool
      BY <1>3, <2>3, TakenFacts DEF IgnoreRow
    <3>2. \A c \in Ids \ pool : rowContent'[c] = rowContent[c]
      BY <2>3, <3>1 DEF IgnoreRow
    <3> QED
      BY <2>3, <3>2, FreeCellsStep DEF IgnoreRow
  <2>4. CASE BadMark
    BY <2>4, FreeCellsStep DEF BadMark
  <2>5. CASE OtherSheet
    <3>1. \A c \in Ids \ pool : rowContent'[c] = rowContent[c]
      BY <2>5 DEF OtherSheet
    <3> QED
      BY <2>5, <3>1, FreeCellsStep DEF OtherSheet
  <2> QED
    BY <1>3, <2>1, <2>2, <2>3, <2>4, <2>5 DEF NextRow
<1> QED
  BY <1>1, <1>2, <1>3

\* The parser is given the rows as they were meant, whatever other sheets
\* write to the cells of the pool (RangeDataRows, AddCell), for tables of any
\* number of rows and columns.
THEOREM RowsKeepMeaning == SpecRows => []RowsAsMeant
<1>1. RowsInv => RowsAsMeant
  <2> SUFFICES ASSUME RowsInv PROVE given = SubSeq(meant, 1, Len(given))
    BY DEF RowsAsMeant
  <2>1. /\ meant \in Seq([Cols -> RowData]) /\ given \in Seq([Cols -> RowData])
        /\ Len(given) \in Nat /\ Len(meant) \in Nat
    BY LenProperties DEF RowsInv
  <2>2. Len(given) <= Len(meant) /\ \A n \in 1..Len(given) : given[n] = meant[n]
    <3>1. CASE Cols = {}
      <4>1. given = <<>> /\ Len(<<>>) = 0
        BY <3>1 DEF RowsInv
      <4> QED
        BY <2>1, <4>1
    <3>2. CASE Cols # {}
      BY <2>1, <3>2 DEF RowsInv
    <3> QED
      BY <3>1, <3>2
  <2>3. SubSeq(meant, 1, Len(given)) = [n \in 1..Len(given) |-> meant[n]]
    BY <2>1, <2>2
  <2>4. given = [n \in 1..Len(given) |-> given[n]]
    BY <2>1, LenProperties
  <2> QED
    BY <2>2, <2>3, <2>4
<1> QED
  BY <1>1, RowsInit, RowsStep, PTL DEF SpecRows

(***************************************************************************)
(* HeaderOptions: any options, of any number of rows and lines.            *)
(***************************************************************************)
(* The generators agree on the header wherever the row # of the metasheet   *)
(* does not decide (newTableParser, newBookParser, NewHeader).              *)
THEOREM HeadersOfBoth == SpecHeaderOptions => []HeadersAgree
<1>1. HeadersAgree
  BY DEF HeadersAgree, ProtoHeader, ConfHeader, NewHeader, WorkbookOptions, Unset, Default
<1> QED
  BY <1>1, PTL

(***************************************************************************)
(* Storing: any workbooks, options and messages. What a format tells of a  *)
(* message is read back from it; the jobs of an export do what the         *)
(* messages and options are such that they can do.                         *)
(***************************************************************************)
IsZone(zone) ==
  /\ zone.known \in BOOLEAN /\ zone.turn \in Int /\ zone.before \in Int /\ zone.after \in Int

IsTime(value) == value = <<>> \/ (value[1] \in Int /\ value = <<value[1]>>)
IsConf(msg) == msg = [f \in ConfFields |-> msg[f]] /\ IsTime(msg.use_time)

LEMMA TimeKept ==
  ASSUME IsZone(outZone), NEW t \in Int, ~CutOffset(t)
  PROVE  FormatTimestamp(t)[1] - FormatTimestamp(t)[2] = t
<1>1. OffsetAt(t) \in Int
  BY DEF IsZone, OffsetAt
<1>2. OffsetAt(t) % 2 = 0
  BY <1>1 DEF CutOffset
<1>3. PrintedOffset(OffsetAt(t)) = OffsetAt(t)
  <2> DEFINE o == OffsetAt(t)
  <2> HIDE DEF o
  <2>1. o \in Int /\ o % 2 = 0
    BY <1>1, <1>2 DEF o
  <2>2. PrintedOffset(o) = o
    BY <2>1 DEF PrintedOffset
  <2> QED
    BY <2>2 DEF o
<1>4. FormatTimestamp(t) = <<t + OffsetAt(t), OffsetAt(t)>> \/ FormatTimestamp(t) = <<t, 0>>
  BY <1>3 DEF FormatTimestamp
<1> QED
  BY <1>1, <1>4

LEMMA Keys ==
  /\ \A f \in ConfFields : JSONName(f) = f \/ (f = "use_time" /\ JSONName(f) = "useTime")
  /\ \A f, g \in ConfFields : KeyOf(f) = KeyOf(g) => f = g
  /\ \A f \in ConfFields : KeyOf(f) \in {f, JSONName(f)}
  /\ \A f, g \in ConfFields : KeyOf(f) \in {g, JSONName(g)} => f = g
BY DEF ConfFields, KeyOf, JSONName

\* The keys of a marshalled message and what they hold.
Emitted(msg, all) == {f \in ConfFields : all \/ msg[f] # <<>>}
Plain(msg, f) == IF f = "use_time" /\ msg.use_time # <<>> THEN <<msg.use_time[1], 0>> ELSE msg[f]
Zoned(msg, f) ==
  IF "emitTimezones" \in outFlags /\ f = "use_time" /\ msg.use_time # <<>>
  THEN FormatTimestamp(msg.use_time[1]) ELSE Plain(msg, f)

LEMMA JSONOut ==
  ASSUME NEW msg, IsConf(msg), NEW all \in BOOLEAN
  PROVE  LET out == MarshalToJSON(msg, all) IN
         /\ out.ok <=> ("emitTimezones" \in outFlags => outZone.known)
         /\ out.ok => /\ DOMAIN out.content = {KeyOf(f) : f \in Emitted(msg, all)}
                      /\ \A f \in Emitted(msg, all) : out.content[KeyOf(f)] = Zoned(msg, f)
<1> DEFINE fieldOf(key) == CHOOSE f \in Emitted(msg, all) : KeyOf(f) = key
           json == [key \in {KeyOf(f) : f \in Emitted(msg, all)} |->
                      IF fieldOf(key) = "use_time" /\ msg.use_time # <<>>
                      THEN <<msg.use_time[1], 0>> ELSE msg[fieldOf(key)]]
<1>1. MarshalToJSON(msg, all) =
        IF "emitTimezones" \in outFlags THEN ProcessWhenEmitTimezones(msg, json) ELSE Out(json)
  BY DEF MarshalToJSON, Emitted
<1>2. \A f \in Emitted(msg, all) : fieldOf(KeyOf(f)) = f
  BY Keys DEF Emitted
<1> HIDE DEF fieldOf
<1>3. /\ DOMAIN json = {KeyOf(f) : f \in Emitted(msg, all)}
      /\ \A f \in Emitted(msg, all) : json[KeyOf(f)] = Plain(msg, f)
  <2>1. DOMAIN json = {KeyOf(f) : f \in Emitted(msg, all)}
    OBVIOUS
  <2>2. ASSUME NEW f \in Emitted(msg, all)
        PROVE  json[KeyOf(f)] = Plain(msg, f)
    <3>1. KeyOf(f) \in {KeyOf(g) : g \in Emitted(msg, all)} /\ fieldOf(KeyOf(f)) = f
      BY <1>2
    <3>2. json[KeyOf(f)] = IF f = "use_time" /\ msg.use_time # <<>>
                           THEN <<msg.use_time[1], 0>> ELSE msg[f]
      BY <3>1
    <3> QED
      BY <3>2 DEF Plain
  <2> QED
    BY <2>1, <2>2
<1> HIDE DEF json
<1>4. CASE "emitTimezones" \notin outFlags
  BY <1>1, <1>3, <1>4 DEF Out, Zoned
<1>5. CASE "emitTimezones" \in outFlags
  <2>1. MarshalToJSON(msg, all) = ProcessWhenEmitTimezones(msg, json)
    BY <1>1, <1>5
  <2>2. CASE ~outZone.known
    BY <1>5, <2>1, <2>2 DEF ProcessWhenEmitTimezones, NotOut
  <2>3. CASE outZone.known /\ msg.use_time = <<>>
    <3>1. MarshalToJSON(msg, all) = Out(json)
      BY <2>1, <2>3 DEF ProcessWhenEmitTimezones
    <3> QED
      BY <1>3, <2>3, <3>1 DEF Out, Zoned
  <2>4. CASE outZone.known /\ msg.use_time # <<>>
    <3>1. "use_time" \in Emitted(msg, all)
      BY <2>4 DEF Emitted, ConfFields
    <3>2. TimestampKey \in DOMAIN json
      BY <1>3, <3>1 DEF TimestampKey
    <3>3. MarshalToJSON(msg, all) =
            Out([json EXCEPT ![TimestampKey] = FormatTimestamp(msg.use_time[1])])
      BY <2>1, <2>4, <3>2 DEF ProcessWhenEmitTimezones
    <3>4. \A f \in Emitted(msg, all) : KeyOf(f) = TimestampKey <=> f = "use_time"
      BY Keys, <3>1 DEF TimestampKey, Emitted
    <3> QED
      BY <1>3, <1>5, <2>4, <3>2, <3>3, <3>4 DEF Out, Zoned
  <2> QED
    BY <2>2, <2>3, <2>4
<1> QED
  BY <1>4, <1>5

LEMMA JSONTold ==
  ASSUME IsZone(outZone), NEW msg, IsConf(msg), NEW all \in BOOLEAN,
         MarshalToJSON(msg, all).ok, Told(msg, "json")
  PROVE  Unmarshal(MarshalToJSON(msg, all).content, "json") = msg
<1> DEFINE stored == MarshalToJSON(msg, all).content
           valueOf(f) == LET keys == {f, JSONName(f)} \cap DOMAIN stored
                         IN IF keys = {} THEN <<>> ELSE stored[CHOOSE key \in keys : TRUE]
           timeOf(v) == IF v = <<>> THEN <<>> ELSE <<v[1] - v[2]>>
<1>1. /\ DOMAIN stored = {KeyOf(f) : f \in Emitted(msg, all)}
      /\ \A f \in Emitted(msg, all) : stored[KeyOf(f)] = Zoned(msg, f)
  BY JSONOut
<1>2. Unmarshal(stored, "json") =
        [f \in ConfFields |-> IF f = "use_time" THEN timeOf(valueOf(f)) ELSE valueOf(f)]
  BY DEF Unmarshal
<1> HIDE DEF stored
<1>3. \A f \in ConfFields : valueOf(f) = IF f \in Emitted(msg, all) THEN Zoned(msg, f) ELSE <<>>
  <2> SUFFICES ASSUME NEW f \in ConfFields
               PROVE  valueOf(f) = IF f \in Emitted(msg, all) THEN Zoned(msg, f) ELSE <<>>
    OBVIOUS
  <2> DEFINE keys == {f, JSONName(f)} \cap DOMAIN stored
  <2>1. CASE f \in Emitted(msg, all)
    <3>1. keys = {KeyOf(f)}
      <4>1. \A g \in Emitted(msg, all) : KeyOf(g) \in {f, JSONName(f)} => g = f
        BY Keys DEF Emitted
      <4>2. KeyOf(f) \in keys
        BY <1>1, <2>1, Keys
      <4> QED
        BY <1>1, <4>1, <4>2
    <3>2. keys # {} /\ (CHOOSE key \in keys : TRUE) = KeyOf(f)
      BY <3>1
    <3> QED
      BY <1>1, <2>1, <3>2
  <2>2. CASE f \notin Emitted(msg, all)
    <3>1. keys = {}
      <4>1. \A g \in Emitted(msg, all) : KeyOf(g) \in {f, JSONName(f)} => g = f
        BY Keys DEF Emitted
      <4> QED
        BY <1>1, <2>2, <4>1
    <3> QED
      BY <2>2, <3>1
  <2> QED
    BY <2>1, <2>2
<1> HIDE DEF valueOf
<1>4. \A f \in ConfFields : f \notin Emitted(msg, all) => msg[f] = <<>>
  BY DEF Emitted
<1>5. \A f \in ConfFields : f # "use_time" => valueOf(f) = msg[f]
  BY <1>3, <1>4 DEF Zoned, Plain
<1>6. timeOf(valueOf("use_time")) = msg.use_time
  <2>0. "use_time" \in ConfFields
    BY DEF ConfFields
  <2>1. CASE msg.use_time = <<>>
    BY <1>3, <2>0, <2>1 DEF Zoned, Plain
  <2>2. CASE msg.use_time # <<>>
    <3> DEFINE t == msg.use_time[1]
    <3>1. t \in Int /\ msg.use_time = <<t>>
      BY <2>2 DEF IsConf, IsTime
    <3>2. "use_time" \in Emitted(msg, all)
      BY <2>0, <2>2 DEF Emitted
    <3>3. valueOf("use_time") = Zoned(msg, "use_time")
      BY <1>3, <2>0, <3>2
    <3>4. CASE "emitTimezones" \in outFlags
      <4>1. ~CutOffset(t)
        BY <2>2, <3>4 DEF Told
      <4>2. valueOf("use_time") = FormatTimestamp(t)
        BY <2>2, <3>3, <3>4 DEF Zoned
      <4>3. FormatTimestamp(t)[1] - FormatTimestamp(t)[2] = t
        BY <3>1, <4>1, TimeKept
      <4>4. FormatTimestamp(t) # <<>>
        BY DEF FormatTimestamp
      <4> QED
        BY <3>1, <4>2, <4>3, <4>4
    <3>5. CASE "emitTimezones" \notin outFlags
      <4>1. valueOf("use_time") = <<t, 0>>
        BY <2>2, <3>3, <3>5 DEF Zoned, Plain
      <4> QED
        BY <3>1, <4>1
    <3> QED
      BY <3>4, <3>5
  <2> QED
    BY <2>1, <2>2
<1>7. msg = [f \in ConfFields |-> msg[f]]
  BY DEF IsConf
<1> HIDE DEF timeOf
<1>8. \A f \in ConfFields : (IF f = "use_time" THEN timeOf(valueOf(f)) ELSE valueOf(f)) = msg[f]
  BY <1>5, <1>6
<1>9. Unmarshal(stored, "json") = msg
  BY <1>2, <1>7, <1>8
<1> QED
  BY <1>9 DEF stored

\* The other formats keep the message as it is, but for blanks.
LEMMA OtherTold ==
  ASSUME NEW msg, IsConf(msg), NEW fmt \in {"txt", "bin"}, NEW isPatch, Told(msg, fmt)
  PROVE  Unmarshal(Marshal(msg, fmt, isPatch).content, fmt) = msg
<1>1. CASE fmt = "bin"
  BY <1>1 DEF Marshal, MarshalToBin, Out, Unmarshal
<1>2. CASE fmt = "txt" /\ "pretty" \in outFlags
  BY <1>2 DEF Marshal, MarshalToText, Out, Unmarshal
<1>3. CASE fmt = "txt" /\ "pretty" \notin outFlags
  <2>1. Collapse(msg.text) = msg.text
    BY <1>3 DEF Told, HasGaps
  <2>2. Unmarshal(Marshal(msg, fmt, isPatch).content, fmt) = [msg EXCEPT !.text = Collapse(msg.text)]
    BY <1>3 DEF Marshal, MarshalToText, Out, Unmarshal
  <2>3. [msg EXCEPT !.text = msg.text] = msg
    BY DEF IsConf
  <2> QED
    BY <2>1, <2>2, <2>3
<1> QED
  BY <1>1, <1>2, <1>3

Formats == {"json", "bin", "txt"}

LEMMA MarshalTold ==
  ASSUME IsZone(outZone), NEW msg, IsConf(msg), NEW fmt \in Formats, NEW isPatch \in BOOLEAN
  PROVE  LET out == Marshal(msg, fmt, isPatch) IN
         /\ out.ok <=> (fmt = "json" /\ "emitTimezones" \in outFlags => outZone.known)
         /\ out.ok /\ Told(msg, fmt) => Unmarshal(out.content, fmt) = msg
         /\ out.ok /\ isPatch /\ fmt = "json" =>
              \A key \in DOMAIN out.content : out.content[key] # <<>>
<1>1. CASE fmt # "json"
  <2>1. Marshal(msg, fmt, isPatch).ok
    BY <1>1 DEF Formats, Marshal, MarshalToText, MarshalToBin, Out
  <2> QED
    BY <1>1, <2>1, OtherTold DEF Formats
<1>2. CASE fmt = "json"
  <2> DEFINE all == "emitUnpopulated" \in outFlags /\ ~isPatch
             out == MarshalToJSON(msg, all)
  <2>1. Marshal(msg, fmt, isPatch) = out /\ all \in BOOLEAN
    BY <1>2 DEF Marshal
  <2>2. isPatch => all = FALSE
    OBVIOUS
  <2> HIDE DEF all
  <2>3. out.ok <=> ("emitTimezones" \in outFlags => outZone.known)
    BY <2>1, JSONOut
  <2>4. out.ok /\ Told(msg, fmt) => Unmarshal(out.content, fmt) = msg
    BY <1>2, <2>1, JSONTold
  <2>5. ASSUME out.ok, isPatch, NEW key \in DOMAIN out.content
        PROVE  out.content[key] # <<>>
    <3>1. PICK f \in Emitted(msg, all) : key = KeyOf(f) /\ out.content[key] = Zoned(msg, f)
      BY <2>1, <2>5, JSONOut
    <3>2. msg[f] # <<>>
      BY <2>2, <2>5 DEF Emitted
    <3>3. Zoned(msg, f) # <<>>
      BY <3>2 DEF Zoned, Plain, FormatTimestamp
    <3> QED
      BY <3>1, <3>3
  <2> HIDE DEF out
  <2> QED
    BY <1>2, <2>1, <2>3, <2>4, <2>5
<1> QED
  BY <1>1, <1>2

-----------------------------------------------------------------------------
OutTypeInv ==
  /\ outFormats = [own |-> outFormats.own, all |-> outFormats.all]
  /\ outFormats.own \in Seq(Formats) /\ outFormats.all \in Seq(Formats)
  /\ IsZone(outZone)
  /\ MainBook \in DOMAIN outMsgs /\ DOMAIN outMsgs \subseteq OutBooks
  /\ outMsgs = [b \in DOMAIN outMsgs |-> outMsgs[b]]
  /\ \A b \in DOMAIN outMsgs : IsConf(outMsgs[b])
  /\ outJobs \in [OutBooks -> [state : {"waiting", "storing", "done", "failed"}, written : Nat]]

LEMMA FormatsAsked ==
  ASSUME OutTypeInv
  PROVE  ParseOutputFormats \in Seq(Formats) /\ Len(ParseOutputFormats) > 0
<1>1. AllFormats \in Seq(Formats) /\ Len(AllFormats) > 0
  BY DEF AllFormats, Formats
<1> QED
  BY <1>1 DEF OutTypeInv, ParseOutputFormats

LEMMA MessageIsConf ==
  ASSUME OutTypeInv, NEW b \in DOMAIN outMsgs
  PROVE  IsConf(MessageToStore(b))
<1> DEFINE dst == outMsgs[MainBook]
           src == outMsgs[b]
           patched == PatchConf(dst, src)
<1>1. IsConf(dst) /\ IsConf(src)
  BY DEF OutTypeInv
<1>2. IsConf(patched)
  <2>1. patched = [f \in ConfFields |-> patched[f]]
    BY DEF PatchConf, ConfFields
  <2>2. IsTime(patched.use_time)
    <3>1. CASE src.use_time = <<>> \/ dst.use_time = <<>>
      BY <1>1, <3>1 DEF PatchConf, IsConf
    <3>2. CASE src.use_time # <<>> /\ dst.use_time # <<>>
      <4> DEFINE t == PatchScalar(dst.use_time[1], src.use_time[1])
      <4>1. t \in Int
        BY <1>1, <3>2 DEF IsConf, IsTime, PatchScalar
      <4>2. patched.use_time = <<t>>
        BY <3>2 DEF PatchConf
      <4> QED
        BY <4>1, <4>2 DEF IsTime
    <3> QED
      BY <3>1, <3>2
  <2> QED
    BY <2>1, <2>2 DEF IsConf
<1> QED
  BY <1>1, <1>2 DEF MessageToStore

\* The settings of an export and its messages do not change in it.
OutSettings == <<outKind, outFlags, outFormats, outZone, outMsgs>>
Marshaled(b, fmt) == Marshal(MessageToStore(b), fmt, IsPatch(b))

LEMMA Frozen ==
  ASSUME UNCHANGED OutSettings
  PROVE  /\ ParseOutputFormats' = ParseOutputFormats
         /\ \A b : ConfName(b)' = ConfName(b)
         /\ \A b : MessageToStore(b)' = MessageToStore(b)
         /\ \A b : IsPatch(b)' <=> IsPatch(b)
         /\ \A b : NotStorable(b)' <=> NotStorable(b)
         /\ \A b, fmt : Marshaled(b, fmt)' = Marshaled(b, fmt)
<1>1. /\ outKind' = outKind /\ outFlags' = outFlags /\ outFormats' = outFormats
      /\ outZone' = outZone /\ outMsgs' = outMsgs
  BY DEF OutSettings
<1>2. ParseOutputFormats' = ParseOutputFormats
  BY <1>1 DEF ParseOutputFormats
<1>3. \A b : ConfName(b)' = ConfName(b)
  BY <1>1 DEF ConfName
<1>4. \A b : MessageToStore(b)' = MessageToStore(b)
  BY <1>1 DEF MessageToStore
<1>5. \A b : IsPatch(b)' <=> IsPatch(b)
  BY <1>1 DEF IsPatch
<1>6. \A b : NotStorable(b)' <=> NotStorable(b)
  BY <1>1, <1>2, <1>4, <1>5 DEF NotStorable
<1>7. \A b, fmt : Marshaled(b, fmt)' = Marshaled(b, fmt)
  <2>1. \A f : KeyOf(f)' = KeyOf(f)
    BY <1>1 DEF KeyOf
  <2>2. \A t : FormatTimestamp(t)' = FormatTimestamp(t)
    BY <1>1 DEF FormatTimestamp, OffsetAt
  <2>3. TimestampKey' = TimestampKey
    BY <2>1 DEF TimestampKey
  <2>4. \A m, json : ProcessWhenEmitTimezones(m, json)' = ProcessWhenEmitTimezones(m, json)
    BY <1>1, <2>2, <2>3 DEF ProcessWhenEmitTimezones
  <2>5. \A m, all : MarshalToJSON(m, all)' = MarshalToJSON(m, all)
    BY <1>1, <2>1, <2>4 DEF MarshalToJSON
  <2>6. \A m : MarshalToText(m)' = MarshalToText(m)
    BY <1>1 DEF MarshalToText
  <2>7. \A m, fmt, isPatch : Marshal(m, fmt, isPatch)' = Marshal(m, fmt, isPatch)
    BY <1>1, <2>5, <2>6 DEF Marshal
  <2> QED
    BY <1>4, <1>5, <2>7 DEF Marshaled
<1> QED
  BY <1>2, <1>3, <1>4, <1>5, <1>6, <1>7

KeyAt(b, i) == [name |-> ConfName(b), format |-> ParseOutputFormats[i]]

JobInv(b) ==
  LET state == outJobs[b].state
      written == outJobs[b].written
  IN /\ state # "waiting" => b \in DOMAIN outMsgs
     /\ (b # MainBook /\ state # "waiting") => outJobs[MainBook].state = "done"
     /\ state = "waiting" => written = 0
     /\ state = "failed" => NotStorable(b)
     /\ state \in {"storing", "done"} => IsPatch(b) \/ Validates(MessageToStore(b))
     /\ state = "storing" => written < Len(ParseOutputFormats)
     /\ state = "done" => written = Len(ParseOutputFormats)
     /\ written <= Len(ParseOutputFormats)
     /\ \A i \in 1..written : Marshaled(b, ParseOutputFormats[i]).ok /\ KeyAt(b, i) \in DOMAIN outFiles

FileInv(at) ==
  \E b \in DOMAIN outMsgs, fmt \in Formats :
    /\ at.name = ConfName(b) /\ at.format = fmt /\ Contains(ParseOutputFormats, fmt)
    /\ Marshaled(b, fmt).ok /\ outFiles[at] = Marshaled(b, fmt).content

NotBegunInv ==
  ~ExportBegun => DOMAIN outFiles = {} /\ \A b \in OutBooks : outJobs[b].state = "waiting"

OutInv ==
  /\ NotBegunInv
  /\ \A b \in OutBooks : JobInv(b)
  /\ \A at \in DOMAIN outFiles : FileInv(at)

\* As long as nothing is begun there is nothing to keep.
LEMMA NothingBegun ==
  ASSUME OutTypeInv, ~ExportBegun, OutInv, UNCHANGED <<outJobs, outFiles>>, OutTypeInv'
  PROVE  OutInv'
<1>1. DOMAIN outFiles' = {} /\ \A b \in OutBooks : outJobs'[b].state = "waiting" /\ outJobs'[b].written = 0
  BY DEF OutInv, NotBegunInv, JobInv
<1>2. NotBegunInv'
  BY <1>1 DEF NotBegunInv
<1>3. Len(ParseOutputFormats') >= 0
  <2>1. OutTypeInv' => ParseOutputFormats' \in Seq(Formats)
    <3>1. (OutTypeInv => ParseOutputFormats \in Seq(Formats) /\ Len(ParseOutputFormats) > 0)'
      BY FormatsAsked, PTL
    <3> QED
      BY <3>1
  <2> QED
    BY <2>1
<1>4. \A b \in OutBooks : JobInv(b)'
  BY <1>1, <1>3 DEF JobInv
<1> QED
  BY <1>1, <1>2, <1>4 DEF OutInv

LEMMA SettingStep ==
  ASSUME StoringAssumption, OutTypeInv, OutInv,
         \/ \E flag \in OutFlags : SetOutputFlag(flag)
         \/ \E whose \in {"own", "all"}, fmt \in {"json", "bin", "txt"} : AskFormat(whose, fmt)
         \/ \E zone \in Zones \cup {Nowhere} : SetLocation(zone)
         \/ \E b \in OutBooks \ {MainBook} : AddScattered(b)
         \/ \E b \in OutBooks, f \in ConfFields : \E value \in ConfSamples[f] : FillConf(b, f, value)
  PROVE  OutTypeInv' /\ OutInv'
<1>1. ~ExportBegun /\ UNCHANGED <<outJobs, outFiles>>
  BY DEF SetOutputFlag, AskFormat, SetLocation, AddScattered, FillConf, CanAsk
<1>2. OutTypeInv'
  <2>1. ASSUME NEW flag \in OutFlags, SetOutputFlag(flag)
        PROVE  OutTypeInv'
    BY <2>1 DEF OutTypeInv, SetOutputFlag, IsZone, IsConf, IsTime
  <2>2. ASSUME NEW whose \in {"own", "all"}, NEW fmt \in {"json", "bin", "txt"}, AskFormat(whose, fmt)
        PROVE  OutTypeInv'
    <3>1. /\ outFormats' = [own |-> outFormats'.own, all |-> outFormats'.all]
          /\ outFormats'.own \in Seq(Formats) /\ outFormats'.all \in Seq(Formats)
      <4>1. \A s \in Seq(Formats) : Append(s, fmt) \in Seq(Formats)
        BY DEF Formats
      <4>2. outFormats' = [outFormats EXCEPT ![whose] = Append(outFormats[whose], fmt)]
        BY <2>2 DEF AskFormat
      <4>3. CASE whose = "own"
        BY <4>1, <4>2, <4>3 DEF OutTypeInv
      <4>4. CASE whose = "all"
        BY <4>1, <4>2, <4>4 DEF OutTypeInv
      <4> QED
        BY <4>3, <4>4
    <3> QED
      BY <2>2, <3>1 DEF OutTypeInv, AskFormat, IsZone, IsConf, IsTime
  <2>3. ASSUME NEW zone \in Zones \cup {Nowhere}, SetLocation(zone)
        PROVE  OutTypeInv'
    <3>1. IsZone(zone)
      <4>1. CASE zone = Nowhere
        BY <4>1 DEF Nowhere, UTC, IsZone
      <4>2. CASE zone \in Zones
        BY <4>2 DEF StoringAssumption, IsZone
      <4> QED
        BY <4>1, <4>2
    <3>2. outZone' = zone
      BY <2>3 DEF SetLocation
    <3>3. IsZone(outZone')
      BY <3>1, <3>2
    <3> QED
      BY <2>3, <3>3 DEF OutTypeInv, SetLocation, IsConf, IsTime
  <2>4. ASSUME NEW b \in OutBooks \ {MainBook}, AddScattered(b)
        PROVE  OutTypeInv'
    <3>1. IsConf(EmptyConf)
      BY DEF EmptyConf, IsConf, IsTime, ConfFields
    <3> QED
      BY <2>4, <3>1 DEF OutTypeInv, AddScattered, IsZone
  <2>5. ASSUME NEW b \in OutBooks, NEW f \in ConfFields, NEW value \in ConfSamples[f], FillConf(b, f, value)
        PROVE  OutTypeInv'
    <3>1. b \in DOMAIN outMsgs /\ IsConf(outMsgs[b])
      BY <2>5 DEF FillConf, OutTypeInv
    <3>2. outMsgs' = [outMsgs EXCEPT ![b] = [outMsgs[b] EXCEPT ![f] = value]]
      BY <2>5 DEF FillConf
    <3> DEFINE msg == [outMsgs[b] EXCEPT ![f] = value]
    <3>3. IsConf(msg)
      <4>1. f = "use_time" => IsTime(value)
        BY DEF StoringAssumption, IsTime
      <4> QED
        BY <3>1, <4>1 DEF IsConf, ConfFields
    <3> HIDE DEF msg
    <3>4. /\ DOMAIN outMsgs' = DOMAIN outMsgs
          /\ \A c \in DOMAIN outMsgs : IsConf(outMsgs'[c])
          /\ outMsgs' = [c \in DOMAIN outMsgs' |-> outMsgs'[c]]
      <4>1. outMsgs' = [outMsgs EXCEPT ![b] = msg]
        BY <3>2 DEF msg
      <4> QED
        BY <3>1, <3>3, <4>1 DEF OutTypeInv
    <3> QED
      BY <2>5, <3>4 DEF OutTypeInv, FillConf, IsZone
  <2> QED
    BY <2>1, <2>2, <2>3, <2>4, <2>5
<1> QED
  BY <1>1, <1>2, NothingBegun

LEMMA StoreMessageStep ==
  ASSUME OutTypeInv, OutInv, NEW b \in OutBooks, StoreMessage(b)
  PROVE  OutTypeInv' /\ OutInv'
<1> DEFINE state == IF IsPatch(b) \/ Validates(MessageToStore(b)) THEN "storing" ELSE "failed"
<1>1. /\ b \in DOMAIN outMsgs /\ outJobs[b].state = "waiting"
      /\ b = MainBook \/ outJobs[MainBook].state = "done"
      /\ outJobs' = [outJobs EXCEPT ![b].state = state]
      /\ UNCHANGED OutSettings /\ outFiles' = outFiles
  BY DEF StoreMessage, OutSettings
<1>2. OutTypeInv'
  BY <1>1 DEF OutTypeInv, OutSettings, IsZone, IsConf, IsTime
<1>3. outJobs'[b].state = state /\ outJobs'[b].written = 0
  <2>1. outJobs[b].written = 0
    BY <1>1 DEF OutInv, JobInv
  <2> QED
    BY <1>1, <2>1 DEF OutTypeInv
<1>4. \A c \in OutBooks \ {b} : outJobs'[c] = outJobs[c]
  BY <1>1 DEF OutTypeInv
<1>5. state = "failed" => NotStorable(b)
  BY DEF NotStorable
<1>6. state \in {"storing", "failed"} /\ (state = "storing" => IsPatch(b) \/ Validates(MessageToStore(b)))
  OBVIOUS
<1> HIDE DEF state
<1>7. Len(ParseOutputFormats) > 0
  BY FormatsAsked
<1>8. MainBook \in OutBooks
  BY DEF OutTypeInv
<1>9. \A c \in OutBooks : JobInv(c)'
  <2>1. JobInv(b)'
    BY <1>1, <1>3, <1>4, <1>5, <1>6, <1>7, <1>8, Frozen DEF JobInv, OutSettings
  <2>2. ASSUME NEW c \in OutBooks \ {b}
        PROVE  JobInv(c)'
    <3>1. outJobs'[MainBook].state = "done" <=> outJobs[MainBook].state = "done"
      BY <1>1, <1>3, <1>4, <1>6, <1>8
    <3>2. JobInv(c)
      BY DEF OutInv
    <3> QED
      BY <1>1, <1>4, <3>1, <3>2, Frozen DEF JobInv, KeyAt, OutSettings
  <2> QED
    BY <2>1, <2>2
<1>10. NotBegunInv'
  <2>1. outJobs'[MainBook].state # "waiting"
    <3>1. CASE b = MainBook
      BY <1>3, <1>6, <3>1
    <3>2. CASE b # MainBook
      BY <1>1, <1>4, <1>8, <3>2
    <3> QED
      BY <3>1, <3>2
  <2> QED
    BY <2>1 DEF NotBegunInv, ExportBegun
<1>11. \A at \in DOMAIN outFiles' : FileInv(at)'
  BY <1>1, Frozen DEF OutInv, FileInv, OutSettings, Contains
<1> QED
  BY <1>2, <1>9, <1>10, <1>11 DEF OutInv

LEMMA StoreStep ==
  ASSUME OutTypeInv, OutInv, NEW b \in OutBooks, Store(b)
  PROVE  OutTypeInv' /\ OutInv'
<1> DEFINE written == outJobs[b].written + 1
           fmt == ParseOutputFormats[written]
           out == Marshaled(b, fmt)
           at == [name |-> ConfName(b), format |-> fmt]
           state == IF ~out.ok THEN "failed"
                    ELSE IF written = Len(ParseOutputFormats) THEN "done" ELSE "storing"
           reached == IF out.ok THEN written ELSE outJobs[b].written
<1>1. /\ outJobs[b].state = "storing"
      /\ outJobs' = [outJobs EXCEPT ![b] = [state |-> state, written |-> reached]]
      /\ outFiles' = IF ~out.ok THEN outFiles
                     ELSE [x \in DOMAIN outFiles \cup {at} |-> IF x = at THEN out.content ELSE outFiles[x]]
      /\ UNCHANGED OutSettings
  BY DEF Store, OutSettings, Marshaled
<1>2. outJobs[b].written \in Nat /\ written \in Nat /\ reached \in Nat
  BY DEF OutTypeInv
<1>3. JobInv(b) /\ b \in DOMAIN outMsgs /\ written \in 1..Len(ParseOutputFormats)
  <2>1. JobInv(b)
    BY DEF OutInv
  <2>2. Len(ParseOutputFormats) \in Nat
    BY FormatsAsked
  <2> QED
    BY <1>1, <1>2, <2>1, <2>2 DEF JobInv
<1>4. fmt \in Formats /\ Contains(ParseOutputFormats, fmt)
  BY <1>3, FormatsAsked DEF Contains
<1>5. ~out.ok => NotStorable(b)
  <2>1. IsConf(MessageToStore(b)) /\ IsZone(outZone) /\ IsPatch(b) \in BOOLEAN
    BY <1>3, MessageIsConf DEF OutTypeInv, IsPatch
  <2>2. out.ok <=> (fmt = "json" /\ "emitTimezones" \in outFlags => outZone.known)
    BY <1>4, <2>1, MarshalTold DEF Marshaled
  <2> QED
    BY <1>4, <2>2 DEF NotStorable
<1>6. OutTypeInv'
  <2>1. [state |-> state, written |-> reached]
          \in [state : {"waiting", "storing", "done", "failed"}, written : Nat]
    BY <1>2
  <2> HIDE DEF state, reached
  <2> QED
    BY <1>1, <2>1 DEF OutTypeInv, OutSettings, IsZone, IsConf, IsTime
<1>7. outJobs'[b].state = state /\ outJobs'[b].written = reached
  BY <1>1 DEF OutTypeInv
<1>8. \A c \in OutBooks \ {b} : outJobs'[c] = outJobs[c]
  BY <1>1 DEF OutTypeInv
<1>9. MainBook \in OutBooks
  BY DEF OutTypeInv
<1>10. b = MainBook => \A c \in OutBooks \ {b} : outJobs[c].state = "waiting"
  BY <1>1 DEF OutInv, JobInv
<1>11. /\ state # "waiting" /\ (state = "failed" <=> ~out.ok)
       /\ (state \in {"storing", "done"} <=> out.ok)
       /\ (state = "done" => written = Len(ParseOutputFormats))
       /\ (state = "storing" => written # Len(ParseOutputFormats))
       /\ (out.ok => reached = written) /\ (~out.ok => reached = written - 1)
  BY <1>2
<1>12. DOMAIN outFiles \subseteq DOMAIN outFiles' /\ (out.ok => at \in DOMAIN outFiles')
  BY <1>1
<1> HIDE DEF state, reached, out, written
<1>13. \A c \in OutBooks : JobInv(c)'
  <2>1. JobInv(b)'
    <3> DEFINE n == Len(ParseOutputFormats)
    <3>1. n \in Nat
      BY FormatsAsked
    <3>2. reached <= n /\ (state = "storing" => reached < n) /\ (state = "done" => reached = n)
      BY <1>3, <1>11, <3>1
    <3>3. \A i \in 1..reached : Marshaled(b, ParseOutputFormats[i]).ok /\ KeyAt(b, i) \in DOMAIN outFiles'
      <4>1. \A i \in 1..(written - 1) : Marshaled(b, ParseOutputFormats[i]).ok /\ KeyAt(b, i) \in DOMAIN outFiles
        BY <1>2, <1>3 DEF JobInv, written
      <4>2. out.ok => Marshaled(b, ParseOutputFormats[written]).ok /\ KeyAt(b, written) \in DOMAIN outFiles'
        BY <1>12 DEF out, KeyAt
      <4>3. \A i \in 1..reached : i \in 1..(written - 1) \/ (out.ok /\ i = written)
        BY <1>2, <1>11
      <4> QED
        BY <1>12, <4>1, <4>2, <4>3
    <3>4. b # MainBook => outJobs'[MainBook].state = "done"
      BY <1>1, <1>3, <1>8, <1>9 DEF JobInv
    <3>5. state \in {"storing", "done"} => IsPatch(b) \/ Validates(MessageToStore(b))
      BY <1>1, <1>3 DEF JobInv
    <3> HIDE DEF n
    <3>6. ParseOutputFormats' = ParseOutputFormats /\ outMsgs' = outMsgs /\ n = Len(ParseOutputFormats)
      BY <1>1, Frozen DEF OutSettings, n
    <3>7. \A i : KeyAt(b, i)' = KeyAt(b, i)
      BY <1>1, Frozen DEF KeyAt
    <3> QED
      BY <1>1, <1>3, <1>5, <1>7, <1>11, <3>2, <3>3, <3>4, <3>5, <3>6, <3>7, Frozen DEF JobInv
  <2>2. ASSUME NEW c \in OutBooks \ {b}
        PROVE  JobInv(c)'
    <3>1. outJobs[c].state # "waiting" /\ c # MainBook => outJobs'[MainBook].state = "done"
      <4>1. CASE b = MainBook
        BY <1>10, <4>1
      <4>2. CASE b # MainBook
        BY <1>8, <1>9, <4>2 DEF OutInv, JobInv
      <4> QED
        BY <4>1, <4>2
    <3>2. JobInv(c)
      BY DEF OutInv
    <3>3. \A i : KeyAt(c, i)' = KeyAt(c, i)
      BY <1>1, Frozen DEF KeyAt
    <3>4. outJobs'[c] = outJobs[c] /\ outMsgs' = outMsgs
      BY <1>1, <1>8 DEF OutSettings
    <3> QED
      BY <1>1, <1>12, <3>1, <3>2, <3>3, <3>4, Frozen DEF JobInv
  <2> QED
    BY <2>1, <2>2
<1>14. NotBegunInv'
  <2>1. outJobs'[MainBook].state # "waiting"
    <3>1. CASE b = MainBook
      BY <1>7, <1>11, <3>1
    <3>2. CASE b # MainBook
      BY <1>1, <1>3, <1>8, <1>9, <3>2 DEF JobInv
    <3> QED
      BY <3>1, <3>2
  <2> QED
    BY <2>1 DEF NotBegunInv, ExportBegun
<1>15. \A x \in DOMAIN outFiles' : FileInv(x)'
  <2>1. ASSUME NEW x \in DOMAIN outFiles, outFiles'[x] = outFiles[x]
        PROVE  FileInv(x)'
    <3>1. FileInv(x)
      BY DEF OutInv
    <3> QED
      BY <1>1, <2>1, <3>1, Frozen DEF FileInv, OutSettings, Contains
  <2>2. ASSUME out.ok, NEW x, x = at
        PROVE  FileInv(x)'
    <3>1. outFiles'[x] = out.content
      BY <1>1, <2>2
    <3>2. x.name = ConfName(b) /\ x.format = fmt
      BY <2>2
    <3>3. Marshaled(b, fmt).ok /\ outFiles'[x] = Marshaled(b, fmt).content
      BY <2>2, <3>1 DEF out
    <3> HIDE DEF at, fmt
    <3>4. PICK f : f = fmt
      OBVIOUS
    <3>5. /\ f \in Formats /\ x.name = ConfName(b)' /\ x.format = f
          /\ Contains(ParseOutputFormats', f)
          /\ Marshaled(b, f)'.ok /\ outFiles'[x] = Marshaled(b, f)'.content
      BY <1>1, <1>4, <3>2, <3>3, <3>4, Frozen DEF OutSettings
    <3>6. b \in DOMAIN outMsgs'
      BY <1>1, <1>3 DEF OutSettings
    <3> QED
      BY <3>5, <3>6 DEF FileInv, Contains
  <2>3. \A x \in DOMAIN outFiles' : (x \in DOMAIN outFiles /\ outFiles'[x] = outFiles[x]) \/ (out.ok /\ x = at)
    BY <1>1
  <2> QED
    BY <2>1, <2>2, <2>3
<1> QED
  BY <1>6, <1>13, <1>14, <1>15 DEF OutInv

LEMMA OutMeans ==
  ASSUME OutTypeInv, OutInv
  PROVE  ExportsAreLoadable
<1> SUFFICES ASSUME ExportOver
             PROVE  ExportsAreLoadable
  BY DEF ExportsAreLoadable
<1>1. MainBook \in OutBooks /\ DOMAIN outMsgs \subseteq OutBooks /\ MainBook \in DOMAIN outMsgs
  BY DEF OutTypeInv
<1>2. \A b \in OutBooks : outJobs[b].written \in Nat
  BY DEF OutTypeInv
<1>3. ASSUME NEW b \in OutBooks, outJobs[b].state = "done", b \in DOMAIN outMsgs
      PROVE  ~NotStorable(b)
  <2>1. JobInv(b)
    BY DEF OutInv
  <2>2. IsPatch(b) \/ Validates(MessageToStore(b))
    BY <1>3, <2>1 DEF JobInv
  <2>3. ASSUME "emitTimezones" \in outFlags, Contains(ParseOutputFormats, "json")
        PROVE  outZone.known
    <3>1. PICK i \in 1..Len(ParseOutputFormats) : ParseOutputFormats[i] = "json"
      BY <2>3 DEF Contains
    <3>2. Marshaled(b, "json").ok
      BY <1>2, <1>3, <2>1, <3>1 DEF JobInv
    <3>3. IsConf(MessageToStore(b)) /\ IsZone(outZone) /\ IsPatch(b) \in BOOLEAN
      BY <1>3, MessageIsConf DEF OutTypeInv, IsPatch
    <3>4. Marshaled(b, "json").ok <=> ("emitTimezones" \in outFlags => outZone.known)
      BY <3>3, MarshalTold DEF Marshaled, Formats
    <3> QED
      BY <2>3, <3>2, <3>4
  <2> QED
    BY <2>2, <2>3 DEF NotStorable
<1>4. ASSUME NEW b \in DOMAIN outMsgs
      PROVE  (outJobs[b].state = "done") <=> ~NotStorable(b) /\ ~NotStorable(MainBook)
  <2>1. JobInv(b) /\ JobInv(MainBook)
    BY <1>1 DEF OutInv
  <2>2. outJobs[b].state = "done" => ~NotStorable(b) /\ ~NotStorable(MainBook)
    BY <1>1, <1>3, <2>1 DEF JobInv
  <2>3. ASSUME ~NotStorable(b), ~NotStorable(MainBook)
        PROVE  outJobs[b].state = "done"
    <3>1. outJobs[MainBook].state = "done"
      BY <2>1, <2>3 DEF JobInv, ExportOver
    <3> QED
      BY <2>1, <2>3, <3>1 DEF JobInv, ExportOver
  <2> QED
    BY <2>2, <2>3
<1>5. ASSUME NEW b \in DOMAIN outMsgs, NEW i \in DOMAIN ParseOutputFormats, outJobs[b].state = "done"
      PROVE  [name |-> ConfName(b), format |-> ParseOutputFormats[i]] \in DOMAIN outFiles
  <2>1. JobInv(b) /\ outJobs[b].written \in Nat
    BY <1>1, <1>2 DEF OutInv
  <2>2. i \in 1..outJobs[b].written
    BY <1>5, <2>1, FormatsAsked DEF JobInv
  <2> QED
    BY <2>1, <2>2 DEF JobInv, KeyAt
<1>6. ASSUME NEW at \in DOMAIN outFiles
      PROVE  \E b \in DOMAIN outMsgs :
               /\ ConfName(b) = at.name /\ Contains(ParseOutputFormats, at.format)
               /\ Told(MessageToStore(b), at.format) =>
                    Unmarshal(outFiles[at], at.format) = MessageToStore(b)
               /\ (IsPatch(b) /\ at.format = "json") =>
                    \A key \in DOMAIN outFiles[at] : outFiles[at][key] # <<>>
  <2>1. PICK b \in DOMAIN outMsgs, fmt \in Formats :
          /\ at.name = ConfName(b) /\ at.format = fmt /\ Contains(ParseOutputFormats, fmt)
          /\ Marshaled(b, fmt).ok /\ outFiles[at] = Marshaled(b, fmt).content
    BY DEF OutInv, FileInv
  <2>2. IsConf(MessageToStore(b)) /\ IsZone(outZone) /\ IsPatch(b) \in BOOLEAN
    BY MessageIsConf DEF OutTypeInv, IsPatch
  <2>3. /\ Told(MessageToStore(b), fmt) => Unmarshal(outFiles[at], fmt) = MessageToStore(b)
        /\ (IsPatch(b) /\ fmt = "json") => \A key \in DOMAIN outFiles[at] : outFiles[at][key] # <<>>
    BY <2>1, <2>2, MarshalTold DEF Marshaled
  <2> QED
    BY <2>1, <2>3
<1> QED
  BY <1>4, <1>5, <1>6 DEF ExportsAreLoadable

LEMMA OutInit ==
  ASSUME StoringAssumption, InitStoring
  PROVE  OutTypeInv /\ OutInv
<1>1. OutTypeInv
  <2>1. IsConf(EmptyConf)
    BY DEF EmptyConf, IsConf, IsTime, ConfFields
  <2>2. IsZone(UTC)
    BY DEF UTC, IsZone
  <2>3. <<>> \in Seq(Formats)
    OBVIOUS
  <2> QED
    BY <2>1, <2>2, <2>3 DEF OutTypeInv, InitStoring, StoringAssumption
<1>2. Len(ParseOutputFormats) \in Nat
  BY <1>1, FormatsAsked
<1>3. DOMAIN outFiles = {} /\ \A b \in OutBooks : outJobs[b].state = "waiting" /\ outJobs[b].written = 0
  BY DEF InitStoring
<1> QED
  BY <1>1, <1>2, <1>3 DEF OutInv, NotBegunInv, JobInv

(* What an export leaves is what was meant by it, whatever the workbooks,   *)
(* options, messages and time zones are (storeMessage, store.Store,         *)
(* load.Unmarshal), in every order in which the goroutines of the           *)
(* scattered workbooks write: by OutTypeInv and OutInv, of the jobs and of  *)
(* the files that there are.                                                *)
THEOREM ExportsLoad == SpecStoring => []ExportsAreLoadable
<1>1. InitStoring => OutTypeInv /\ OutInv
  BY StoringAssumption, OutInit
<1>2. OutTypeInv /\ OutInv /\ [NextStoring]_outVars => (OutTypeInv /\ OutInv)'
  <2> SUFFICES ASSUME OutTypeInv, OutInv, [NextStoring]_outVars
               PROVE  OutTypeInv' /\ OutInv'
    OBVIOUS
  <2>1. ASSUME NEW b \in OutBooks, StoreMessage(b) \/ Store(b)
        PROVE  OutTypeInv' /\ OutInv'
    BY <2>1, StoreMessageStep, StoreStep
  <2>2. CASE UNCHANGED outVars
    <3>1. UNCHANGED OutSettings /\ outJobs' = outJobs /\ outFiles' = outFiles
      BY <2>2 DEF outVars, OutSettings
    <3>2. OutTypeInv'
      BY <3>1 DEF OutTypeInv, OutSettings, IsZone, IsConf, IsTime
    <3>3. \A b, i : KeyAt(b, i)' = KeyAt(b, i)
      BY <3>1, Frozen DEF KeyAt
    <3>4. \A b \in OutBooks : JobInv(b)'
      BY <3>1, <3>3, Frozen DEF OutInv, JobInv, OutSettings
    <3>5. \A at \in DOMAIN outFiles' : FileInv(at)'
      BY <3>1, Frozen DEF OutInv, FileInv, OutSettings, Contains
    <3>6. NotBegunInv'
      BY <3>1 DEF OutInv, NotBegunInv, ExportBegun
    <3> QED
      BY <3>2, <3>4, <3>5, <3>6 DEF OutInv
  <2> QED
    BY <2>1, <2>2, SettingStep, StoringAssumption DEF NextStoring
<1>3. OutTypeInv /\ OutInv => ExportsAreLoadable
  BY OutMeans
<1> QED
  BY <1>1, <1>2, <1>3, PTL DEF SpecStoring
-----------------------------------------------------------------------------
(***************************************************************************)
(* Folds over sequences, without induction: what holds at the first        *)
(* position, and at each position if at the one before, holds at all.      *)
(***************************************************************************)
LEMMA AllPositions ==
  ASSUME NEW n \in Nat, NEW P, 0 \in P, \A i \in 1..n : i - 1 \in P => i \in P
  PROVE  \A i \in 0..n : i \in P
  <1> DEFINE F == {i \in 0..n : i \notin P}
  <1>1. SUFFICES ASSUME F # {} PROVE FALSE
    OBVIOUS
  <1>2. F \subseteq Nat
    OBVIOUS
  <1>3. PICK i \in F : \A j \in F : i <= j
    <2> HIDE DEF F
    <2>1. QED
      BY <1>1, <1>2, LeastOf
  <1>4. i \in 0..n /\ i \notin P /\ i \in Int
    OBVIOUS
  <1>5. i \in 1..n
    BY <1>4
  <1>6. i - 1 \in 0..n /\ i - 1 \notin P
    BY <1>4, <1>5
  <1>7. i - 1 \in F
    BY <1>6
  <1>8. QED
    BY <1>3, <1>4, <1>7

\* The greatest of a set of positions, as Folds chooses it.
Top(T) == CHOOSE x \in T : \A y \in T : x >= y

LEMMA TopFacts ==
  ASSUME NEW n \in Nat, NEW T \in SUBSET (1..n), T # {}
  PROVE  Top(T) \in T /\ \A y \in T : Top(T) >= y
  <1> DEFINE B == {k \in Nat : \A y \in T : k >= y}
  <1>1. n \in B /\ B \subseteq Nat /\ \A y \in T : y \in 1..n
    OBVIOUS
  <1>2. PICK k \in B : \A j \in B : k <= j
    <2> HIDE DEF B
    <2>1. QED
      BY <1>1, LeastOf
  <1>3. k \in T
    <2>1. SUFFICES ASSUME k \notin T PROVE FALSE
      OBVIOUS
    <2>2. PICK y \in T : TRUE
      OBVIOUS
    <2>3. k \in Nat /\ \A z \in T : k >= z /\ z \in Nat /\ z # k /\ z >= 1
      BY <1>1, <2>1
    <2>4. k - 1 \in Nat /\ \A z \in T : k - 1 >= z
      BY <2>2, <2>3
    <2>5. k - 1 \in B
      BY <2>4
    <2>6. QED
      BY <1>2, <2>3, <2>5
  <1>4. \A y \in T : k >= y
    OBVIOUS
  <1>5. QED
    BY <1>3, <1>4 DEF Top

LEMMA TopIs ==
  ASSUME NEW k \in Nat, NEW T \in SUBSET (1..k), k \in T
  PROVE  Top(T) = k
  <1>1. Top(T) \in T /\ Top(T) >= k
    BY TopFacts
  <1>2. Top(T) \in 1..k
    BY <1>1
  <1>3. QED
    BY <1>1, <1>2

\* What is folded: at each position, what is found so far becomes the next.
IsStep(step, S, n) == step \in [(1..n) \X S -> S]

\* The function it takes, for a set of positions, the step with the greatest.
FoldsBy(it, S, n, start, step) ==
  /\ it \in [SUBSET (1..n) -> S]
  /\ \A T \in SUBSET (1..n) :
       it[T] = IF T = {} THEN start ELSE step[<<Top(T), it[T \ {Top(T)}]>>]

\* The function acc takes the steps with the positions in their order.
StepsBy(acc, S, n, start, step) ==
  /\ acc \in [0..n -> S]
  /\ acc[0] = start
  /\ \A i \in 1..n : acc[i] = step[<<i, acc[i - 1]>>]

\* There is a function over the sets of positions that takes a step with the greatest.
LEMMA FoldExists ==
  ASSUME NEW S, NEW n \in Nat, NEW start \in S, NEW step, IsStep(step, S, n)
  PROVE  \E it : FoldsBy(it, S, n, start, step)
  <1> USE DEF IsStep
  <1> DEFINE Good(k, it) == \A T \in SUBSET (1..k) :
               it[T] = IF T = {} THEN start ELSE step[<<Top(T), it[T \ {Top(T)}]>>]
             P == {k \in 0..n : \E it \in [SUBSET (1..k) -> S] : Good(k, it)}
  <1>1. 0 \in P
    <2> DEFINE it == [T \in SUBSET (1..0) |-> start]
    <2>1. \A T \in SUBSET (1..0) : T = {}
      OBVIOUS
    <2>2. it \in [SUBSET (1..0) -> S] /\ Good(0, it)
      BY <2>1
    <2>3. 0 \in 0..n
      OBVIOUS
    <2> HIDE DEF it, Good
    <2>4. QED
      BY <2>2, <2>3
  <1>2. ASSUME NEW k \in 1..n, k - 1 \in P PROVE k \in P
    <2>1. PICK it \in [SUBSET (1..(k - 1)) -> S] : Good(k - 1, it)
      BY <1>2
    <2> DEFINE jt == [T \in SUBSET (1..k) |-> IF k \in T THEN step[<<k, it[T \ {k}]>>] ELSE it[T]]
    <2>2. ASSUME NEW T \in SUBSET (1..k) PROVE T \ {k} \in SUBSET (1..(k - 1)) /\ (k \notin T => T \in SUBSET (1..(k - 1)))
      OBVIOUS
    <2>3. jt \in [SUBSET (1..k) -> S]
      <3> SUFFICES ASSUME NEW T \in SUBSET (1..k) PROVE jt[T] \in S
        OBVIOUS
      <3>1. CASE k \in T
        <4>1. it[T \ {k}] \in S
          BY <2>1, <2>2
        <4>2. <<k, it[T \ {k}]>> \in (1..n) \X S
          BY <4>1
        <4>3. QED
          BY <3>1, <4>2
      <3>2. CASE k \notin T
        BY <2>1, <2>2, <3>2
      <3>3. QED
        BY <3>1, <3>2
    <2>4. ASSUME NEW T \in SUBSET (1..k)
          PROVE  jt[T] = IF T = {} THEN start ELSE step[<<Top(T), jt[T \ {Top(T)}]>>]
      <3>1. CASE k \in T
        <4>2. Top(T) = k
          BY <3>1, TopIs
        <4>3. jt[T \ {k}] = it[T \ {k}]
          BY <2>2
        <4>4. QED
          BY <3>1, <4>2, <4>3
      <3>2. CASE k \notin T
        <4>1. T \in SUBSET (1..(k - 1)) /\ jt[T] = it[T]
          BY <2>2, <3>2
        <4>2. T \ {Top(T)} \in SUBSET (1..(k - 1)) /\ k \notin T \ {Top(T)}
          BY <3>2, <4>1
        <4>3. T \ {Top(T)} \in SUBSET (1..k)
          BY <2>4
        <4>4. jt[T \ {Top(T)}] = it[T \ {Top(T)}]
          BY <4>2, <4>3
        <4>5. QED
          BY <2>1, <4>1, <4>4
      <3>3. QED
        BY <3>1, <3>2
    <2>5. Good(k, jt)
      BY <2>4
    <2>6. k \in 0..n
      OBVIOUS
    <2> HIDE DEF jt, Good
    <2>7. QED
      BY <2>3, <2>5, <2>6
  <1>3. \A k \in 0..n : k \in P
    <2> HIDE DEF P
    <2>1. QED
      BY <1>1, <1>2, AllPositions
  <1>4. n \in P
    <2> HIDE DEF P
    <2>1. QED
      BY <1>3
  <1>5. QED
    BY <1>4 DEF FoldsBy

\* Such a function folds the positions in their order.
LEMMA FoldSteps ==
  ASSUME NEW S, NEW n \in Nat, NEW start \in S, NEW step, IsStep(step, S, n),
         NEW it, FoldsBy(it, S, n, start, step)
  PROVE  \E acc : StepsBy(acc, S, n, start, step) /\ acc[n] = it[1..n]
  <1> USE DEF IsStep
  <1> DEFINE acc == [i \in 0..n |-> it[1..i]]
  <1>1. /\ \A i \in 0..n : acc[i] = it[1..i]
        /\ 0 \in 0..n /\ n \in 0..n
        /\ \A i \in 1..n : i \in 0..n /\ i - 1 \in 0..n
    OBVIOUS
  <1>2. acc \in [0..n -> S] /\ acc[0] = start /\ \A i \in 1..n : acc[i] = step[<<i, acc[i - 1]>>]
    <2> HIDE DEF acc
    <2>1. acc[0] = start
      <3>1. 1..0 = {} /\ {} \in SUBSET (1..n)
        OBVIOUS
      <3>2. QED
        BY <1>1, <3>1 DEF FoldsBy
    <2>2. ASSUME NEW i \in 1..n PROVE acc[i] = step[<<i, acc[i - 1]>>]
      <3>1. 1..i \in SUBSET (1..n) /\ 1..i # {} /\ i \in 1..i /\ i \in Nat
        OBVIOUS
      <3>2. Top(1..i) \in 1..i /\ Top(1..i) >= i
        BY <3>1, TopFacts
      <3>3. Top(1..i) = i /\ (1..i) \ {i} = 1..(i - 1)
        BY <3>1, <3>2
      <3>4. it[1..i] = step[<<i, it[1..(i - 1)]>>]
        BY <3>1, <3>3 DEF FoldsBy
      <3>5. QED
        BY <1>1, <3>4
    <2>3. \A i \in 0..n : acc[i] \in S
      <3> DEFINE P == {i \in 0..n : acc[i] \in S}
      <3>1. 0 \in P
        BY <1>1, <2>1
      <3>2. ASSUME NEW i \in 1..n, i - 1 \in P PROVE i \in P
        <4>1. <<i, acc[i - 1]>> \in (1..n) \X S
          BY <3>2
        <4>2. step[<<i, acc[i - 1]>>] \in S
          BY <4>1
        <4>3. QED
          BY <1>1, <2>2, <4>2
      <3>3. \A i \in 0..n : i \in P
        <4> HIDE DEF P
        <4>1. QED
          BY <3>1, <3>2, AllPositions
      <3>4. QED
        BY <3>3
    <2>4. acc = [i \in 0..n |-> acc[i]]
      BY DEF acc
    <2>5. acc \in [0..n -> S]
      BY <2>3, <2>4
    <2>6. QED
      BY <2>1, <2>2, <2>5
  <1>3. it[1..n] = acc[n]
    BY <1>1
  <1> HIDE DEF acc
  <1>4. QED
    BY <1>2, <1>3 DEF StepsBy

LEMMA FoldAndSteps ==
  ASSUME NEW S, NEW n \in Nat, NEW start \in S, NEW step, IsStep(step, S, n)
  PROVE  \E it, acc : /\ FoldsBy(it, S, n, start, step)
                      /\ StepsBy(acc, S, n, start, step)
                      /\ acc[n] = it[1..n]
  BY FoldExists, FoldSteps

\* Two functions that take the same steps agree.
LEMMA FoldUnique ==
  ASSUME NEW n \in Nat, NEW it, NEW jt, it[{}] = jt[{}],
         \A T \in SUBSET (1..n) :
           T # {} /\ it[T \ {Top(T)}] = jt[T \ {Top(T)}] => it[T] = jt[T]
  PROVE  it[1..n] = jt[1..n]
  <1> DEFINE P == {i \in 0..n : it[1..i] = jt[1..i]}
  <1>1. 0 \in P
    <2>1. 1..0 = {} /\ 0 \in 0..n
      OBVIOUS
    <2>2. QED
      BY <2>1
  <1>2. ASSUME NEW i \in 1..n, i - 1 \in P PROVE i \in P
    <2>1. 1..i \in SUBSET (1..n) /\ 1..i # {} /\ i \in 1..i /\ i \in Nat /\ i \in 0..n
      OBVIOUS
    <2>2. Top(1..i) = i /\ (1..i) \ {i} = 1..(i - 1)
      BY <2>1, TopIs
    <2>3. it[1..(i - 1)] = jt[1..(i - 1)]
      BY <1>2
    <2>4. QED
      BY <2>1, <2>2, <2>3
  <1>3. n \in 0..n
    OBVIOUS
  <1>4. n \in P
    <2> HIDE DEF P
    <2>1. QED
      BY <1>1, <1>2, <1>3, AllPositions
  <1>5. QED
    BY <1>4
-----------------------------------------------------------------------------
(***************************************************************************)
(* Values: integers of any width, ranges, and versions of any number of    *)
(* parts.                                                                  *)
(***************************************************************************)
RangeLimits == [given : BOOLEAN, at : Int]
NumberCells == [kind : NumberKinds, blank : BOOLEAN, halves : Int, pointed : BOOLEAN,
                required : BOOLEAN, left : RangeLimits, right : RangeLimits]
VersionParts == [pattern : Nat, one : Nat, other : Nat]

ValuesTypeInv ==
  /\ numberCell \in NumberCells
  /\ tenThousandths \in Nat
  /\ parts \in Seq(VersionParts)

LEMMA ValuesTypeInit == InitValues => ValuesTypeInv
  BY DEF InitValues, ValuesTypeInv, NoNumber, NumberCells, NumberKinds, RangeLimits, Open

LEMMA ValuesTypeStep == ValuesTypeInv /\ [NextValues]_valueVars => ValuesTypeInv'
  <1> SUFFICES ASSUME ValuesTypeInv, [NextValues]_valueVars PROVE ValuesTypeInv'
    OBVIOUS
  <1>1. ASSUME NEW kind \in NumberKinds, NEW halves \in (-MaxHalves)..MaxHalves, NEW pointed \in BOOLEAN,
               WriteNumber(kind, halves, pointed)
        PROVE  ValuesTypeInv'
    <2>1. halves \in Int
      BY ValueBoundsAssumption
    <2>2. NoNumber \in NumberCells
      BY DEF NoNumber, NumberCells, NumberKinds, RangeLimits, Open
    <2>3. numberCell' \in NumberCells
      BY <1>1, <2>1, <2>2 DEF WriteNumber, NumberCells
    <2>4. QED
      BY <1>1, <2>3 DEF WriteNumber, ValuesTypeInv
  <1>2. ASSUME NEW required \in BOOLEAN, NEW left \in {Open} \cup {Given(n) : n \in Limits},
               NEW right \in {Open} \cup {Given(n) : n \in Limits}, SetOptions(required, left, right)
        PROVE  ValuesTypeInv'
    <2>1. Open \in RangeLimits /\ \A n \in Limits : Given(n) \in RangeLimits
      BY LimitsAssumption DEF RangeLimits, Open, Given
    <2>2. left \in RangeLimits /\ right \in RangeLimits
      BY <2>1
    <2>3. numberCell' \in NumberCells
      BY <1>2, <2>2 DEF SetOptions, NumberCells, ValuesTypeInv
    <2>4. QED
      BY <1>2, <2>3 DEF SetOptions, ValuesTypeInv
  <1>3. ASSUME NEW n \in 1..MaxFraction, WriteFraction(n) PROVE ValuesTypeInv'
    BY <1>3, ValueBoundsAssumption DEF WriteFraction, ValuesTypeInv
  <1>4. ASSUME NEW pattern \in 0..MaxPart, NEW one \in 0..MaxPart, NEW other \in 0..MaxPart,
               WritePart(pattern, one, other)
        PROVE  ValuesTypeInv'
    <2>1. [pattern |-> pattern, one |-> one, other |-> other] \in VersionParts
      BY ValueBoundsAssumption DEF VersionParts
    <2>2. QED
      BY <1>4, <2>1 DEF WritePart, ValuesTypeInv
  <1>5. CASE UNCHANGED valueVars
    BY <1>5 DEF valueVars, ValuesTypeInv
  <1>6. QED
    BY <1>1, <1>2, <1>3, <1>4, <1>5 DEF NextValues

\* A number that is accepted.
LEMMA NumberAccepted ==
  ASSUME NEW cell \in NumberCells, ParseFieldValue(cell).ok
  PROVE  LET value == ParseFieldValue(cell)
         IN  /\ value.present <=> ~cell.blank
             /\ cell.required => value.present
             /\ value.present =>
                  /\ value.value \in Lowest(cell.kind)..Highest(cell.kind)
                  /\ 2 * value.value - cell.halves \in {-1, 0, 1}
                  /\ cell.left.given => value.value >= cell.left.at
                  /\ cell.right.given => value.value <= cell.right.at
  <1> DEFINE reading == ParseNumber(cell)
  <1>1. /\ ParseFieldValue(cell) = reading
        /\ reading.ok /\ CheckPresence(cell, reading) /\ CheckInRange(cell, reading)
    BY DEF ParseFieldValue, Fails
  <1>2. reading.present <=> ~cell.blank
    BY <1>1 DEF ParseNumber, NoValue, GotValue, Fails
  <1>3. cell.required => reading.present
    BY <1>1 DEF CheckPresence
  <1>4. ASSUME reading.present
        PROVE  /\ reading.value \in Lowest(cell.kind)..Highest(cell.kind)
               /\ 2 * reading.value - cell.halves \in {-1, 0, 1}
    <2> DEFINE h == cell.halves low == Lowest(cell.kind) high == Highest(cell.kind)
    <2>1. h \in Int /\ cell.kind \in NumberKinds
      BY DEF NumberCells
    <2>2. low \in Int /\ high \in Int /\ low <= 0 /\ high >= 0
      BY <2>1, WidthsAssumption DEF NumberKinds, Lowest, Highest, Max64
    <2>3. reading.value = Truncated(h) /\ 2 * low <= h /\ h <= 2 * high
      <3>1. ~cell.blank
        BY <1>2, <1>4
      <3>2. reading = GotValue(Truncated(h)) /\ ~(h < 2 * low) /\ ~(h > 2 * high)
        BY <1>1, <3>1 DEF ParseNumber, Fails
      <3> HIDE DEF reading, low, high, h
      <3>3. QED
        BY <2>1, <2>2, <3>2 DEF GotValue
    <2> HIDE DEF reading, low, high, h
    <2>4. Truncated(h) \in low..high /\ 2 * Truncated(h) - h \in {-1, 0, 1}
      <3>1. CASE h >= 0
        <4>1. Truncated(h) = h \div 2
          BY <3>1 DEF Truncated
        <4>2. QED
          BY <2>1, <2>2, <2>3, <3>1, <4>1
      <3>2. CASE ~(h >= 0)
        <4>1. Truncated(h) = -((-h) \div 2)
          BY <3>2 DEF Truncated
        <4>2. QED
          BY <2>1, <2>2, <2>3, <3>2, <4>1
      <3>3. QED
        BY <3>1, <3>2
    <2>5. QED
      BY <2>3, <2>4 DEF low, high, h
  <1>5. ASSUME reading.present
        PROVE  /\ cell.left.given => reading.value >= cell.left.at
               /\ cell.right.given => reading.value <= cell.right.at
    BY <1>1, <1>5 DEF CheckInRange
  <1>6. QED
    BY <1>1, <1>2, <1>3, <1>4, <1>5

\* A fraction that is written with a point.
LEMMA FractionAccepted ==
  ASSUME NEW n \in Nat \ {0}, ParseFraction(n).ok
  PROVE  LET fraction == ParseFraction(n)
         IN  /\ n * fraction.den - fraction.num * 10000 \in {0, fraction.den}
             /\ \A d \in {10, 100, 1000, 10000} : fraction.den % d = 0 => fraction.num % d # 0
  <1> DEFINE num == CutOff(n)
             D == {1, 10, 100, 1000, 10000}
             unit == CHOOSE d \in D : num % d = 0 /\ \A e \in D : num % e = 0 => e <= d
  <1>1. num \in {n - 1, n} /\ num \in Nat
    BY DEF CutOff
  <1>2. ParseFraction(n) = [ok |-> num # 0, num |-> num \div unit, den |-> 10000 \div unit]
    BY DEF ParseFraction
  <1>3. unit \in D /\ num % unit = 0 /\ \A e \in D : num % e = 0 => e <= unit
    <2> HIDE DEF num
    <2>1. num % 1 = 0
      BY <1>1
    <2>2. \E d \in D : num % d = 0 /\ \A e \in D : num % e = 0 => e <= d
      <3>1. CASE num % 10000 = 0
        BY <3>1
      <3>2. CASE num % 10000 # 0 /\ num % 1000 = 0
        BY <3>2
      <3>3. CASE num % 10000 # 0 /\ num % 1000 # 0 /\ num % 100 = 0
        BY <3>3
      <3>4. CASE num % 10000 # 0 /\ num % 1000 # 0 /\ num % 100 # 0 /\ num % 10 = 0
        BY <3>4
      <3>5. CASE num % 10000 # 0 /\ num % 1000 # 0 /\ num % 100 # 0 /\ num % 10 # 0
        BY <2>1, <3>5
      <3>6. QED
        BY <3>1, <3>2, <3>3, <3>4, <3>5
    <2>3. QED
      BY <2>2
  <1> HIDE DEF num, unit
  <1> DEFINE top == num \div unit den == 10000 \div unit
  <1>4. n * den - top * 10000 \in {0, den}
    BY <1>1, <1>3
  <1>5. \A d \in {10, 100, 1000, 10000} : den % d = 0 => top % d # 0
    BY <1>1, <1>3
  <1>6. QED
    BY <1>2, <1>4, <1>5

-----------------------------------------------------------------------------
\* What the first parts of a pattern can count, and the number that those of a
\* version write: of each the next is found from the one before.
Counted(pattern, count) ==
  /\ count[0] = 1
  /\ \A i \in 1..Len(pattern) : count[i] = count[i - 1] * (pattern[i] + 1)

SumsUp(version, pattern, sums) ==
  /\ sums[0] = 0
  /\ \A i \in 1..Len(pattern) : sums[i] = sums[i - 1] * (pattern[i] + 1) + version[i]

LEMMA Divides ==
  ASSUME NEW a \in Nat, NEW q \in Nat \ {0}, NEW top \in Nat, ~(a > top \div q)
  PROVE  a * q <= top
  <1>1. top \div q \in Nat /\ (top \div q) * q <= top
    OBVIOUS
  <1>2. a <= top \div q
    BY <1>1
  <1>3. QED
    BY <1>1, <1>2

LEMMA ProductType ==
  ASSUME NEW a \in Nat, NEW q \in Nat
  PROVE  a * q \in Nat
  OBVIOUS

LEMMA PatternCounts ==
  ASSUME NEW pattern \in Seq(Nat), PatternFits(pattern)
  PROVE  \E count \in [0..Len(pattern) -> Nat \ {0}] :
           Counted(pattern, count) /\ \A i \in 0..Len(pattern) : count[i] <= Max64
  <1> DEFINE n == Len(pattern)
             Next1(a, p) == IF a = 0 \/ a > Max64 \div (p + 1) THEN 0 ELSE a * (p + 1)
             step == [p \in (1..n) \X Nat |-> Next1(p[2], pattern[p[1]])]
  <1>1. n \in Nat /\ DOMAIN pattern = 1..n /\ \A i \in 1..n : pattern[i] \in Nat
    OBVIOUS
  <1>2. Max64 \in Nat \ {0}
    BY WidthsAssumption DEF Max64
  <1>3. ASSUME NEW a \in Nat, NEW p \in Nat PROVE Next1(a, p) \in Nat
    <2>1. p + 1 \in Nat
      OBVIOUS
    <2>2. a * (p + 1) \in Nat
      BY <2>1, ProductType
    <2>3. QED
      BY <2>2
  <1>4. IsStep(step, Nat, n)
    <2> HIDE DEF Next1
    <2>1. QED
      BY <1>1, <1>3 DEF IsStep
  <1>a. PICK it, acc : /\ FoldsBy(it, Nat, n, 1, step)
                       /\ StepsBy(acc, Nat, n, 1, step)
                       /\ acc[n] = it[1..n]
    <2> DEFINE start == 1 S == Nat
    <2>1. start \in S /\ n \in Nat /\ IsStep(step, S, n)
      BY <1>1, <1>4
    <2>2. \E it, acc : FoldsBy(it, S, n, start, step) /\ StepsBy(acc, S, n, start, step) /\ acc[n] = it[1..n]
      <3> HIDE DEF step, n, start, S
      <3>1. QED
        BY <2>1, FoldAndSteps
    <2>3. QED
      BY <2>2
  <1>5. /\ it \in [SUBSET (1..n) -> Nat] /\ acc \in [0..n -> Nat]
        /\ \A T \in SUBSET (1..n) : it[T] = IF T = {} THEN 1 ELSE step[<<Top(T), it[T \ {Top(T)}]>>]
        /\ acc[0] = 1 /\ acc[n] = it[1..n]
        /\ \A i \in 1..n : acc[i] = step[<<i, acc[i - 1]>>]
    BY <1>a DEF FoldsBy, StepsBy
  <1> DEFINE Eq(jt) == jt = [T \in SUBSET (1..n) |-> IF T = {} THEN 1 ELSE Next1(jt[T \ {Top(T)}], pattern[Top(T)])]
             kt == CHOOSE jt : Eq(jt)
  <1>6. Eq(it)
    <2>1. ASSUME NEW T \in SUBSET (1..n), T # {}
          PROVE  step[<<Top(T), it[T \ {Top(T)}]>>] = Next1(it[T \ {Top(T)}], pattern[Top(T)])
      <3>1. Top(T) \in 1..n /\ T \ {Top(T)} \in SUBSET (1..n)
        BY <1>1, <2>1, TopFacts
      <3>2. <<Top(T), it[T \ {Top(T)}]>> \in (1..n) \X Nat
        BY <1>5, <3>1
      <3> HIDE DEF Next1
      <3>3. QED
        BY <3>2
    <2> HIDE DEF step, Next1, n
    <2>2. QED
      BY <1>5, <2>1
  <1>7. Eq(kt)
    <2> HIDE DEF Eq
    <2>1. QED
      BY <1>6
  <1>8. (FoldLeft(LAMBDA a, p : IF a = 0 \/ a > Max64 \div (p + 1) THEN 0 ELSE a * (p + 1),
                  1, pattern)) = kt[1..n]
    BY <1>1 DEF FoldLeft, MapThenFoldSet, Max, Top
  <1>9. it[1..n] = kt[1..n]
    <2> HIDE DEF Next1, kt, n
    <2>1. it[{}] = kt[{}]
      BY <1>6, <1>7
    <2>2. \A T \in SUBSET (1..n) : T # {} /\ it[T \ {Top(T)}] = kt[T \ {Top(T)}] => it[T] = kt[T]
      BY <1>6, <1>7
    <2> HIDE DEF Eq
    <2>3. QED
      BY <1>1, <2>1, <2>2, FoldUnique
  <1>11. acc[n] # 0
    BY <1>5, <1>8, <1>9 DEF PatternFits
  <1> HIDE DEF kt, Eq, n
  <1>12. ASSUME NEW i \in 1..n PROVE i - 1 \in 0..n /\ acc[i - 1] \in Nat /\ acc[i] = Next1(acc[i - 1], pattern[i])
    <2>1. i - 1 \in 0..n
      BY <1>1
    <2>2. acc[i - 1] \in Nat
      BY <1>5, <2>1
    <2> HIDE DEF Next1
    <2>3. QED
      BY <1>5, <2>1, <2>2
  <1> HIDE DEF step
  \* If one was none, so were those after it.
  <1>13. \A i \in 0..n : acc[i] # 0
    <2> SUFFICES ASSUME NEW k \in 0..n, acc[k] = 0 PROVE FALSE
      OBVIOUS
    <2> DEFINE P == {i \in 0..n : i >= k => acc[i] = 0}
    <2>1. 0 \in P
      BY <1>1
    <2>2. ASSUME NEW i \in 1..n, i - 1 \in P PROVE i \in P
      <3>1. i \in 0..n /\ i \in Int /\ k \in Int
        BY <1>1
      <3>2. CASE i = k
        BY <3>1, <3>2
      <3>3. CASE i < k
        BY <3>1, <3>3
      <3>4. CASE i > k
        <4>1. acc[i - 1] = 0
          BY <2>2, <3>1, <3>4
        <4>2. QED
          BY <1>12, <3>1, <4>1
      <3>5. QED
        BY <3>1, <3>2, <3>3, <3>4
    <2>3. n \in 0..n /\ n >= k
      BY <1>1
    <2>4. n \in P
      <3> HIDE DEF P
      <3>1. QED
        BY <1>1, <2>1, <2>2, <2>3, AllPositions
    <2>5. QED
      BY <1>11, <2>3, <2>4
  <1>14. ASSUME NEW i \in 1..n PROVE acc[i] = acc[i - 1] * (pattern[i] + 1) /\ acc[i] <= Max64
    <2>1. pattern[i] + 1 \in Nat \ {0} /\ acc[i - 1] \in Nat /\ i \in 0..n
      <3>1. pattern[i] \in Nat /\ i \in 0..n
        BY <1>1
      <3> HIDE DEF Next1
      <3>2. QED
        BY <1>12, <3>1
    <2>2. acc[i] = acc[i - 1] * (pattern[i] + 1) /\ ~(acc[i - 1] > Max64 \div (pattern[i] + 1))
      BY <1>12, <1>13, <2>1
    <2>3. QED
      BY <1>2, <2>1, <2>2, Divides
  <1>15. \A i \in 0..n : acc[i] <= Max64 /\ acc[i] \in Nat \ {0}
    BY <1>1, <1>2, <1>5, <1>13, <1>14
  <1>16. acc \in [0..n -> Nat \ {0}]
    BY <1>5, <1>15
  <1>17. QED
    BY <1>5, <1>14, <1>15, <1>16 DEF Counted, n

LEMMA ModuloSame ==
  ASSUME NEW a \in Nat, NEW m \in Nat, a < m
  PROVE  a % m = a
  OBVIOUS

\* A digit more: what is below the first parts' count is below that of one more.
LEMMA OneMorePart ==
  ASSUME NEW a \in Nat, NEW c \in Nat, a + 1 <= c, NEW q \in Nat \ {0}, NEW v \in Nat, v + 1 <= q
  PROVE  a * q \in Nat /\ a * q + v + 1 <= c * q
  <1>1. PICK k \in Nat : c = a + 1 + k
    <2>1. c - (a + 1) \in Nat
      OBVIOUS
    <2>2. QED
      BY <2>1
  <1>2. c * q = a * q + q + k * q
    BY <1>1
  <1>3. k * q \in Nat /\ a * q \in Nat
    BY ProductType
  <1>4. QED
    BY <1>2, <1>3

LEMMA VersionSums ==
  ASSUME NEW pattern \in Seq(Nat), NEW version \in Seq(Nat), Len(version) = Len(pattern),
         VersionOk(version, pattern)
  PROVE  \E sums \in [0..Len(pattern) -> Nat] :
           SumsUp(version, pattern, sums) /\ VersionValue(version, pattern) = sums[Len(pattern)]
  <1> DEFINE n == Len(pattern)
             Place(a, i) == (a + version[i]) % (Max64 + 1)
             Shift(sum, i) == IF i = n THEN sum ELSE (sum * (pattern[i + 1] + 1)) % (Max64 + 1)
             places == [i \in DOMAIN version |-> i]
             step == [p \in (1..n) \X Nat |-> Shift(Place(p[2], places[p[1]]), places[p[1]])]
  <1>1. /\ n \in Nat /\ DOMAIN version = 1..n /\ DOMAIN pattern = 1..n /\ DOMAIN places = 1..n
        /\ \A i \in 1..n : places[i] = i
        /\ \A i \in 1..n : pattern[i] \in Nat /\ version[i] \in Nat /\ version[i] <= pattern[i]
    BY DEF VersionOk
  <1> HIDE DEF n, places
  <1>2. Max64 \in Nat \ {0}
    BY WidthsAssumption DEF Max64
  <1>3. ASSUME NEW a \in Nat, NEW i \in 1..n PROVE Place(a, i) \in Nat /\ Shift(Place(a, i), i) \in Nat
    <2>1. Place(a, i) \in Nat
      BY <1>1, <1>2
    <2>2. i # n => pattern[i + 1] + 1 \in Nat
      <3>1. i # n => i + 1 \in 1..n
        BY <1>1
      <3>2. QED
        BY <1>1, <3>1
    <2> HIDE DEF Place
    <2>3. i # n => Place(a, i) * (pattern[i + 1] + 1) \in Nat
      BY <2>1, <2>2, ProductType
    <2>4. QED
      BY <1>2, <2>1, <2>3
  <1>4. IsStep(step, Nat, n)
    <2> HIDE DEF Place, Shift
    <2>1. QED
      BY <1>1, <1>3 DEF IsStep
  <1>a. PICK it, acc : /\ FoldsBy(it, Nat, n, 0, step)
                       /\ StepsBy(acc, Nat, n, 0, step)
                       /\ acc[n] = it[1..n]
    <2> DEFINE start == 0 S == Nat
    <2>1. start \in S /\ n \in Nat /\ IsStep(step, S, n)
      BY <1>1, <1>4
    <2>2. \E it, acc : FoldsBy(it, S, n, start, step) /\ StepsBy(acc, S, n, start, step) /\ acc[n] = it[1..n]
      <3> HIDE DEF step, n, start, S
      <3>1. QED
        BY <2>1, FoldAndSteps
    <2>3. QED
      BY <2>2
  <1>5. /\ it \in [SUBSET (1..n) -> Nat] /\ acc \in [0..n -> Nat]
        /\ \A T \in SUBSET (1..n) : it[T] = IF T = {} THEN 0 ELSE step[<<Top(T), it[T \ {Top(T)}]>>]
        /\ acc[0] = 0 /\ acc[n] = it[1..n]
        /\ \A i \in 1..n : acc[i] = step[<<i, acc[i - 1]>>]
    BY <1>a DEF FoldsBy, StepsBy
  <1> DEFINE Eq(jt) == jt = [T \in SUBSET (1..n) |->
                IF T = {} THEN 0
                ELSE Shift(Place(jt[T \ {Top(T)}], places[Top(T)]), places[Top(T)])]
             kt == CHOOSE jt : Eq(jt)
  <1>6. Eq(it)
    <2>1. ASSUME NEW T \in SUBSET (1..n), T # {}
          PROVE  step[<<Top(T), it[T \ {Top(T)}]>>]
                   = Shift(Place(it[T \ {Top(T)}], places[Top(T)]), places[Top(T)])
      <3>1. Top(T) \in 1..n /\ T \ {Top(T)} \in SUBSET (1..n)
        BY <1>1, <2>1, TopFacts
      <3>2. <<Top(T), it[T \ {Top(T)}]>> \in (1..n) \X Nat
        BY <1>5, <3>1
      <3> HIDE DEF Place, Shift
      <3>3. QED
        BY <3>2
    <2> HIDE DEF step, Place, Shift
    <2>2. QED
      BY <1>5, <2>1
  <1>7. Eq(kt)
    <2> HIDE DEF Eq
    <2>1. QED
      BY <1>6
  <1>8. VersionValue(version, pattern) = kt[1..n]
    BY <1>1 DEF n, places, VersionValue, FoldLeft, MapThenFoldSet, Max, Top
  <1>9. it[1..n] = kt[1..n]
    <2> HIDE DEF Place, Shift, kt
    <2>1. it[{}] = kt[{}]
      BY <1>6, <1>7
    <2>2. \A T \in SUBSET (1..n) : T # {} /\ it[T \ {Top(T)}] = kt[T \ {Top(T)}] => it[T] = kt[T]
      BY <1>6, <1>7
    <2> HIDE DEF Eq
    <2>3. QED
      BY <1>1, <2>1, <2>2, FoldUnique
  <1> HIDE DEF kt, Eq
  <1>10. ASSUME NEW i \in 1..n
         PROVE  i - 1 \in 0..n /\ acc[i - 1] \in Nat /\ acc[i] = Shift(Place(acc[i - 1], i), i)
    <2>1. i - 1 \in 0..n
      BY <1>1
    <2>2. acc[i - 1] \in Nat
      BY <1>5, <2>1
    <2> HIDE DEF Place, Shift
    <2>3. step[<<i, acc[i - 1]>>] = Shift(Place(acc[i - 1], places[i]), places[i])
      BY <2>2
    <2> HIDE DEF step
    <2>4. QED
      BY <1>1, <1>5, <2>1, <2>2, <2>3
  <1> HIDE DEF step
  <1>11. PICK count \in [0..n -> Nat \ {0}] :
           Counted(pattern, count) /\ \A i \in 0..n : count[i] <= Max64
    BY PatternCounts DEF VersionOk, n
  <1> DEFINE sums == [i \in 0..n |-> IF i = 0 THEN 0 ELSE acc[i - 1] + version[i]]
  <1>12. /\ sums \in [0..n -> Nat] /\ sums[0] = 0
         /\ \A i \in 1..n : sums[i] = acc[i - 1] + version[i]
    <2>1. \A i \in 0..n : i # 0 => i \in 1..n /\ acc[i - 1] \in Nat /\ version[i] \in Nat
      <3> SUFFICES ASSUME NEW i \in 0..n, i # 0 PROVE i \in 1..n /\ acc[i - 1] \in Nat /\ version[i] \in Nat
        OBVIOUS
      <3> HIDE DEF Place, Shift
      <3>1. i \in 1..n
        BY <1>1
      <3>2. QED
        BY <1>1, <1>10, <3>1
    <2>2. 0 \in 0..n /\ \A i \in 1..n : i \in 0..n /\ i # 0
      BY <1>1
    <2>3. QED
      BY <2>1, <2>2
  <1> HIDE DEF sums
  <1> DEFINE Good(i) == /\ sums[i] + 1 <= count[i]
                        /\ acc[i] = IF i = n THEN sums[i] ELSE sums[i] * (pattern[i + 1] + 1)
             P == {i \in 0..n : Good(i)}
  <1>13. 0 \in P
    <2>1. count[0] = 1 /\ acc[0] = 0 /\ sums[0] = 0 /\ 0 \in 0..n
      BY <1>1, <1>5, <1>11, <1>12 DEF Counted
    <2>2. 0 # n => pattern[0 + 1] + 1 \in Nat
      BY <1>1
    <2>3. QED
      BY <2>1, <2>2
  <1>14. ASSUME NEW i \in 1..n, i - 1 \in P PROVE i \in P /\ sums[i] = sums[i - 1] * (pattern[i] + 1) + version[i]
    <2>1. /\ i - 1 \in 0..n /\ i \in 0..n /\ i - 1 # n /\ (i - 1) + 1 = i
          /\ sums[i - 1] \in Nat /\ count[i - 1] \in Nat /\ count[i] \in Nat
          /\ version[i] \in Nat /\ pattern[i] \in Nat /\ version[i] <= pattern[i]
      <3>1. i - 1 \in 0..n /\ i \in 0..n /\ i - 1 # n /\ (i - 1) + 1 = i
        BY <1>1
      <3>2. QED
        BY <1>1, <1>11, <1>12, <3>1
    <2>2. acc[i - 1] = sums[i - 1] * (pattern[i] + 1) /\ sums[i - 1] + 1 <= count[i - 1]
      BY <1>14, <2>1
    <2>3. sums[i] = sums[i - 1] * (pattern[i] + 1) + version[i]
      BY <1>12, <2>2
    <2>4. /\ sums[i - 1] * (pattern[i] + 1) \in Nat
          /\ sums[i - 1] * (pattern[i] + 1) + version[i] + 1 <= count[i - 1] * (pattern[i] + 1)
      <3>1. pattern[i] + 1 \in Nat \ {0} /\ version[i] + 1 <= pattern[i] + 1
        BY <2>1
      <3>2. QED
        BY <2>1, <2>2, <3>1, OneMorePart
    <2>5. count[i] = count[i - 1] * (pattern[i] + 1) /\ count[i] <= Max64
      BY <1>11, <2>1 DEF Counted, n
    <2>6. sums[i] + 1 <= count[i] /\ sums[i] \in Nat /\ sums[i] < Max64 + 1
      <3> DEFINE product == sums[i - 1] * (pattern[i] + 1)
      <3>1. product \in Nat /\ sums[i] = product + version[i] /\ product + version[i] + 1 <= count[i]
        BY <2>3, <2>4, <2>5
      <3>2. count[i] <= Max64
        BY <2>5
      <3> HIDE DEF product, Place, Shift, Good, P
      <3>3. QED
        BY <1>2, <2>1, <3>1, <3>2
    <2>7. Place(acc[i - 1], i) = sums[i]
      <3> DEFINE m == Max64 + 1
      <3>1. m \in Nat /\ sums[i] < m
        BY <1>2, <2>6
      <3> HIDE DEF m
      <3>2. sums[i] % m = sums[i]
        BY <2>6, <3>1, ModuloSame
      <3>3. QED
        BY <1>12, <3>2 DEF m
    <2>8. CASE i = n
      BY <1>10, <2>1, <2>3, <2>6, <2>7, <2>8
    <2>9. CASE i # n
      <3>1. i + 1 \in 1..n /\ i + 1 \in 0..n /\ (i + 1) - 1 = i
        BY <1>1, <2>9
      <3>2. pattern[i + 1] + 1 \in Nat \ {0} /\ 0 + 1 <= pattern[i + 1] + 1
        BY <1>1, <3>1
      <3>3. count[i + 1] = count[i] * (pattern[i + 1] + 1) /\ count[i + 1] <= Max64 /\ count[i + 1] \in Nat
        BY <1>11, <3>1 DEF Counted, n
      <3>4. /\ sums[i] * (pattern[i + 1] + 1) \in Nat
            /\ sums[i] * (pattern[i + 1] + 1) + 0 + 1 <= count[i] * (pattern[i + 1] + 1)
        BY <2>1, <2>6, <3>2, OneMorePart
      <3>5. sums[i] * (pattern[i + 1] + 1) < Max64 + 1
        BY <1>2, <3>3, <3>4
      <3>6. (sums[i] * (pattern[i + 1] + 1)) % (Max64 + 1) = sums[i] * (pattern[i + 1] + 1)
        <4> DEFINE product == sums[i] * (pattern[i + 1] + 1) m == Max64 + 1
        <4>1. product \in Nat /\ m \in Nat /\ product < m
          BY <1>2, <3>4, <3>5
        <4> HIDE DEF product, m
        <4>2. product % m = product
          BY <4>1, ModuloSame
        <4>3. QED
          BY <4>2 DEF product, m
      <3> HIDE DEF Place
      <3>7. acc[i] = sums[i] * (pattern[i + 1] + 1)
        BY <1>10, <2>7, <2>9, <3>6
      <3>8. QED
        BY <2>1, <2>3, <2>6, <2>9, <3>7
    <2>10. QED
      BY <2>8, <2>9
  <1>15. \A i \in 0..n : i \in P
    <2> HIDE DEF P
    <2>1. QED
      BY <1>1, <1>13, <1>14, AllPositions
  <1>16. SumsUp(version, pattern, sums)
    <2>1. ASSUME NEW i \in 1..n PROVE sums[i] = sums[i - 1] * (pattern[i] + 1) + version[i]
      <3> HIDE DEF P
      <3>1. QED
        BY <1>10, <1>14, <1>15
    <2>2. QED
      BY <1>12, <2>1 DEF SumsUp, n
  <1>17. acc[n] = sums[n]
    <2>1. n \in 0..n
      BY <1>1
    <2>2. QED
      BY <1>15, <2>1
  <1>18. QED
    BY <1>5, <1>8, <1>9, <1>12, <1>16, <1>17 DEF n

\* The smaller of two versions sums up to less.
LEMMA SmallerSums ==
  ASSUME NEW pattern \in Seq(Nat), NEW one \in Seq(Nat), NEW other \in Seq(Nat),
         Len(one) = Len(pattern), Len(other) = Len(pattern),
         \A i \in 1..Len(pattern) : one[i] <= pattern[i],
         NEW sums \in [0..Len(pattern) -> Nat], SumsUp(one, pattern, sums),
         NEW sums2 \in [0..Len(pattern) -> Nat], SumsUp(other, pattern, sums2),
         Smaller(one, other)
  PROVE  sums[Len(pattern)] < sums2[Len(pattern)]
  <1> DEFINE n == Len(pattern)
  <1>1. /\ n \in Nat /\ DOMAIN one = 1..n
        /\ \A i \in 1..n : /\ pattern[i] \in Nat /\ one[i] \in Nat /\ other[i] \in Nat
                            /\ one[i] <= pattern[i]
    OBVIOUS
  <1>2. PICK d \in 1..n : one[d] < other[d] /\ \A j \in 1..(d - 1) : one[j] = other[j]
    BY <1>1 DEF Smaller
  <1>3. /\ sums[0] = 0 /\ sums2[0] = 0
        /\ \A i \in 1..n : sums[i] = sums[i - 1] * (pattern[i] + 1) + one[i]
        /\ \A i \in 1..n : sums2[i] = sums2[i - 1] * (pattern[i] + 1) + other[i]
    BY DEF SumsUp
  <1> DEFINE Good(i) == (i < d => sums[i] = sums2[i]) /\ (i >= d => sums[i] + 1 <= sums2[i])
             P == {i \in 0..n : Good(i)}
  <1> HIDE DEF n
  <1>4. 0 \in P
    BY <1>1, <1>3
  <1>5. ASSUME NEW i \in 1..n, i - 1 \in P PROVE i \in P
    <2> DEFINE q == pattern[i] + 1 a == sums[i - 1] c == sums2[i - 1] v == one[i] w == other[i]
    <2>1. i \in 0..n /\ i - 1 \in 0..n /\ i \in Int /\ d \in Int
      BY <1>1
    <2>2. q \in Nat \ {0} /\ a \in Nat /\ c \in Nat /\ v \in Nat /\ w \in Nat /\ v + 1 <= q
      <3>1. pattern[i] \in Nat /\ v \in Nat /\ w \in Nat /\ v <= pattern[i]
        BY <1>1
      <3>2. a \in Nat /\ c \in Nat
        BY <2>1 DEF n
      <3> HIDE DEF a, c, v, w
      <3>3. QED
        BY <3>1, <3>2
    <2>3. sums[i] = a * q + v /\ sums2[i] = c * q + w /\ Good(i - 1)
      BY <1>3, <1>5
    <2> HIDE DEF q, a, c, v, w
    <2>4. a * q \in Nat /\ c * q \in Nat
      BY <2>2, ProductType
    <2>5. CASE i < d
      <3>1. i - 1 < d /\ i \in 1..(d - 1)
        BY <1>1, <2>1, <2>5
      <3>2. v = w /\ a = c
        BY <1>2, <2>3, <3>1 DEF v, w, a, c
      <3>3. QED
        BY <2>1, <2>3, <2>5, <3>2
    <2>6. CASE i = d
      <3>1. a = c /\ v < w
        BY <1>2, <2>1, <2>3, <2>6 DEF v, w, a, c
      <3>2. a * q = c * q
        BY <3>1
      <3> DEFINE product == a * q
      <3>3. sums[i] = product + v /\ sums2[i] = product + w /\ product \in Nat
        BY <2>3, <2>4, <3>2
      <3> HIDE DEF product
      <3>4. sums[i] + 1 <= sums2[i]
        BY <2>2, <3>1, <3>3
      <3>5. QED
        BY <2>1, <2>6, <3>4
    <2>7. CASE i > d
      <3>1. a + 1 <= c
        BY <2>1, <2>3, <2>7 DEF a, c
      <3>2. a * q + v + 1 <= c * q
        BY <2>2, <3>1, OneMorePart
      <3> DEFINE product == a * q product2 == c * q
      <3>3. /\ sums[i] = product + v /\ sums2[i] = product2 + w
            /\ product + v + 1 <= product2 /\ product \in Nat /\ product2 \in Nat
        BY <2>3, <2>4, <3>2
      <3> HIDE DEF product, product2
      <3>4. sums[i] + 1 <= sums2[i]
        BY <2>2, <3>3
      <3>5. QED
        BY <2>1, <2>7, <3>4
    <2>8. QED
      BY <2>1, <2>5, <2>6, <2>7
  <1>6. n \in 0..n /\ n >= d
    BY <1>1
  <1>7. n \in P
    <2> HIDE DEF P
    <2>1. QED
      BY <1>1, <1>4, <1>5, <1>6, AllPositions
  <1>8. sums[n] \in Nat /\ sums2[n] \in Nat
    BY <1>6 DEF n
  <1>9. QED
    BY <1>6, <1>7, <1>8 DEF n

\* Of two versions one is the smaller, or they are the same.
LEMMA OneIsSmaller ==
  ASSUME NEW one \in Seq(Nat), NEW other \in Seq(Nat), Len(one) = Len(other), one # other
  PROVE  Smaller(one, other) \/ Smaller(other, one)
  <1> DEFINE D == {i \in 1..Len(one) : one[i] # other[i]}
  <1>1. D \subseteq Nat /\ DOMAIN one = 1..Len(one) /\ DOMAIN other = 1..Len(one) /\ Len(one) \in Nat
    OBVIOUS
  <1>2. D # {}
    OBVIOUS
  <1>3. PICK d \in D : \A k \in D : d <= k
    <2> HIDE DEF D
    <2>1. QED
      BY <1>1, <1>2, LeastOf
  <1>4. \A j \in 1..(d - 1) : one[j] = other[j]
    <2> SUFFICES ASSUME NEW j \in 1..(d - 1), one[j] # other[j] PROVE FALSE
      OBVIOUS
    <2>1. j \in D /\ j < d
      BY <1>1
    <2>2. QED
      BY <1>3, <2>1
  <1>5. one[d] \in Nat /\ other[d] \in Nat /\ one[d] # other[d] /\ d \in 1..Len(one)
    OBVIOUS
  <1>6. CASE one[d] < other[d]
    BY <1>1, <1>4, <1>5, <1>6 DEF Smaller
  <1>7. CASE other[d] < one[d]
    BY <1>1, <1>4, <1>5, <1>7 DEF Smaller
  <1>8. QED
    BY <1>5, <1>6, <1>7

\* The integer form of versions keeps their order.
LEMMA VersionsCompared ==
  ASSUME NEW pattern \in Seq(Nat), NEW one \in Seq(Nat), NEW other \in Seq(Nat),
         Len(one) = Len(pattern), Len(other) = Len(pattern),
         VersionOk(one, pattern), VersionOk(other, pattern)
  PROVE  Smaller(one, other) <=> VersionValue(one, pattern) < VersionValue(other, pattern)
  <1>1. PICK sums \in [0..Len(pattern) -> Nat] :
          SumsUp(one, pattern, sums) /\ VersionValue(one, pattern) = sums[Len(pattern)]
    BY VersionSums
  <1>2. PICK sums2 \in [0..Len(pattern) -> Nat] :
          SumsUp(other, pattern, sums2) /\ VersionValue(other, pattern) = sums2[Len(pattern)]
    BY VersionSums
  <1>3. /\ \A i \in 1..Len(pattern) : one[i] <= pattern[i] /\ other[i] <= pattern[i]
        /\ sums[Len(pattern)] \in Nat /\ sums2[Len(pattern)] \in Nat
    <2>1. Len(pattern) \in 0..Len(pattern) /\ DOMAIN pattern = 1..Len(pattern)
      OBVIOUS
    <2>2. QED
      BY <2>1 DEF VersionOk
  <1>4. Smaller(one, other) => VersionValue(one, pattern) < VersionValue(other, pattern)
    BY <1>1, <1>2, <1>3, SmallerSums
  <1>5. Smaller(other, one) => VersionValue(other, pattern) < VersionValue(one, pattern)
    BY <1>1, <1>2, <1>3, SmallerSums
  <1>6. one # other => Smaller(one, other) \/ Smaller(other, one)
    BY OneIsSmaller
  <1>7. QED
    BY <1>1, <1>2, <1>3, <1>4, <1>5, <1>6

\* What is written keeps its meaning (prop.go, value.go): a number that is accepted
\* is the one in the cell and lies in its type and range, the integer form of
\* versions keeps their order, a fraction is the one written or the next below.
THEOREM ValuesMeanWhatIsWritten == SpecValues => []ValuesKeepMeaning
  <1>1. ValuesTypeInv => ValuesKeepMeaning
    <2> SUFFICES ASSUME ValuesTypeInv PROVE ValuesKeepMeaning
      OBVIOUS
    <2>1. numberCell \in NumberCells /\ tenThousandths \in Nat /\ parts \in Seq(VersionParts)
      BY DEF ValuesTypeInv
    <2> DEFINE pattern == [i \in DOMAIN parts |-> parts[i].pattern]
               one == [i \in DOMAIN parts |-> parts[i].one]
               other == [i \in DOMAIN parts |-> parts[i].other]
    <2>2. /\ pattern \in Seq(Nat) /\ one \in Seq(Nat) /\ other \in Seq(Nat)
          /\ Len(one) = Len(pattern) /\ Len(other) = Len(pattern)
      <3>1. DOMAIN parts = 1..Len(parts) /\ Len(parts) \in Nat
        BY <2>1
      <3>2. \A i \in 1..Len(parts) : parts[i] \in VersionParts
        BY <2>1
      <3>3. \A i \in 1..Len(parts) : parts[i].pattern \in Nat /\ parts[i].one \in Nat /\ parts[i].other \in Nat
        BY <3>2 DEF VersionParts
      <3>4. QED
        BY <3>1, <3>3
    <2> HIDE DEF pattern, one, other
    <2>3. (VersionOk(one, pattern) /\ VersionOk(other, pattern)) =>
            (Smaller(one, other) <=> VersionValue(one, pattern) < VersionValue(other, pattern))
      BY <2>2, VersionsCompared
    <2> DEFINE value == ParseFieldValue(numberCell)
    <2>4. value.ok =>
            /\ value.present <=> ~numberCell.blank
            /\ numberCell.required => value.present
            /\ value.present =>
                 /\ value.value \in Lowest(numberCell.kind)..Highest(numberCell.kind)
                 /\ 2 * value.value - numberCell.halves \in {-1, 0, 1}
                 /\ numberCell.left.given => value.value >= numberCell.left.at
                 /\ numberCell.right.given => value.value <= numberCell.right.at
      <3>1. ASSUME value.ok PROVE value.ok /\ ParseFieldValue(numberCell).ok
        BY <3>1
      <3>2. QED
        BY <2>1, <3>1, NumberAccepted
    <2> DEFINE fraction == ParseFraction(tenThousandths)
    <2>5. (tenThousandths # 0 /\ fraction.ok) =>
            /\ tenThousandths * fraction.den - fraction.num * 10000 \in {0, fraction.den}
            /\ \A d \in {10, 100, 1000, 10000} : fraction.den % d = 0 => fraction.num % d # 0
      BY <2>1, FractionAccepted
    <2> HIDE DEF value, fraction
    <2>6. QED
      BY <2>3, <2>4, <2>5 DEF ValuesKeepMeaning, value, fraction, pattern, one, other
  <1>2. SpecValues => []ValuesTypeInv
    BY ValuesTypeInit, ValuesTypeStep, PTL DEF SpecValues
  <1>3. QED
    BY <1>1, <1>2, PTL
-----------------------------------------------------------------------------
(***************************************************************************)
(* What a sequence of elements at increasing positions is.                 *)
(***************************************************************************)
Enumerates(pos, n, K) ==
  /\ pos \in [1..n -> K]
  /\ \A k, l \in 1..n : k < l => pos[k] < pos[l]
  /\ \A i \in K : \E k \in 1..n : pos[k] = i

\* The elements at the positions K, in their order.
InOrder(r, src, K) ==
  \E pos : Enumerates(pos, Len(r), K) /\ \A k \in 1..Len(r) : r[k] = src[pos[k]]

LEMMA InOrderNone ==
  ASSUME NEW src
  PROVE  InOrder(<<>>, src, {})
  <1>1. Enumerates(<<>>, 0, {})
    BY DEF Enumerates
  <1>2. Len(<<>>) = 0
    OBVIOUS
  <1>3. QED
    BY <1>1, <1>2 DEF InOrder

LEMMA InOrderAppend ==
  ASSUME NEW S, NEW r \in Seq(S), NEW src, NEW K, K \subseteq Nat, InOrder(r, src, K),
         NEW i \in Nat, \A k \in K : k < i, src[i] \in S
  PROVE  Append(r, src[i]) \in Seq(S) /\ InOrder(Append(r, src[i]), src, K \cup {i})
  <1> DEFINE n == Len(r) t == Append(r, src[i])
  <1>1. /\ n \in Nat /\ t \in Seq(S) /\ Len(t) = n + 1
        /\ \A k \in 1..n : t[k] = r[k]
        /\ t[n + 1] = src[i]
    BY AppendProperties
  <1>2. PICK pos : Enumerates(pos, n, K) /\ \A k \in 1..n : r[k] = src[pos[k]]
    BY DEF InOrder
  <1> DEFINE pos2 == [k \in 1..(n + 1) |-> IF k = n + 1 THEN i ELSE pos[k]]
  <1> HIDE DEF n, t
  <1>3. \A k \in 1..(n + 1) : k = n + 1 \/ k \in 1..n
    BY <1>1
  <1>a. \A k \in 1..n : k \in 1..(n + 1) /\ k # n + 1
    BY <1>1
  <1>b. n + 1 \in 1..(n + 1)
    BY <1>1
  <1>4. /\ \A k \in 1..n : pos2[k] = pos[k] /\ pos[k] \in K
        /\ pos2[n + 1] = i
    BY <1>2, <1>a, <1>b DEF Enumerates
  <1>5. pos2 \in [1..(n + 1) -> K \cup {i}]
    BY <1>2, <1>3 DEF Enumerates
  <1> HIDE DEF pos2
  <1>6. \A k, l \in 1..(n + 1) : k < l => pos2[k] < pos2[l]
    <2> SUFFICES ASSUME NEW k \in 1..(n + 1), NEW l \in 1..(n + 1), k < l PROVE pos2[k] < pos2[l]
      OBVIOUS
    <2>1. k \in 1..n
      BY <1>1
    <2>2. CASE l = n + 1
      BY <1>4, <2>1, <2>2
    <2>3. CASE l \in 1..n
      BY <1>2, <1>4, <2>1, <2>3 DEF Enumerates
    <2>4. QED
      BY <1>3, <2>2, <2>3
  <1>7. \A j \in K \cup {i} : \E k \in 1..(n + 1) : pos2[k] = j
    BY <1>2, <1>4, <1>a, <1>b DEF Enumerates
  <1>8. \A k \in 1..(n + 1) : t[k] = src[pos2[k]]
    BY <1>1, <1>2, <1>3, <1>4
  <1>9. Enumerates(pos2, n + 1, K \cup {i})
    BY <1>5, <1>6, <1>7 DEF Enumerates
  <1>10. InOrder(t, src, K \cup {i})
    BY <1>1, <1>8, <1>9 DEF InOrder
  <1>11. QED
    BY <1>1, <1>10 DEF t

\* Selected takes a step with each of the sequence.
Chooses(acc, S, s, chosen) ==
  /\ acc \in [0..Len(s) -> Seq(S)]
  /\ acc[0] = <<>> /\ acc[Len(s)] = Selected(s, chosen)
  /\ \A i \in 1..Len(s) :
       acc[i] = IF s[i] \in chosen THEN Append(acc[i - 1], s[i]) ELSE acc[i - 1]

LEMMA SelectedSteps ==
  ASSUME NEW S, NEW s \in Seq(S), NEW chosen
  PROVE  \E acc : Chooses(acc, S, s, chosen)
  <1> DEFINE n == Len(s)
             R == Seq(S)
             Next1(a, x) == IF x \in chosen THEN Append(a, x) ELSE a
             step == [p \in (1..n) \X R |-> Next1(p[2], s[p[1]])]
  <1>1. n \in Nat /\ DOMAIN s = 1..n /\ \A i \in 1..n : s[i] \in S
    OBVIOUS
  <1>2. ASSUME NEW a \in R, NEW x \in S PROVE Next1(a, x) \in R
    BY AppendProperties
  <1>3. IsStep(step, R, n) /\ <<>> \in R
    <2> HIDE DEF Next1
    <2>1. QED
      BY <1>1, <1>2 DEF IsStep
  <1>a. PICK it, acc : FoldsBy(it, R, n, <<>>, step) /\ StepsBy(acc, R, n, <<>>, step) /\ acc[n] = it[1..n]
    <2> HIDE DEF step, n, R
    <2>1. QED
      BY <1>1, <1>3, FoldAndSteps
  <1>5. /\ it \in [SUBSET (1..n) -> R] /\ acc \in [0..n -> R]
        /\ \A T \in SUBSET (1..n) : it[T] = IF T = {} THEN <<>> ELSE step[<<Top(T), it[T \ {Top(T)}]>>]
        /\ acc[0] = <<>> /\ acc[n] = it[1..n]
        /\ \A i \in 1..n : acc[i] = step[<<i, acc[i - 1]>>]
    BY <1>a DEF FoldsBy, StepsBy
  <1> DEFINE Eq(jt) == jt = [T \in SUBSET (1..n) |-> IF T = {} THEN <<>> ELSE Next1(jt[T \ {Top(T)}], s[Top(T)])]
             kt == CHOOSE jt : Eq(jt)
  <1>6. Eq(it)
    <2>1. ASSUME NEW T \in SUBSET (1..n), T # {}
          PROVE  step[<<Top(T), it[T \ {Top(T)}]>>] = Next1(it[T \ {Top(T)}], s[Top(T)])
      <3>1. Top(T) \in 1..n /\ T \ {Top(T)} \in SUBSET (1..n)
        BY <1>1, <2>1, TopFacts
      <3>2. <<Top(T), it[T \ {Top(T)}]>> \in (1..n) \X R
        BY <1>5, <3>1
      <3> HIDE DEF Next1
      <3>3. QED
        BY <3>2
    <2> HIDE DEF step, Next1, n, R
    <2>2. QED
      BY <1>5, <2>1
  <1>7. Eq(kt)
    <2> HIDE DEF Eq
    <2>1. QED
      BY <1>6
  <1>8. Selected(s, chosen) = kt[1..n]
    BY <1>1 DEF Selected, FoldLeft, MapThenFoldSet, Max, Top
  <1>9. it[1..n] = kt[1..n]
    <2> HIDE DEF Next1, kt, n
    <2>1. it[{}] = kt[{}]
      BY <1>6, <1>7
    <2>2. \A T \in SUBSET (1..n) : T # {} /\ it[T \ {Top(T)}] = kt[T \ {Top(T)}] => it[T] = kt[T]
      BY <1>6, <1>7
    <2> HIDE DEF Eq
    <2>3. QED
      BY <1>1, <2>1, <2>2, FoldUnique
  <1> HIDE DEF kt, Eq
  <1>10. ASSUME NEW i \in 1..n
         PROVE  acc[i] = Next1(acc[i - 1], s[i])
    <2>1. i - 1 \in 0..n
      BY <1>1
    <2>2. acc[i - 1] \in R
      BY <1>5, <2>1
    <2> HIDE DEF Next1, R
    <2>3. QED
      BY <1>5, <2>1, <2>2
  <1>11. QED
    BY <1>5, <1>8, <1>9, <1>10 DEF Chooses

LEMMA SelectedNone ==
  ASSUME NEW chosen
  PROVE  Selected(<<>>, chosen) = <<>>
  <1>1. <<>> \in Seq({}) /\ Len(<<>>) = 0
    OBVIOUS
  <1>2. PICK acc : Chooses(acc, {}, <<>>, chosen)
    BY <1>1, SelectedSteps
  <1>3. QED
    BY <1>1, <1>2 DEF Chooses

\* Two that take the same steps end in the same.
LEMMA StepsAgree ==
  ASSUME NEW n \in Nat, NEW acc, NEW bcc, acc[0] = bcc[0],
         \A i \in 1..n : acc[i - 1] = bcc[i - 1] => acc[i] = bcc[i]
  PROVE  acc[n] = bcc[n]
  <1> DEFINE P == {i \in 0..n : acc[i] = bcc[i]}
  <1>1. 0 \in P
    OBVIOUS
  <1>2. \A i \in 1..n : i - 1 \in P => i \in P
    OBVIOUS
  <1>3. \A i \in 0..n : i \in P
    <2> HIDE DEF P
    <2>1. QED
      BY <1>1, <1>2, AllPositions
  <1>4. n \in 0..n
    OBVIOUS
  <1>5. QED
    BY <1>3, <1>4

LEMMA SelectedAppend ==
  ASSUME NEW S, NEW s \in Seq(S), NEW x \in S, NEW chosen
  PROVE  Selected(Append(s, x), chosen) = IF x \in chosen THEN Append(Selected(s, chosen), x) ELSE Selected(s, chosen)
  <1> DEFINE n == Len(s) t == Append(s, x)
  <1>1. n \in Nat /\ t \in Seq(S) /\ Len(t) = n + 1 /\ t[n + 1] = x /\ \A i \in 1..n : t[i] = s[i]
    BY AppendProperties
  <1>2. PICK acc : Chooses(acc, S, s, chosen)
    BY SelectedSteps
  <1>a. /\ acc[0] = <<>> /\ acc[n] = Selected(s, chosen)
        /\ \A i \in 1..n : acc[i] = IF s[i] \in chosen THEN Append(acc[i - 1], s[i]) ELSE acc[i - 1]
    BY <1>2 DEF Chooses
  <1> HIDE DEF t, n
  <1>3. PICK bcc : Chooses(bcc, S, t, chosen)
    BY <1>1, SelectedSteps
  <1>b. /\ bcc[0] = <<>> /\ bcc[n + 1] = Selected(t, chosen)
        /\ \A i \in 1..(n + 1) : bcc[i] = IF t[i] \in chosen THEN Append(bcc[i - 1], t[i]) ELSE bcc[i - 1]
    BY <1>1, <1>3 DEF Chooses
  <1>4. \A i \in 1..n : i \in 1..(n + 1)
    BY <1>1
  <1>5. \A i \in 1..n : acc[i - 1] = bcc[i - 1] => acc[i] = bcc[i]
    BY <1>1, <1>a, <1>b, <1>4
  <1>6. acc[n] = bcc[n]
    <2>1. n \in Nat /\ acc[0] = bcc[0]
      BY <1>1, <1>a, <1>b
    <2>2. QED
      BY <2>1, <1>5, StepsAgree
  <1>7. n + 1 \in 1..(n + 1) /\ (n + 1) - 1 = n
    BY <1>1
  <1>8. Selected(t, chosen) = IF x \in chosen THEN Append(bcc[n], x) ELSE bcc[n]
    BY <1>1, <1>b, <1>7
  <1>9. QED
    BY <1>a, <1>6, <1>8 DEF t

LEMMA SelectedIn ==
  ASSUME NEW S, NEW s \in Seq(S), NEW chosen
  PROVE  Selected(s, chosen) \in Seq(S) /\ Selected(s, chosen) \in Seq(S \cap chosen)
  <1> DEFINE n == Len(s)
  <1>1. n \in Nat /\ \A i \in 1..n : s[i] \in S
    OBVIOUS
  <1>2. PICK acc : Chooses(acc, S, s, chosen)
    BY SelectedSteps
  <1>a. /\ acc \in [0..n -> Seq(S)]
        /\ acc[0] = <<>> /\ acc[n] = Selected(s, chosen)
        /\ \A i \in 1..n : acc[i] = IF s[i] \in chosen THEN Append(acc[i - 1], s[i]) ELSE acc[i - 1]
    BY <1>2 DEF Chooses
  <1> HIDE DEF n
  <1> DEFINE P == {i \in 0..n : acc[i] \in Seq(S \cap chosen)}
  <1> HIDE DEF n
  <1>3. 0 \in P
    BY <1>1, <1>a
  <1>4. ASSUME NEW i \in 1..n, i - 1 \in P PROVE i \in P
    <2>1. i \in 0..n
      BY <1>1
    <2>2. CASE s[i] \in chosen
      <3>1. s[i] \in S \cap chosen
        BY <1>1, <2>2
      <3>2. Append(acc[i - 1], s[i]) \in Seq(S \cap chosen)
        BY <1>4, <3>1, AppendProperties
      <3>3. QED
        BY <1>a, <2>1, <2>2, <3>2
    <2>3. CASE s[i] \notin chosen
      BY <1>a, <1>4, <2>1, <2>3
    <2>4. QED
      BY <2>2, <2>3
  <1>5. \A i \in 0..n : i \in P
    <2> HIDE DEF P
    <2>1. QED
      BY <1>1, <1>3, <1>4, AllPositions
  <1>6. n \in 0..n
    BY <1>1
  <1>7. QED
    BY <1>1, <1>a, <1>5, <1>6

\* Those of a sequence that are chosen, in their order.
LEMMA SelectedInOrder ==
  ASSUME NEW S, NEW s \in Seq(S), NEW chosen, NEW src, NEW K, K \subseteq Nat, InOrder(s, src, K)
  PROVE  /\ Selected(s, chosen) \in Seq(S)
         /\ InOrder(Selected(s, chosen), src, {i \in K : src[i] \in chosen})
  <1> DEFINE n == Len(s)
  <1>1. n \in Nat /\ DOMAIN s = 1..n /\ \A i \in 1..n : s[i] \in S
    OBVIOUS
  <1>2. PICK acc : Chooses(acc, S, s, chosen)
    BY SelectedSteps
  <1>5. acc \in [0..n -> Seq(S)] /\ acc[0] = <<>> /\ acc[n] = Selected(s, chosen)
    BY <1>2 DEF Chooses
  <1>10. ASSUME NEW i \in 1..n
         PROVE  /\ i - 1 \in 0..n /\ acc[i - 1] \in Seq(S)
                /\ acc[i] = IF s[i] \in chosen THEN Append(acc[i - 1], s[i]) ELSE acc[i - 1]
    <2>1. i - 1 \in 0..n
      BY <1>1
    <2>2. acc[i] = IF s[i] \in chosen THEN Append(acc[i - 1], s[i]) ELSE acc[i - 1]
      BY <1>2 DEF Chooses
    <2>3. QED
      BY <1>5, <2>1, <2>2
  <1>11. PICK pos : Enumerates(pos, n, K) /\ \A k \in 1..n : s[k] = src[pos[k]]
    BY DEF InOrder
  <1>12. /\ \A k \in 1..n : pos[k] \in K
         /\ \A k, l \in 1..n : k < l => pos[k] < pos[l]
         /\ \A i \in K : \E k \in 1..n : pos[k] = i
    BY <1>11 DEF Enumerates
  <1> DEFINE Ks(m) == {i \in K : src[i] \in chosen /\ \E k \in 1..m : pos[k] = i}
             P == {m \in 0..n : InOrder(acc[m], src, Ks(m))}
  <1> HIDE DEF n
  <1>13. 0 \in P
    <2>1. Ks(0) = {} /\ 0 \in 0..n
      BY <1>1
    <2> HIDE DEF Ks
    <2>2. QED
      BY <1>5, <2>1, InOrderNone
  <1>14. ASSUME NEW m \in 1..n, m - 1 \in P PROVE m \in P
    <2>1. m \in 0..n /\ m - 1 \in 0..n /\ m \in Nat
      BY <1>1
    <2>2. InOrder(acc[m - 1], src, Ks(m - 1)) /\ acc[m - 1] \in Seq(S)
      BY <1>10, <1>14
    <2>3. /\ pos[m] \in Nat /\ s[m] = src[pos[m]] /\ s[m] \in S
          /\ Ks(m - 1) \subseteq Nat /\ \A k \in Ks(m - 1) : k < pos[m]
      <3>1. pos[m] \in Nat /\ s[m] = src[pos[m]] /\ s[m] \in S /\ Ks(m - 1) \subseteq Nat
        BY <1>1, <1>11, <1>12
      <3>2. ASSUME NEW j \in Ks(m - 1) PROVE j < pos[m]
        <4>1. PICK k \in 1..(m - 1) : pos[k] = j
          OBVIOUS
        <4>2. k \in 1..n /\ k < m
          BY <1>1, <2>1
        <4>3. QED
          BY <1>12, <4>1, <4>2
      <3> HIDE DEF Ks
      <3>3. QED
        BY <3>1, <3>2
    <2>4. \A k : k \in 1..m <=> k \in 1..(m - 1) \/ k = m
      BY <2>1
    <2>5. CASE s[m] \in chosen
      <3>1. Ks(m) = Ks(m - 1) \cup {pos[m]}
        BY <1>12, <2>3, <2>4, <2>5
      <3>2. acc[m] = Append(acc[m - 1], src[pos[m]])
        BY <1>10, <2>3, <2>5
      <3> HIDE DEF Ks
      <3>3. InOrder(Append(acc[m - 1], src[pos[m]]), src, Ks(m - 1) \cup {pos[m]})
        BY <2>2, <2>3, InOrderAppend
      <3>4. QED
        BY <2>1, <3>1, <3>2, <3>3
    <2>6. CASE s[m] \notin chosen
      <3>1. Ks(m) = Ks(m - 1)
        BY <2>3, <2>4, <2>6
      <3>2. acc[m] = acc[m - 1]
        BY <1>10, <2>6
      <3> HIDE DEF Ks
      <3>3. QED
        BY <2>1, <2>2, <3>1, <3>2
    <2>7. QED
      BY <2>5, <2>6
  <1>15. n \in 0..n
    BY <1>1
  <1>16. n \in P
    <2> HIDE DEF P
    <2>1. QED
      BY <1>1, <1>13, <1>14, <1>15, AllPositions
  <1>17. Ks(n) = {i \in K : src[i] \in chosen}
    BY <1>12
  <1>18. acc[n] \in Seq(S) /\ acc[n] = Selected(s, chosen)
    BY <1>5, <1>15
  <1> HIDE DEF Ks
  <1>19. QED
    BY <1>16, <1>17, <1>18

\* How many there are, and where each one is.
UpTo(K, i) == {j \in K : j <= i}

PlacedAs(r, src, K) ==
  /\ Len(r) = Cardinality(K)
  /\ \A i \in K : r[Cardinality(UpTo(K, i))] = src[i]

LEMMA InOrderCounted ==
  ASSUME NEW r, Len(r) \in Nat, NEW src, NEW K, K \subseteq Nat, InOrder(r, src, K)
  PROVE  PlacedAs(r, src, K)
  <1> DEFINE n == Len(r)
  <1>1. PICK pos : Enumerates(pos, n, K) /\ \A k \in 1..n : r[k] = src[pos[k]]
    BY DEF InOrder
  <1>2. /\ \A k \in 1..n : pos[k] \in K
        /\ \A k, l \in 1..n : k < l => pos[k] < pos[l]
        /\ \A i \in K : \E k \in 1..n : pos[k] = i
    BY <1>1 DEF Enumerates
  <1>3. n \in Nat
    OBVIOUS
  <1> HIDE DEF n
  <1>a. \A k \in 1..n : k \in Int /\ pos[k] \in Int
    <2> SUFFICES ASSUME NEW k \in 1..n PROVE k \in Int /\ pos[k] \in Int
      OBVIOUS
    <2>1. pos[k] \in K
      BY <1>2
    <2>2. pos[k] \in Nat
      BY <2>1
    <2>3. k \in Int
      BY <1>3
    <2>4. QED
      BY <2>2, <2>3
  <1>4. ASSUME NEW k \in 1..n, NEW l \in 1..n, pos[k] <= pos[l] PROVE k <= l
    <2>1. k \in Int /\ l \in Int /\ pos[k] \in Int /\ pos[l] \in Int
      BY <1>a
    <2>2. CASE l < k
      BY <1>2, <1>4, <2>1, <2>2
    <2>3. QED
      BY <2>1, <2>2
  <1>5. ASSUME NEW m \in 0..n, NEW M, M = {j \in K : \E k \in 1..m : pos[k] = j}
        PROVE  Cardinality(M) = m
    <2> DEFINE f == [k \in 1..m |-> pos[k]]
    <2>1. m \in Nat /\ \A k \in 1..m : k \in 1..n
      BY <1>3
    <2>2. f \in [1..m -> M]
      BY <1>2, <1>5, <2>1
    <2>3. \A k, l \in 1..m : f[k] = f[l] => k = l
      <3> SUFFICES ASSUME NEW k \in 1..m, NEW l \in 1..m, pos[k] = pos[l] PROVE k = l
        OBVIOUS
      <3>1. k \in 1..n /\ l \in 1..n /\ k \in Int /\ l \in Int /\ pos[k] \in Int
        BY <1>a, <2>1
      <3>2. pos[k] <= pos[l] /\ pos[l] <= pos[k]
        BY <3>1
      <3>3. k <= l /\ l <= k
        BY <1>4, <3>1, <3>2
      <3>4. QED
        BY <3>1, <3>3
    <2>4. \A j \in M : \E k \in 1..m : f[k] = j
      BY <1>5
    <2> HIDE DEF f
    <2>5. f \in Bijection(1..m, M)
      <3>1. f \in Injection(1..m, M)
        BY <2>2, <2>3 DEF Injection, IsInjective
      <3>2. f \in Surjection(1..m, M)
        BY <2>2, <2>4 DEF Surjection
      <3>3. QED
        BY <3>1, <3>2 DEF Bijection
    <2>6. ExistsBijection(1..m, M)
      BY <2>5 DEF ExistsBijection
    <2>7. QED
      BY <2>1, <2>6, FS_CountingElements
  <1>6. Cardinality(K) = n
    <2>1. K = {j \in K : \E k \in 1..n : pos[k] = j} /\ n \in 0..n
      <3>1. n \in 0..n
        BY <1>3
      <3>2. QED
        BY <1>2, <3>1
    <2>2. QED
      BY <1>5, <2>1
  <1>7. ASSUME NEW i \in K
        PROVE  r[Cardinality(UpTo(K, i))] = src[i]
    <2>1. PICK l \in 1..n : pos[l] = i
      BY <1>2
    <2> DEFINE M == UpTo(K, i)
    <2>2. M = {j \in K : \E k \in 1..l : pos[k] = j}
      <3>1. ASSUME NEW j \in K, j <= i PROVE \E k \in 1..l : pos[k] = j
        <4>1. PICK k \in 1..n : pos[k] = j
          BY <1>2
        <4>2. k <= l
          BY <1>4, <2>1, <3>1, <4>1
        <4>3. k \in 1..l
          BY <1>3, <4>2
        <4>4. QED
          BY <4>1, <4>3
      <3>2. ASSUME NEW j \in K, NEW k \in 1..l, pos[k] = j PROVE j <= i
        <4>1. k \in 1..n /\ (k < l \/ k = l)
          BY <1>3
        <4>2. j \in Int /\ i \in Int
          OBVIOUS
        <4>3. QED
          BY <1>2, <2>1, <3>2, <4>1, <4>2
      <3>3. QED
        BY <3>1, <3>2 DEF UpTo
    <2>3. l \in 0..n
      BY <1>3
    <2> HIDE DEF M
    <2>4. Cardinality(M) = l
      BY <1>5, <2>2, <2>3
    <2>5. QED
      BY <1>1, <2>1, <2>4 DEF M
  <1>8. QED
    BY <1>6, <1>7 DEF n, PlacedAs

-----------------------------------------------------------------------------
(***************************************************************************)
(* Books: any sheets, limits of what is read, and metasheets.              *)
(***************************************************************************)
BookSheets == [name : SheetNames, schema : BOOLEAN, rows : Nat]
MetaRows == [name : SheetNames \cup {TheBook}, whole : BOOLEAN]

\* A table is no schema, and a metasheet has one row for a name.
BooksInv ==
  /\ isDocument \in BOOLEAN
  /\ file \in Seq(BookSheets)
  /\ ~isDocument => \A i \in 1..Len(file) : ~file[i].schema
  /\ metasheet \subseteq MetaRows
  /\ \A one, other \in metasheet : one.name = other.name => one = other
  /\ ~hasMeta => metasheet = {}

LEMMA BooksInvInit == InitBooks => BooksInv
  BY DEF InitBooks, BooksInv

LEMMA BooksInvStep == BooksInv /\ [NextBooks]_bookVars => BooksInv'
  <1> SUFFICES ASSUME BooksInv, [NextBooks]_bookVars PROVE BooksInv'
    OBVIOUS
  <1> USE DEF BooksInv
  <1>1. ASSUME NEW name \in SheetNames, NEW aSchema \in BOOLEAN, NEW count \in 0..MaxBookRows,
               NewSheet(name, aSchema, count)
        PROVE  BooksInv'
    <2> DEFINE sheet == ASheet(name, aSchema, count)
    <2>1. sheet \in BookSheets /\ sheet.schema = aSchema
      BY BookRowsAssumption DEF BookSheets, ASheet
    <2>2. /\ file' = Append(file, sheet)
          /\ ~isDocument => ~aSchema
          /\ UNCHANGED <<isDocument, hasMeta, metasheet>>
      BY <1>1 DEF NewSheet
    <2> HIDE DEF sheet
    <2>3. /\ file' \in Seq(BookSheets) /\ Len(file') = Len(file) + 1
          /\ \A i \in 1..Len(file) : file'[i] = file[i]
          /\ file'[Len(file) + 1] = sheet
      <3> DEFINE longer == Append(file, sheet)
      <3>1. file \in Seq(BookSheets)
        OBVIOUS
      <3>2. /\ longer \in Seq(BookSheets) /\ Len(longer) = Len(file) + 1
            /\ \A i \in 1..Len(file) : longer[i] = file[i]
            /\ longer[Len(file) + 1] = sheet
        BY <2>1, <3>1, AppendProperties
      <3>3. file' = longer
        BY <2>2
      <3> HIDE DEF longer
      <3>4. QED
        BY <3>2, <3>3
    <2>4. \A i \in 1..(Len(file) + 1) : i \in 1..Len(file) \/ i = Len(file) + 1
      OBVIOUS
    <2>5. ~isDocument => \A i \in 1..Len(file') : ~file'[i].schema
      BY <2>1, <2>2, <2>3, <2>4
    <2>6. QED
      BY <2>2, <2>3, <2>5
  <1>2. CASE NewMetasheet
    BY <1>2 DEF NewMetasheet
  <1>3. ASSUME NEW name \in SheetNames \cup {TheBook}, NEW whole \in BOOLEAN, NewRow(name, whole)
        PROVE  BooksInv'
    <2> DEFINE row == [name |-> name, whole |-> whole]
    <2>1. row \in MetaRows /\ row.name = name
      BY DEF MetaRows
    <2>2. /\ hasMeta /\ metasheet' = metasheet \cup {row}
          /\ \A other \in metasheet : other.name # row.name
          /\ UNCHANGED <<isDocument, file, hasMeta>>
      BY <1>3 DEF NewRow
    <2> HIDE DEF row
    <2>3. QED
      BY <2>1, <2>2
  <1>4. CASE UNCHANGED bookVars
    BY <1>4 DEF bookVars
  <1>5. QED
    BY <1>1, <1>2, <1>3, <1>4 DEF NextBooks

\* The sheets as they are read, of which a book holds some.
AsRead == [i \in 1..Len(file) |-> ReadSheet(file[i])]

LEMMA SheetRead ==
  ASSUME NEW sheet \in BookSheets
  PROVE  /\ ReadSheet(sheet) \in BookSheets
         /\ ReadSheet(sheet).name = sheet.name
         /\ ReadSheet(sheet).schema = sheet.schema
         /\ ReadSheet(sheet).rows <= sheet.rows
         /\ isDocument \/ TopN(sheet.name) = 0 \/ sheet.rows <= DefaultTopN =>
              ReadSheet(sheet).rows = sheet.rows
  <1>1. TopN(sheet.name) \in {0, DefaultTopN} /\ TopN(sheet.name) \in Nat
    BY BookRowsAssumption DEF TopN
  <1>2. sheet.rows \in Nat
    BY DEF BookSheets
  <1>3. CASE isDocument \/ TopN(sheet.name) = 0 \/ sheet.rows < TopN(sheet.name)
    <2>1. ReadSheet(sheet) = sheet
      BY <1>3 DEF ReadSheet
    <2>2. QED
      BY <1>2, <2>1
  <1>4. CASE ~(isDocument \/ TopN(sheet.name) = 0 \/ sheet.rows < TopN(sheet.name))
    <2>1. ReadSheet(sheet) = [sheet EXCEPT !.rows = TopN(sheet.name)]
      BY <1>4 DEF ReadSheet
    <2>2. /\ ReadSheet(sheet) \in BookSheets
          /\ ReadSheet(sheet).name = sheet.name
          /\ ReadSheet(sheet).schema = sheet.schema
          /\ ReadSheet(sheet).rows = TopN(sheet.name)
      BY <1>1, <2>1 DEF BookSheets
    <2>3. TopN(sheet.name) = DefaultTopN /\ TopN(sheet.name) <= sheet.rows
      BY <1>1, <1>2, <1>4
    <2>4. QED
      BY <1>1, <1>2, <1>4, <2>2, <2>3
  <1>5. QED
    BY <1>3, <1>4

\* A sheet that is added is the last, and the only one of its name and kind.
LEMMA SheetAdded ==
  ASSUME NEW book \in Seq(BookSheets), NEW sheet \in BookSheets, NEW src, NEW K, K \subseteq Nat,
         InOrder(book, src, K), NEW m \in Nat, \A k \in K : k < m, src[m] = sheet
  PROVE  /\ AddSheet(book, sheet) \in Seq(BookSheets)
         /\ InOrder(AddSheet(book, sheet), src, {i \in K : ~SameSheet(src[i], sheet)} \cup {m})
  <1> DEFINE chosen == {s \in ToSet(book) : ~SameSheet(s, sheet)}
             rest == Selected(book, chosen)
             left == {i \in K : src[i] \in chosen}
  <1>1. left = {i \in K : ~SameSheet(src[i], sheet)}
    <2>1. ASSUME NEW i \in K PROVE src[i] \in ToSet(book)
      <3>1. PICK k \in 1..Len(book) : book[k] = src[i]
        BY DEF InOrder, Enumerates
      <3>2. QED
        BY <3>1 DEF ToSet
    <2>2. QED
      BY <2>1
  <1>2. rest \in Seq(BookSheets) /\ InOrder(rest, src, left)
    <2> HIDE DEF chosen
    <2>1. QED
      BY SelectedInOrder
  <1>3. AddSheet(book, sheet) = Append(rest, src[m])
    BY DEF AddSheet
  <1>4. left \subseteq Nat /\ \A k \in left : k < m
    OBVIOUS
  <1>5. src[m] \in BookSheets
    OBVIOUS
  <1> HIDE DEF rest, left
  <1>6. Append(rest, src[m]) \in Seq(BookSheets) /\ InOrder(Append(rest, src[m]), src, left \cup {m})
    BY <1>2, <1>4, <1>5, InOrderAppend
  <1>7. QED
    BY <1>1, <1>3, <1>6

\* A book can take every sheet.
LEMMA AddSheetType ==
  ASSUME NEW book \in Seq(BookSheets), NEW sheet \in BookSheets
  PROVE  AddSheet(book, sheet) \in Seq(BookSheets)
  <1> DEFINE n == Len(book)
             pos == [k \in 1..n |-> k]
             chosen == {s \in ToSet(book) : ~SameSheet(s, sheet)}
  <1>1. n \in Nat /\ 1..n \subseteq Nat
    OBVIOUS
  <1>2. Enumerates(pos, n, 1..n)
    BY <1>1 DEF Enumerates
  <1>3. InOrder(book, book, 1..n)
    BY <1>2 DEF InOrder
  <1> HIDE DEF n, chosen
  <1>4. Selected(book, chosen) \in Seq(BookSheets)
    BY <1>1, <1>3, SelectedInOrder
  <1>5. QED
    BY <1>4, AppendProperties DEF AddSheet, chosen

\* The last of every name.
Lasts(m) == {i \in 1..m : /\ ForProtogen(file[i])
                          /\ \A j \in (i + 1)..m : ~(ForProtogen(file[j]) /\ file[j].name = file[i].name)}

LEMMA BookInOrder ==
  ASSUME BooksInv
  PROVE  ProtogenBook \in Seq(BookSheets) /\ InOrder(ProtogenBook, AsRead, Lasts(Len(file)))
  <1> DEFINE n == Len(file)
             R == Seq(BookSheets)
             Next1(a, x) == IF ForProtogen(x) THEN AddSheet(a, ReadSheet(x)) ELSE a
             step == [p \in (1..n) \X R |-> Next1(p[2], file[p[1]])]
  <1>1. n \in Nat /\ DOMAIN file = 1..n /\ \A i \in 1..n : file[i] \in BookSheets
    BY DEF BooksInv
  <1>2. ASSUME NEW a \in R, NEW x \in BookSheets PROVE Next1(a, x) \in R
    BY SheetRead, AddSheetType
  <1>3. IsStep(step, R, n) /\ <<>> \in R
    <2> HIDE DEF Next1
    <2>1. QED
      BY <1>1, <1>2 DEF IsStep
  <1>a. PICK it, acc : FoldsBy(it, R, n, <<>>, step) /\ StepsBy(acc, R, n, <<>>, step) /\ acc[n] = it[1..n]
    <2> HIDE DEF step, n, R
    <2>1. QED
      BY <1>1, <1>3, FoldAndSteps
  <1>5. /\ it \in [SUBSET (1..n) -> R] /\ acc \in [0..n -> R]
        /\ \A T \in SUBSET (1..n) : it[T] = IF T = {} THEN <<>> ELSE step[<<Top(T), it[T \ {Top(T)}]>>]
        /\ acc[0] = <<>> /\ acc[n] = it[1..n]
        /\ \A i \in 1..n : acc[i] = step[<<i, acc[i - 1]>>]
    BY <1>a DEF FoldsBy, StepsBy
  <1> DEFINE Eq(jt) == jt = [T \in SUBSET (1..n) |->
                               IF T = {} THEN <<>> ELSE Next1(jt[T \ {Top(T)}], file[Top(T)])]
             kt == CHOOSE jt : Eq(jt)
  <1>6. Eq(it)
    <2>1. ASSUME NEW T \in SUBSET (1..n), T # {}
          PROVE  step[<<Top(T), it[T \ {Top(T)}]>>] = Next1(it[T \ {Top(T)}], file[Top(T)])
      <3>1. Top(T) \in 1..n /\ T \ {Top(T)} \in SUBSET (1..n)
        BY <1>1, <2>1, TopFacts
      <3>2. <<Top(T), it[T \ {Top(T)}]>> \in (1..n) \X R
        BY <1>5, <3>1
      <3> HIDE DEF Next1
      <3>3. QED
        BY <3>2
    <2> HIDE DEF step, Next1, n, R
    <2>2. QED
      BY <1>5, <2>1
  <1>7. Eq(kt)
    <2> HIDE DEF Eq
    <2>1. QED
      BY <1>6
  <1>8. ProtogenBook = kt[1..n]
    BY <1>1 DEF ProtogenBook, FoldLeft, MapThenFoldSet, Max, Top
  <1>9. it[1..n] = kt[1..n]
    <2> HIDE DEF Next1, kt, n
    <2>1. it[{}] = kt[{}]
      BY <1>6, <1>7
    <2>2. \A T \in SUBSET (1..n) : T # {} /\ it[T \ {Top(T)}] = kt[T \ {Top(T)}] => it[T] = kt[T]
      BY <1>6, <1>7
    <2> HIDE DEF Eq
    <2>3. QED
      BY <1>1, <2>1, <2>2, FoldUnique
  <1> HIDE DEF kt, Eq
  <1>10. ASSUME NEW i \in 1..n
         PROVE  i - 1 \in 0..n /\ acc[i - 1] \in Seq(BookSheets) /\ acc[i] = Next1(acc[i - 1], file[i])
    <2>1. i - 1 \in 0..n
      BY <1>1
    <2>2. acc[i - 1] \in R
      BY <1>5, <2>1
    <2> HIDE DEF Next1, R
    <2>3. acc[i] = Next1(acc[i - 1], file[i])
      BY <1>5, <2>1, <2>2
    <2>4. QED
      BY <2>1, <2>2, <2>3 DEF R
  <1> HIDE DEF step, R
  <1> DEFINE P == {m \in 0..n : InOrder(acc[m], AsRead, Lasts(m))}
  <1> HIDE DEF n
  <1>13. 0 \in P
    <2>1. Lasts(0) = {} /\ 0 \in 0..n
      BY <1>1 DEF Lasts
    <2>2. QED
      BY <1>5, <2>1, InOrderNone
  <1>14. ASSUME NEW m \in 1..n, m - 1 \in P PROVE m \in P
    <2>1. /\ m \in 0..n /\ m - 1 \in 0..n /\ m \in Nat
          /\ \A k : k \in 1..m <=> k \in 1..(m - 1) \/ k = m
          /\ \A k \in 1..(m - 1) : k < m /\ k \in Nat /\ k \in 1..n
      BY <1>1
    <2>2. InOrder(acc[m - 1], AsRead, Lasts(m - 1)) /\ acc[m - 1] \in Seq(BookSheets)
      BY <1>10, <1>14
    <2>3. file[m] \in BookSheets /\ ReadSheet(file[m]) \in BookSheets /\ AsRead[m] = ReadSheet(file[m])
      BY <1>1, SheetRead DEF AsRead, n
    <2>4. Lasts(m - 1) \subseteq Nat /\ \A k \in Lasts(m - 1) : k < m
      BY <2>1 DEF Lasts
    <2>5. CASE ForProtogen(file[m])
      <3>1. ASSUME NEW i \in 1..(m - 1), ForProtogen(file[i])
            PROVE  SameSheet(AsRead[i], AsRead[m]) <=> file[m].name = file[i].name
        <4>1. /\ i \in 1..n /\ AsRead[i] = ReadSheet(file[i])
              /\ file[i] \in BookSheets
          BY <1>1, <2>1 DEF AsRead, n
        <4>2. /\ AsRead[i].name = file[i].name /\ AsRead[i].schema = file[i].schema
              /\ AsRead[m].name = file[m].name /\ AsRead[m].schema = file[m].schema
          BY <2>3, <4>1, SheetRead
        <4>3. file[i].schema = file[m].schema
          <5>1. CASE isDocument
            BY <2>3, <2>5, <3>1, <4>1, <5>1 DEF ForProtogen, BookSheets
          <5>2. CASE ~isDocument
            BY <2>3, <4>1, <5>2 DEF BooksInv, BookSheets, n
          <5>3. QED
            BY <5>1, <5>2
        <4>4. QED
          BY <4>2, <4>3 DEF SameSheet
      <3>2. Lasts(m) = {i \in Lasts(m - 1) : ~SameSheet(AsRead[i], AsRead[m])} \cup {m}
        <4>1. \A j : j \notin (m + 1)..m
          BY <2>1
        <4>2. m \in Lasts(m)
          BY <2>1, <2>5, <4>1 DEF Lasts
        <4>3. ASSUME NEW i \in 1..(m - 1)
              PROVE  i \in Lasts(m) <=> i \in Lasts(m - 1) /\ ~SameSheet(AsRead[i], AsRead[m])
          <5>1. \A j : j \in (i + 1)..m <=> j \in (i + 1)..(m - 1) \/ j = m
            BY <2>1
          <5>2. QED
            BY <2>1, <2>5, <3>1, <5>1 DEF Lasts
        <4>4. Lasts(m) \subseteq 1..m /\ Lasts(m - 1) \subseteq 1..(m - 1)
          BY DEF Lasts
        <4>5. QED
          BY <2>1, <4>2, <4>3, <4>4
      <3>3. acc[m] = AddSheet(acc[m - 1], AsRead[m])
        BY <1>10, <2>3, <2>5
      <3>4. InOrder(AddSheet(acc[m - 1], AsRead[m]), AsRead,
                    {i \in Lasts(m - 1) : ~SameSheet(AsRead[i], AsRead[m])} \cup {m})
        BY <2>1, <2>2, <2>3, <2>4, SheetAdded
      <3>5. QED
        BY <2>1, <3>2, <3>3, <3>4
    <2>6. CASE ~ForProtogen(file[m])
      <3>1. Lasts(m) = Lasts(m - 1)
        <4>1. \A i \in 1..(m - 1) : \A j : j \in (i + 1)..m <=> j \in (i + 1)..(m - 1) \/ j = m
          BY <2>1
        <4>2. QED
          BY <2>1, <2>6, <4>1 DEF Lasts
      <3>2. acc[m] = acc[m - 1]
        BY <1>10, <2>6
      <3>3. QED
        BY <2>1, <2>2, <3>1, <3>2
    <2>7. QED
      BY <2>5, <2>6
  <1>15. n \in 0..n
    BY <1>1
  <1>16. n \in P
    <2> HIDE DEF P
    <2>1. QED
      BY <1>1, <1>13, <1>14, <1>15, AllPositions
  <1>17. acc[n] \in Seq(BookSheets) /\ acc[n] = ProtogenBook
    BY <1>5, <1>8, <1>9, <1>15 DEF R
  <1>18. QED
    BY <1>16, <1>17 DEF n

\* Sheets found are as they must be.
LEMMA FoundAsNamed ==
  ASSUME BooksInv, NEW found \in SUBSET (1..Len(file)), NEW sheets \in Seq(BookSheets),
         InOrder(sheets, AsRead, found),
         metasheet # {} => \A i \in found : \E row \in metasheet : row.name = file[i].name
  PROVE  /\ Len(sheets) = Cardinality(found)
         /\ \A i \in found :
              LET sheet == file[i]
                  got == sheets[Cardinality({j \in found : j <= i})]
                  whole == metasheet # {} /\ MetaRow(sheet.name).whole
              IN /\ got.name = sheet.name /\ got.schema = sheet.schema
                 /\ got.rows <= sheet.rows
                 /\ (isDocument \/ whole \/ sheet.rows <= DefaultTopN) => got.rows = sheet.rows
  <1>1. found \subseteq Nat /\ Len(sheets) \in Nat
    OBVIOUS
  <1>2. /\ Len(sheets) = Cardinality(found)
        /\ \A i \in found : sheets[Cardinality({j \in found : j <= i})] = AsRead[i]
    <2> DEFINE src == AsRead
    <2>1. InOrder(sheets, src, found)
      OBVIOUS
    <2> HIDE DEF src
    <2>2. PlacedAs(sheets, src, found)
      BY <1>1, <2>1, InOrderCounted
    <2>3. QED
      BY <2>2 DEF src, UpTo, PlacedAs
  <1>3. ASSUME NEW i \in found
        PROVE  LET sheet == file[i]
                   got == sheets[Cardinality({j \in found : j <= i})]
                   whole == metasheet # {} /\ MetaRow(sheet.name).whole
               IN /\ got.name = sheet.name /\ got.schema = sheet.schema
                  /\ got.rows <= sheet.rows
                  /\ (isDocument \/ whole \/ sheet.rows <= DefaultTopN) => got.rows = sheet.rows
    <2> DEFINE sheet == file[i] got == sheets[Cardinality({j \in found : j <= i})]
    <2>1. i \in 1..Len(file) /\ sheet \in BookSheets
      BY DEF BooksInv
    <2>2. got = ReadSheet(sheet)
      BY <1>2, <2>1 DEF AsRead
    <2>3. metasheet # {} /\ MetaRow(sheet.name).whole => TopN(sheet.name) = 0
      <3> SUFFICES ASSUME metasheet # {}, MetaRow(sheet.name).whole PROVE TopN(sheet.name) = 0
        OBVIOUS
      <3>1. MetaRow(sheet.name) \in metasheet /\ MetaRow(sheet.name).name = sheet.name
        BY DEF MetaRow
      <3>2. QED
        BY <3>1 DEF TopN
    <2> HIDE DEF sheet, got
    <2>4. /\ got.name = sheet.name /\ got.schema = sheet.schema
          /\ got.rows <= sheet.rows
          /\ (isDocument \/ (metasheet # {} /\ MetaRow(sheet.name).whole) \/ sheet.rows <= DefaultTopN)
               => got.rows = sheet.rows
      BY <2>1, <2>2, <2>3, SheetRead
    <2>5. QED
      BY <2>4 DEF sheet, got
  <1>4. QED
    BY <1>2, <1>3

\* An importer hands over the sheets that the metasheet names (book.go:152, importer.go),
\* the last of each name in the order of the file and as many of its rows as are needed,
\* and fails if and only if one is not there, for any file and metasheet.
THEOREM BooksAsNamed == SpecBooks => []BookHoldsWhatIsNamed
  <1>1. BooksInv => BookHoldsWhatIsNamed
    <2> SUFFICES ASSUME BooksInv PROVE BookHoldsWhatIsNamed
      OBVIOUS
    <2> DEFINE n == Len(file)
               found == {i \in DOMAIN file : hasMeta /\ IsLast(i) /\ Named(file[i].name)}
               absent == {row.name : row \in metasheet} \ ({TheBook} \cup {file[i].name : i \in found})
               book == ProtogenBook
               names == {s.name : s \in ToSet(book)}
               rowNames == {row.name : row \in metasheet} \ {TheBook}
               lasts == Lasts(n)
               Right == \A i \in found :
                          LET sheet == file[i]
                              got == Purged.sheets[Cardinality({j \in found : j <= i})]
                              whole == metasheet # {} /\ MetaRow(sheet.name).whole
                          IN /\ got.name = sheet.name /\ got.schema = sheet.schema
                             /\ got.rows <= sheet.rows
                             /\ (isDocument \/ whole \/ sheet.rows <= DefaultTopN) => got.rows = sheet.rows
    <2>1. book \in Seq(BookSheets) /\ InOrder(book, AsRead, lasts)
      BY BookInOrder
    <2>2. DOMAIN file = 1..n /\ n \in Nat /\ \A i \in 1..n : file[i] \in BookSheets
      BY DEF BooksInv
    <2>3. \A i \in 1..n : i \in lasts <=> IsLast(i)
      BY DEF Lasts, IsLast
    <2>4. lasts \subseteq 1..n /\ lasts \subseteq Nat
      BY DEF Lasts
    <2>5. \A i \in 1..n : AsRead[i].name = file[i].name /\ file[i].name \in SheetNames
      BY <2>2, SheetRead DEF AsRead, BookSheets
    <2>6. names = {file[i].name : i \in lasts}
      <3>1. PICK pos : Enumerates(pos, Len(book), lasts) /\ \A k \in 1..Len(book) : book[k] = AsRead[pos[k]]
        BY <2>1 DEF InOrder
      <3>2. /\ \A k \in 1..Len(book) : pos[k] \in lasts /\ book[k] = AsRead[pos[k]]
            /\ \A i \in lasts : \E k \in 1..Len(book) : book[k] = AsRead[i]
        BY <3>1 DEF Enumerates
      <3>3. ToSet(book) = {book[k] : k \in 1..Len(book)}
        BY <2>1 DEF ToSet
      <3> HIDE DEF book, lasts, n
      <3>4. ToSet(book) = {AsRead[i] : i \in lasts}
        BY <3>2, <3>3
      <3>5. QED
        BY <2>4, <2>5, <3>4
    <2>7. /\ \A row \in metasheet : row.name # TheBook => row.name \in rowNames
          /\ \A name \in rowNames : \E row \in metasheet : row.name = name
      OBVIOUS
    <2> HIDE DEF n, book, lasts
    <2>8. found \in SUBSET (1..n)
      BY <2>2
    <2>9. CASE ~hasMeta
      <3>1. Purged = [ok |-> TRUE, sheets |-> <<>>] /\ found = {} /\ metasheet = {}
        BY <2>9 DEF Purged, BooksInv
      <3>2. Cardinality({}) = 0 /\ Len(<<>>) = 0
        BY FS_EmptySet
      <3>3. absent = {}
        BY <3>1
      <3>4. Len(Purged.sheets) = Cardinality(found) /\ Purged.ok
        BY <3>1, <3>2
      <3>5. Right
        BY <3>1
      <3> HIDE DEF found, absent, Right
      <3>6. QED
        BY <3>3, <3>4, <3>5 DEF BookHoldsWhatIsNamed, found, absent, Right
    <2>10. CASE hasMeta /\ metasheet = {}
      <3>1. Purged = [ok |-> TRUE, sheets |-> book]
        BY <2>10 DEF Purged, book
      <3>2. found = lasts
        BY <2>2, <2>3, <2>4, <2>10 DEF Named
      <3>3. absent = {} /\ Purged.ok /\ Purged.sheets = book
        BY <2>10, <3>1
      <3> HIDE DEF found, absent
      <3>4. Len(Purged.sheets) = Cardinality(found) /\ Right
        BY <2>1, <2>8, <2>10, <3>2, <3>3, FoundAsNamed DEF n
      <3> HIDE DEF Right
      <3>5. QED
        BY <3>3, <3>4 DEF BookHoldsWhatIsNamed, found, absent, Right
    <2>11. CASE hasMeta /\ metasheet # {}
      <3>1. \A i \in 1..n : Named(file[i].name) <=> file[i].name \in rowNames
        BY <2>5, <2>7, <2>11, SheetNamesAssumption DEF Named
      <3>2. found = {i \in lasts : file[i].name \in rowNames}
        BY <2>2, <2>3, <2>4, <2>11, <3>1
      <3>3. absent = {} <=> rowNames \subseteq names
        <4>1. \A name \in rowNames : name \in names <=> name \in {file[i].name : i \in found}
          <5> HIDE DEF rowNames, names, found
          <5>1. QED
            BY <2>6, <3>2
        <4>2. absent = {name \in rowNames : name \notin {file[i].name : i \in found}}
          <5> HIDE DEF found
          <5>1. QED
            OBVIOUS
        <4> HIDE DEF rowNames, names, found, absent
        <4>3. QED
          BY <4>1, <4>2
      <3> HIDE DEF found, absent, rowNames
      <3>4. CASE rowNames \subseteq names
        <4> DEFINE chosen == {s \in ToSet(book) : s.name \in rowNames}
                   kept == Selected(book, chosen)
        <4>1. Purged = [ok |-> TRUE, sheets |-> kept]
          BY <2>11, <3>4 DEF Purged, Squeeze, book, rowNames, names
        <4>2. {i \in lasts : AsRead[i] \in chosen} = found
          <5>1. ASSUME NEW i \in lasts PROVE AsRead[i] \in ToSet(book)
            <6>1. PICK k \in 1..Len(book) : book[k] = AsRead[i]
              BY <2>1 DEF InOrder, Enumerates
            <6>2. QED
              BY <2>1, <6>1 DEF ToSet
          <5>2. QED
            BY <2>4, <2>5, <3>2, <5>1
        <4> HIDE DEF chosen
        <4>3. kept \in Seq(BookSheets) /\ InOrder(kept, AsRead, found)
          BY <2>1, <2>4, <4>2, SelectedInOrder
        <4> HIDE DEF kept
        <4>4. \A i \in found : \E row \in metasheet : row.name = file[i].name
          BY <2>7, <3>2 DEF rowNames
        <4>5. Purged.ok /\ Purged.sheets = kept
          BY <4>1
        <4>6. Len(Purged.sheets) = Cardinality(found) /\ Right
          BY <2>8, <4>3, <4>4, <4>5, FoundAsNamed DEF n
        <4> HIDE DEF Right
        <4>7. QED
          BY <3>3, <3>4, <4>5, <4>6 DEF BookHoldsWhatIsNamed, found, absent, Right
      <3>5. CASE ~(rowNames \subseteq names)
        <4>1. Purged = [ok |-> FALSE, sheets |-> <<>>]
          BY <2>11, <3>5 DEF Purged, book, rowNames, names
        <4>2. ~Purged.ok
          BY <4>1
        <4> HIDE DEF Right
        <4>3. QED
          BY <3>3, <3>5, <4>2 DEF BookHoldsWhatIsNamed, found, absent, Right
      <3>6. QED
        BY <3>4, <3>5
    <2>12. QED
      BY <2>9, <2>10, <2>11
  <1>2. SpecBooks => []BooksInv
    BY BooksInvInit, BooksInvStep, PTL DEF SpecBooks
  <1>3. QED
    BY <1>1, <1>2, PTL

-----------------------------------------------------------------------------
(***************************************************************************)
(* Loading: any number of patches, any keys of the map.                    *)
(***************************************************************************)
LoadSettings == {"unset", "all", "onlyMain", "onlyPatch", "empty", "given"}

\* The conf files and scattered workbooks alone are patched, fields replaced if merged.
LoadingInv ==
  /\ source \in {"conf", "main", "scatter", "merger", "both"}
  /\ patchOpt \in {"none", "replace", "merge"}
  /\ patchOpt # "none" => source \in {"conf", "scatter"}
  /\ files \subseteq Files
  /\ source # "conf" => 0 \in files
  /\ loadOpts \in [LoadOptions -> LoadSettings] /\ ownOpts \in [LoadOptions -> LoadSettings]
  /\ \A o \in LoadOptions : /\ loadOpts[o] \in SettingsOf(o) \cup {"unset"}
                            /\ ownOpts[o] \in SettingsOf(o) \cup {"unset"}
  /\ leaves \in [Files -> SUBSET LeafNames]
  /\ replaced \subseteq PatchFields
  /\ patchOpt # "merge" => replaced = {}

LEMMA LoadingInit == InitLoading => LoadingInv
  <1> SUFFICES ASSUME InitLoading PROVE LoadingInv
    OBVIOUS
  <1>1. NoOptions \in [LoadOptions -> LoadSettings] /\ \A o \in LoadOptions : NoOptions[o] = "unset"
    BY DEF NoOptions, LoadSettings
  <1>2. [f \in Files |-> {}] \in [Files -> SUBSET LeafNames]
    OBVIOUS
  <1>3. patchOpt \in {"none", "replace", "merge"} /\ (patchOpt # "none" => source \in {"conf", "scatter"})
    BY DEF InitLoading
  <1>4. QED
    BY <1>1, <1>2, <1>3 DEF InitLoading, LoadingInv

LEMMA SettingsAre ==
  ASSUME NEW o \in LoadOptions, NEW v \in SettingsOf(o)
  PROVE  v \in LoadSettings
  BY DEF SettingsOf, LoadSettings

LEMMA LoadingStep == LoadingInv /\ [NextLoading]_loadVars => LoadingInv'
  <1> SUFFICES ASSUME LoadingInv, [NextLoading]_loadVars PROVE LoadingInv'
    OBVIOUS
  <1> USE DEF LoadingInv
  <1>0. Files' = Files /\ LeafNames' = LeafNames /\ LoadOptions' = LoadOptions /\ PatchFields' = PatchFields
    BY DEF Files, LeafNames, LoadOptions, PatchFields
  <1>1. ASSUME NEW o \in LoadOptions, NEW v \in SettingsOf(o), SetOption(o, v) PROVE LoadingInv'
    BY <1>1, SettingsAre DEF SetOption
  <1>2. ASSUME NEW o \in LoadOptions, NEW v \in SettingsOf(o), SetMessagerOption(o, v) PROVE LoadingInv'
    BY <1>2, SettingsAre DEF SetMessagerOption
  <1>3. ASSUME NEW f \in Files, NEW leaf \in LeafNames, SetLeaf(f, leaf) PROVE LoadingInv'
    <2>1. leaves[f] \cup {leaf} \in SUBSET LeafNames
      OBVIOUS
    <2>2. leaves' \in [Files -> SUBSET LeafNames]
      BY <1>3, <2>1 DEF SetLeaf
    <2>3. QED
      BY <1>3, <2>2 DEF SetLeaf
  <1>4. ASSUME NEW field \in PatchFields \ replaced, SetReplaced(field) PROVE LoadingInv'
    BY <1>4 DEF SetReplaced
  <1>5. CASE UNCHANGED loadVars
    BY <1>5 DEF loadVars
  <1>6. QED
    BY <1>1, <1>2, <1>3, <1>4, <1>5 DEF NextLoading

(***************************************************************************)
(* Messages, and what patching them gives.                                 *)
(***************************************************************************)
ItemsOf == {i \in [there : BOOLEAN, one : Nat, many : Seq(Nat)] : ~i.there => i = NoItem}
MessagesOf == [one : Nat, many : Seq(Nat), sub : ItemsOf, map : [MapKeys -> ItemsOf]]

LEMMA EmptyIsOne == NoItem \in ItemsOf /\ EmptyMessage \in MessagesOf
  <1>1. NoItem \in ItemsOf
    BY DEF NoItem, ItemsOf
  <1>2. [k \in MapKeys |-> NoItem] \in [MapKeys -> ItemsOf]
    BY <1>1
  <1>3. QED
    BY <1>1, <1>2 DEF EmptyMessage, MessagesOf

LEMMA PatchedScalar ==
  ASSUME NEW dst \in Nat, NEW src \in Nat
  PROVE  PatchScalar(dst, src) \in Nat
  BY DEF PatchScalar

LEMMA PatchedList ==
  ASSUME NEW dst \in Seq(Nat), NEW src \in Seq(Nat), NEW by \in BOOLEAN
  PROVE  PatchList(dst, src, by) \in Seq(Nat)
  BY ConcatProperties DEF PatchList

LEMMA PatchedItem ==
  ASSUME NEW dst \in ItemsOf, NEW src \in ItemsOf, NEW by
  PROVE  PatchItem(dst, src, by) \in ItemsOf /\ PatchItem(dst, src, by).there
  <1>1. dst.one \in Nat /\ dst.many \in Seq(Nat) /\ src.one \in Nat /\ src.many \in Seq(Nat)
    BY DEF ItemsOf
  <1>2. ("item.many" \in by) \in BOOLEAN
    OBVIOUS
  <1>3. /\ PatchScalar(dst.one, src.one) \in Nat
        /\ PatchList(dst.many, src.many, "item.many" \in by) \in Seq(Nat)
    BY <1>1, <1>2, PatchedScalar, PatchedList
  <1>4. QED
    BY <1>3 DEF PatchItem, ItemsOf

LEMMA PatchedMessage ==
  ASSUME NEW dst \in MessagesOf, NEW src \in MessagesOf, NEW by
  PROVE  PatchMessage(dst, src, by) \in MessagesOf
  <1>1. /\ dst.one \in Nat /\ dst.many \in Seq(Nat) /\ src.one \in Nat /\ src.many \in Seq(Nat)
        /\ dst.sub \in ItemsOf /\ src.sub \in ItemsOf
        /\ \A k \in MapKeys : dst.map[k] \in ItemsOf /\ src.map[k] \in ItemsOf
    BY DEF MessagesOf
  <1>2. ("many" \in by) \in BOOLEAN
    OBVIOUS
  <1>3. /\ PatchScalar(dst.one, src.one) \in Nat
        /\ PatchList(dst.many, src.many, "many" \in by) \in Seq(Nat)
    BY <1>1, <1>2, PatchedScalar, PatchedList
  <1>4. PatchSub(dst.sub, src.sub, by) \in ItemsOf
    <2>1. CASE "sub" \in by
      BY <1>1, <2>1, EmptyIsOne, PatchedItem DEF PatchSub
    <2>2. CASE "sub" \notin by
      BY <1>1, <2>2, PatchedItem DEF PatchSub
    <2>3. QED
      BY <2>1, <2>2
  <1>5. PatchMap(dst.map, src.map, by) \in [MapKeys -> ItemsOf]
    <2> DEFINE base == IF "map" \in by /\ (\E k \in MapKeys : src.map[k].there) THEN EmptyMessage.map ELSE dst.map
    <2>1. EmptyMessage.map = [k \in MapKeys |-> NoItem]
      BY DEF EmptyMessage
    <2>2. ASSUME NEW k \in MapKeys PROVE base[k] \in ItemsOf
      BY <1>1, <2>1, EmptyIsOne
    <2>3. PatchMap(dst.map, src.map, by)
            = [k \in MapKeys |-> IF src.map[k].there THEN PatchItem(base[k], src.map[k], by) ELSE base[k]]
      BY DEF PatchMap
    <2> HIDE DEF base
    <2>4. ASSUME NEW k \in MapKeys
          PROVE  (IF src.map[k].there THEN PatchItem(base[k], src.map[k], by) ELSE base[k]) \in ItemsOf
      BY <1>1, <2>2, PatchedItem
    <2>5. QED
      BY <2>3, <2>4
  <1>6. QED
    BY <1>3, <1>4, <1>5 DEF PatchMessage, MessagesOf

\* What a file holds is a message.
LEMMA ItemAtIs ==
  ASSUME LoadingInv, NEW f \in Files, NEW one, NEW many
  PROVE  ItemAt(f, one, many) \in ItemsOf
  <1>1. f + 1 \in Nat
    BY PatchesAssumption DEF Files
  <1>2. ScalarAt(f, one) \in Nat /\ ListAt(f, many) \in Seq(Nat)
    BY <1>1 DEF ScalarAt, ListAt
  <1>3. {one, many} \cap leaves[f] = {} => ScalarAt(f, one) = 0 /\ ListAt(f, many) = <<>>
    BY DEF ScalarAt, ListAt
  <1>4. QED
    BY <1>2, <1>3 DEF ItemAt, ItemsOf, NoItem

LEMMA ContentIs ==
  ASSUME LoadingInv, NEW f \in Files
  PROVE  Content(f) \in MessagesOf
  <1>1. f + 1 \in Nat
    BY PatchesAssumption DEF Files
  <1>2. ScalarAt(f, <<"one">>) \in Nat /\ ListAt(f, <<"many">>) \in Seq(Nat)
    BY <1>1 DEF ScalarAt, ListAt
  <1>3. QED
    BY <1>2, ItemAtIs DEF Content, MessagesOf

-----------------------------------------------------------------------------
(***************************************************************************)
(* One more layer.                                                         *)
(***************************************************************************)
Gives(f, setting) == leaves[f] \cap setting # {}

LEMMA AmongIsSelected ==
  ASSUME NEW order, NEW chosen
  PROVE  Among(order, chosen) = Selected(order, chosen)
  BY DEF Among, Selected

LEMMA GivingNone ==
  ASSUME NEW setting, NEW field
  PROVE  Giving(<<>>, setting, field) = <<>>
  BY AmongIsSelected, SelectedNone DEF Giving

LEMMA GivingIn ==
  ASSUME NEW layers \in Seq(Files), NEW setting, NEW field
  PROVE  Giving(layers, setting, field) \in Seq(Files)
  <1> DEFINE giving == Among(layers, {f \in Files : leaves[f] \cap setting # {}})
  <1>1. giving \in Seq(Files)
    BY AmongIsSelected, SelectedIn
  <1> HIDE DEF giving
  <1>2. giving # <<>> => Last(giving) \in Files
    BY <1>1 DEF Last
  <1>3. QED
    BY <1>1, <1>2 DEF Giving, giving

LEMMA GivingAppend ==
  ASSUME NEW layers \in Seq(Files), NEW f \in Files, NEW setting, NEW field
  PROVE  Giving(Append(layers, f), setting, field)
           = IF ~Gives(f, setting) THEN Giving(layers, setting, field)
             ELSE IF field \in replaced THEN <<f>>
             ELSE Append(Giving(layers, setting, field), f)
  <1> DEFINE chosen == {g \in Files : leaves[g] \cap setting # {}}
             giving == Among(layers, chosen)
  <1>1. giving \in Seq(Files)
    BY AmongIsSelected, SelectedIn
  <1>2. Among(Append(layers, f), chosen) = IF f \in chosen THEN Append(giving, f) ELSE giving
    BY AmongIsSelected, SelectedAppend
  <1>3. f \in chosen <=> Gives(f, setting)
    BY DEF Gives
  <1>4. /\ Giving(layers, setting, field) = IF field \in replaced /\ giving # <<>> THEN <<Last(giving)>> ELSE giving
        /\ Giving(Append(layers, f), setting, field)
             = LET new == Among(Append(layers, f), chosen)
               IN IF field \in replaced /\ new # <<>> THEN <<Last(new)>> ELSE new
    BY DEF Giving
  <1> HIDE DEF chosen, giving
  <1>5. Append(giving, f) # <<>> /\ Last(Append(giving, f)) = f
    BY <1>1 DEF Last
  <1>6. QED
    BY <1>2, <1>3, <1>4, <1>5

LEMMA PlainField == LoadingInv => "" \notin replaced
  BY DEF LoadingInv, PatchFields

LEMMA LayerAdded ==
  ASSUME NEW layers \in Seq(Files), NEW f \in Files
  PROVE  /\ LastOf(Append(layers, f)) = f + 1
         /\ OfLayers(Append(layers, f)) = Append(OfLayers(layers), f + 1)
         /\ OfLayers(<<f>>) = <<f + 1>> /\ OfLayers(<<>>) = <<>> /\ LastOf(<<>>) = 0
         /\ OfLayers(layers) \in Seq(Nat)
  <1> DEFINE n == Len(layers) t == Append(layers, f)
  <1>1. n \in Nat /\ DOMAIN layers = 1..n /\ \A i \in 1..n : layers[i] \in Files
    OBVIOUS
  <1>2. t \in Seq(Files) /\ Len(t) = n + 1 /\ DOMAIN t = 1..(n + 1) /\ t[n + 1] = f /\ \A i \in 1..n : t[i] = layers[i]
    BY AppendProperties
  <1>3. \A g \in Files : g + 1 \in Nat
    BY PatchesAssumption DEF Files
  <1>4. OfLayers(layers) = [i \in 1..n |-> layers[i] + 1] /\ OfLayers(t) = [i \in 1..(n + 1) |-> t[i] + 1]
    BY <1>1, <1>2 DEF OfLayers
  <1>5. OfLayers(layers) \in Seq(Nat) /\ Len(OfLayers(layers)) = n
    BY <1>1, <1>3, <1>4
  <1>6. OfLayers(t) \in Seq(Nat) /\ Len(OfLayers(t)) = n + 1
    BY <1>1, <1>2, <1>3, <1>4
  <1>7. LastOf(t) = f + 1
    BY <1>2 DEF LastOf, Last
  <1>8. OfLayers(t) = Append(OfLayers(layers), f + 1)
    <2> DEFINE u == OfLayers(layers) w == Append(u, f + 1)
    <2>1. /\ w \in Seq(Nat) /\ Len(w) = n + 1 /\ w[n + 1] = f + 1 /\ \A i \in 1..n : w[i] = u[i]
      BY <1>3, <1>5, AppendProperties
    <2>2. ASSUME NEW i \in 1..(n + 1) PROVE OfLayers(t)[i] = w[i]
      BY <1>1, <1>2, <1>4, <2>1
    <2> HIDE DEF w, t
    <2>3. QED
      BY <1>6, <2>1, <2>2 DEF w
  <1>9. OfLayers(<<f>>) = <<f + 1>> /\ OfLayers(<<>>) = <<>> /\ LastOf(<<>>) = 0
    BY DEF OfLayers, LastOf
  <1>10. QED
    BY <1>5, <1>7, <1>8, <1>9

LEMMA ItemOfNone ==
  ASSUME NEW one, NEW many
  PROVE  ItemOf(<<>>, one, many) = NoItem
  <1>1. OfLayers(<<>>) = <<>> /\ LastOf(<<>>) = 0
    BY DEF OfLayers, LastOf
  <1>2. QED
    BY <1>1, GivingNone DEF ItemOf, NoItem

\* An item takes what one more layer gives it.
LEMMA ItemOfAppend ==
  ASSUME LoadingInv, NEW layers \in Seq(Files), NEW f \in Files, NEW one, NEW many
  PROVE  ItemOf(Append(layers, f), one, many)
           = IF Gives(f, {one, many}) THEN PatchItem(ItemOf(layers, one, many), ItemAt(f, one, many), replaced)
             ELSE ItemOf(layers, one, many)
  <1> DEFINE all == Giving(layers, {one, many}, "")
             ones == Giving(layers, {one}, "")
             manys == Giving(layers, {many}, "item.many")
             all2 == Giving(Append(layers, f), {one, many}, "")
             ones2 == Giving(Append(layers, f), {one}, "")
             manys2 == Giving(Append(layers, f), {many}, "item.many")
  <1>1. all \in Seq(Files) /\ ones \in Seq(Files) /\ manys \in Seq(Files)
    BY GivingIn
  <1>2. /\ all2 = IF Gives(f, {one, many}) THEN Append(all, f) ELSE all
        /\ ones2 = IF Gives(f, {one}) THEN Append(ones, f) ELSE ones
    <2>1. "" \notin replaced
      BY PlainField
    <2>2. all2 = IF ~Gives(f, {one, many}) THEN all ELSE IF "" \in replaced THEN <<f>> ELSE Append(all, f)
      BY GivingAppend
    <2>3. ones2 = IF ~Gives(f, {one}) THEN ones ELSE IF "" \in replaced THEN <<f>> ELSE Append(ones, f)
      BY GivingAppend
    <2> HIDE DEF all, ones, all2, ones2
    <2>4. QED
      BY <2>1, <2>2, <2>3
  <1>3. manys2 = IF ~Gives(f, {many}) THEN manys
                 ELSE IF "item.many" \in replaced THEN <<f>> ELSE Append(manys, f)
    BY GivingAppend
  <1>4. /\ ItemOf(layers, one, many) = [there |-> all # <<>>, one |-> LastOf(ones), many |-> OfLayers(manys)]
        /\ ItemOf(Append(layers, f), one, many)
             = [there |-> all2 # <<>>, one |-> LastOf(ones2), many |-> OfLayers(manys2)]
    BY DEF ItemOf
  <1>5. /\ Gives(f, {one}) <=> one \in leaves[f]
        /\ Gives(f, {many}) <=> many \in leaves[f]
        /\ Gives(f, {one, many}) <=> (one \in leaves[f] \/ many \in leaves[f])
    BY DEF Gives
  <1>6. /\ LastOf(Append(ones, f)) = f + 1
        /\ OfLayers(Append(manys, f)) = Append(OfLayers(manys), f + 1)
        /\ OfLayers(<<f>>) = <<f + 1>>
        /\ OfLayers(manys) \in Seq(Nat)
    BY <1>1, LayerAdded
  <1>7. Append(all, f) # <<>> /\ f + 1 \in Nat /\ f + 1 # 0
    <2>1. f + 1 \in Nat /\ f + 1 # 0
      BY PatchesAssumption DEF Files
    <2>a. \A s \in Seq(Files) : Append(s, f) # <<>>
      BY AppendProperties
    <2> HIDE DEF all
    <2>2. Append(all, f) # <<>>
      BY <1>1, <2>a
    <2>3. QED
      BY <2>1, <2>2
  <1>8. /\ ItemAt(f, one, many).one = IF one \in leaves[f] THEN f + 1 ELSE 0
        /\ ItemAt(f, one, many).many = IF many \in leaves[f] THEN <<f + 1>> ELSE <<>>
    BY DEF ItemAt, ScalarAt, ListAt
  <1> HIDE DEF all, ones, manys, all2, ones2, manys2
  <1>9. CASE ~Gives(f, {one, many})
    BY <1>2, <1>3, <1>4, <1>5, <1>9
  <1>10. CASE Gives(f, {one, many})
    <2> DEFINE item == ItemOf(layers, one, many) src == ItemAt(f, one, many)
    <2>1. PatchItem(item, src, replaced)
            = [there |-> TRUE, one |-> PatchScalar(item.one, src.one),
               many |-> PatchList(item.many, src.many, "item.many" \in replaced)]
      BY DEF PatchItem
    <2>2. item.one = LastOf(ones) /\ item.many = OfLayers(manys)
      BY <1>4
    <2>3. PatchScalar(item.one, src.one) = LastOf(ones2)
      <3>1. CASE one \in leaves[f]
        BY <1>2, <1>5, <1>6, <1>7, <1>8, <3>1 DEF PatchScalar
      <3>2. CASE one \notin leaves[f]
        BY <1>2, <1>5, <1>8, <2>2, <3>2 DEF PatchScalar
      <3>3. QED
        BY <3>1, <3>2
    <2>4. PatchList(item.many, src.many, "item.many" \in replaced) = OfLayers(manys2)
      <3>1. CASE many \in leaves[f]
        <4>1. src.many = <<f + 1>> /\ src.many # <<>>
          BY <1>8, <3>1
        <4>2. OfLayers(manys) \o <<f + 1>> = Append(OfLayers(manys), f + 1)
          BY <1>6, <1>7
        <4>3. QED
          BY <1>3, <1>5, <1>6, <2>2, <3>1, <4>1, <4>2 DEF PatchList
      <3>2. CASE many \notin leaves[f]
        BY <1>3, <1>5, <1>8, <2>2, <3>2 DEF PatchList
      <3>3. QED
        BY <3>1, <3>2
    <2>5. all2 # <<>>
      BY <1>2, <1>7, <1>10
    <2> HIDE DEF item, src
    <2>6. QED
      BY <1>4, <1>10, <2>1, <2>3, <2>4, <2>5 DEF item, src
  <1>11. QED
    BY <1>9, <1>10

LEMMA ItemOfFirst ==
  ASSUME LoadingInv, NEW f \in Files, NEW one, NEW many
  PROVE  ItemOf(<<f>>, one, many)
           = IF Gives(f, {one, many}) THEN PatchItem(NoItem, ItemAt(f, one, many), replaced) ELSE NoItem
  <1> DEFINE none == <<>>
  <1>1. none \in Seq(Files)
    OBVIOUS
  <1>2. ItemOf(none, one, many) = NoItem /\ Append(none, f) = <<f>>
    BY ItemOfNone
  <1> HIDE DEF none
  <1>3. ItemOf(Append(none, f), one, many)
           = IF Gives(f, {one, many}) THEN PatchItem(ItemOf(none, one, many), ItemAt(f, one, many), replaced)
             ELSE ItemOf(none, one, many)
    BY <1>1, ItemOfAppend
  <1>4. QED
    BY <1>2, <1>3

LEMMA LayeredNone == Layered(<<>>) = EmptyMessage
  <1>1. OfLayers(<<>>) = <<>> /\ LastOf(<<>>) = 0
    BY DEF OfLayers, LastOf
  <1>2. \A setting, field : Giving(<<>>, setting, field) = <<>>
    BY GivingNone
  <1>3. \A one, many : ItemOf(<<>>, one, many) = NoItem
    BY ItemOfNone
  <1>4. (IF "map" \in replaced THEN Giving(<<>>, WithPrefix("map"), "map") ELSE <<>>) = <<>>
    BY <1>2
  <1>5. QED
    BY <1>1, <1>2, <1>3, <1>4 DEF Layered, EmptyMessage

\* The leaves of the message in a message, and of an entry of its map.
SubOne == <<"sub", "one">>
SubMany == <<"sub", "many">>
MapOne(k) == <<"map", k, "one">>
MapMany(k) == <<"map", k, "many">>

LEMMA GivesSub ==
  ASSUME LoadingInv, NEW f \in Files
  PROVE  Gives(f, WithPrefix("sub")) <=> Gives(f, {SubOne, SubMany})
  <1>1. leaves[f] \subseteq LeafNames
    BY DEF LoadingInv
  <1>2. ASSUME NEW leaf \in LeafNames PROVE leaf[1] = "sub" <=> leaf \in {SubOne, SubMany}
    BY DEF LeafNames, SubOne, SubMany
  <1>3. QED
    BY <1>1, <1>2 DEF Gives, WithPrefix

LEMMA GivesMap ==
  ASSUME LoadingInv, NEW f \in Files
  PROVE  Gives(f, WithPrefix("map")) <=> \E k \in MapKeys : Gives(f, {MapOne(k), MapMany(k)})
  <1>1. leaves[f] \subseteq LeafNames
    BY DEF LoadingInv
  <1>2. ASSUME NEW leaf \in LeafNames
        PROVE  leaf[1] = "map" <=> \E k \in MapKeys : leaf \in {MapOne(k), MapMany(k)}
    BY DEF LeafNames, MapOne, MapMany
  <1>3. QED
    BY <1>1, <1>2 DEF Gives, WithPrefix

\* A layer that is put on the others is patched into what they give.
LEMMA LayeredAppend ==
  ASSUME LoadingInv, NEW layers \in Seq(Files), NEW f \in Files
  PROVE  Layered(Append(layers, f)) = PatchMessage(Layered(layers), Content(f), replaced)
  <1> DEFINE t == Append(layers, f)
             ones == Giving(layers, {<<"one">>}, "")
             manys == Giving(layers, {<<"many">>}, "many")
             inSub == Giving(layers, WithPrefix("sub"), "sub")
             inMap == IF "map" \in replaced THEN Giving(layers, WithPrefix("map"), "map") ELSE layers
             ones2 == Giving(t, {<<"one">>}, "")
             manys2 == Giving(t, {<<"many">>}, "many")
             inSub2 == Giving(t, WithPrefix("sub"), "sub")
             inMap2 == IF "map" \in replaced THEN Giving(t, WithPrefix("map"), "map") ELSE t
             src == Content(f)
             dst == Layered(layers)
  <1>1. /\ ones \in Seq(Files) /\ manys \in Seq(Files) /\ inSub \in Seq(Files) /\ inMap \in Seq(Files)
    BY GivingIn
  <1>2. f + 1 \in Nat /\ f + 1 # 0
    BY PatchesAssumption DEF Files
  <1>3. dst = [one |-> LastOf(ones), many |-> OfLayers(manys),
               sub |-> ItemOf(inSub, SubOne, SubMany),
               map |-> [k \in MapKeys |-> ItemOf(inMap, MapOne(k), MapMany(k))]]
    BY DEF Layered, SubOne, SubMany, MapOne, MapMany
  <1>4. Layered(t) = [one |-> LastOf(ones2), many |-> OfLayers(manys2),
                      sub |-> ItemOf(inSub2, SubOne, SubMany),
                      map |-> [k \in MapKeys |-> ItemOf(inMap2, MapOne(k), MapMany(k))]]
    BY DEF Layered, SubOne, SubMany, MapOne, MapMany
  <1>5. src = [one |-> ScalarAt(f, <<"one">>), many |-> ListAt(f, <<"many">>),
               sub |-> ItemAt(f, SubOne, SubMany),
               map |-> [k \in MapKeys |-> ItemAt(f, MapOne(k), MapMany(k))]]
    BY DEF Content, SubOne, SubMany, MapOne, MapMany
  <1>6. \A one, many : ItemAt(f, one, many).there <=> Gives(f, {one, many})
    BY DEF ItemAt, Gives
  <1> HIDE DEF dst, src
  <1>a. /\ dst.one = LastOf(ones) /\ dst.many = OfLayers(manys)
        /\ dst.sub = ItemOf(inSub, SubOne, SubMany)
        /\ \A k \in MapKeys : dst.map[k] = ItemOf(inMap, MapOne(k), MapMany(k))
    <2> HIDE DEF ones, manys, inSub, inMap
    <2>1. QED
      BY <1>3
  <1>b. /\ src.one = ScalarAt(f, <<"one">>) /\ src.many = ListAt(f, <<"many">>)
        /\ src.sub = ItemAt(f, SubOne, SubMany)
        /\ \A k \in MapKeys : src.map[k] = ItemAt(f, MapOne(k), MapMany(k))
    BY <1>5
  <1>7. LastOf(ones2) = PatchScalar(dst.one, src.one)
    <2>1. "" \notin replaced
      BY PlainField
    <2>2. ones2 = IF ~Gives(f, {<<"one">>}) THEN ones ELSE IF "" \in replaced THEN <<f>> ELSE Append(ones, f)
      BY GivingAppend
    <2>3. Gives(f, {<<"one">>}) <=> <<"one">> \in leaves[f]
      BY DEF Gives
    <2>4. src.one = IF <<"one">> \in leaves[f] THEN f + 1 ELSE 0
      BY <1>b DEF ScalarAt
    <2> HIDE DEF ones, ones2
    <2>5. LastOf(Append(ones, f)) = f + 1
      BY <1>1, LayerAdded
    <2>6. QED
      BY <1>2, <1>a, <2>1, <2>2, <2>3, <2>4, <2>5 DEF PatchScalar
  <1>8. OfLayers(manys2) = PatchList(dst.many, src.many, "many" \in replaced)
    <2>2. manys2 = IF ~Gives(f, {<<"many">>}) THEN manys
                   ELSE IF "many" \in replaced THEN <<f>> ELSE Append(manys, f)
      BY GivingAppend
    <2>3. Gives(f, {<<"many">>}) <=> <<"many">> \in leaves[f]
      BY DEF Gives
    <2>4. src.many = IF <<"many">> \in leaves[f] THEN <<f + 1>> ELSE <<>>
      BY <1>b DEF ListAt
    <2> HIDE DEF manys, manys2
    <2>5. /\ OfLayers(Append(manys, f)) = Append(OfLayers(manys), f + 1)
          /\ OfLayers(<<f>>) = <<f + 1>> /\ OfLayers(manys) \in Seq(Nat)
      BY <1>1, LayerAdded
    <2>7. OfLayers(manys) \o <<f + 1>> = Append(OfLayers(manys), f + 1) /\ <<f + 1>> # <<>>
      BY <1>2, <2>5
    <2>8. QED
      BY <1>a, <2>2, <2>3, <2>4, <2>5, <2>7 DEF PatchList
  <1>9. ItemOf(inSub2, SubOne, SubMany) = PatchSub(dst.sub, src.sub, replaced)
    <2>1. inSub2 = IF ~Gives(f, WithPrefix("sub")) THEN inSub
                   ELSE IF "sub" \in replaced THEN <<f>> ELSE Append(inSub, f)
      BY GivingAppend
    <2>2. Gives(f, WithPrefix("sub")) <=> src.sub.there
      BY <1>b, <1>6, GivesSub
    <2>3. Gives(f, WithPrefix("sub")) <=> Gives(f, {SubOne, SubMany})
      BY GivesSub
    <2> HIDE DEF inSub, inSub2
    <2>4. ItemOf(Append(inSub, f), SubOne, SubMany)
            = IF Gives(f, {SubOne, SubMany}) THEN PatchItem(ItemOf(inSub, SubOne, SubMany), src.sub, replaced)
              ELSE ItemOf(inSub, SubOne, SubMany)
      <3>1. inSub \in Seq(Files)
        BY <1>1
      <3>2. ItemOf(Append(inSub, f), SubOne, SubMany)
              = IF Gives(f, {SubOne, SubMany})
                THEN PatchItem(ItemOf(inSub, SubOne, SubMany), ItemAt(f, SubOne, SubMany), replaced)
                ELSE ItemOf(inSub, SubOne, SubMany)
        BY <3>1, ItemOfAppend
      <3>3. QED
        BY <3>2, <1>b
    <2>5. ItemOf(<<f>>, SubOne, SubMany)
            = IF Gives(f, {SubOne, SubMany}) THEN PatchItem(NoItem, src.sub, replaced) ELSE NoItem
      BY <1>b, ItemOfFirst
    <2>7. CASE ~src.sub.there
      BY <1>a, <2>1, <2>2, <2>7 DEF PatchSub
    <2>8. CASE src.sub.there
      BY <1>a, <2>1, <2>2, <2>3, <2>4, <2>5, <2>8 DEF PatchSub
    <2>9. QED
      BY <2>7, <2>8
  <1>10. [k \in MapKeys |-> ItemOf(inMap2, MapOne(k), MapMany(k))] = PatchMap(dst.map, src.map, replaced)
    <2> DEFINE populated == \E k \in MapKeys : src.map[k].there
               base == IF "map" \in replaced /\ populated THEN EmptyMessage.map ELSE dst.map
    <2>1. PatchMap(dst.map, src.map, replaced)
            = [k \in MapKeys |-> IF src.map[k].there THEN PatchItem(base[k], src.map[k], replaced) ELSE base[k]]
      BY DEF PatchMap
    <2>2. ASSUME NEW k \in MapKeys
          PROVE  /\ dst.map[k] = ItemOf(inMap, MapOne(k), MapMany(k))
                 /\ src.map[k] = ItemAt(f, MapOne(k), MapMany(k))
                 /\ EmptyMessage.map[k] = NoItem
      <3>1. EmptyMessage.map = [j \in MapKeys |-> NoItem]
        BY DEF EmptyMessage
      <3> HIDE DEF inMap
      <3>2. QED
        BY <1>a, <1>b, <3>1
    <2>3. \A k \in MapKeys : src.map[k].there <=> Gives(f, {MapOne(k), MapMany(k)})
      BY <1>6, <2>2
    <2>4. populated <=> Gives(f, WithPrefix("map"))
      BY <2>3, GivesMap
    <2>5. inMap2 = IF "map" \in replaced THEN IF populated THEN <<f>> ELSE inMap ELSE Append(inMap, f)
      <3>1. Giving(t, WithPrefix("map"), "map")
              = IF ~Gives(f, WithPrefix("map")) THEN Giving(layers, WithPrefix("map"), "map")
                ELSE IF "map" \in replaced THEN <<f>> ELSE Append(Giving(layers, WithPrefix("map"), "map"), f)
        BY GivingAppend
      <3> HIDE DEF populated
      <3>2. QED
        BY <2>4, <3>1
    <2>6. \A k \in MapKeys :
            ItemOf(Append(inMap, f), MapOne(k), MapMany(k))
              = IF Gives(f, {MapOne(k), MapMany(k)})
                THEN PatchItem(ItemOf(inMap, MapOne(k), MapMany(k)), ItemAt(f, MapOne(k), MapMany(k)), replaced)
                ELSE ItemOf(inMap, MapOne(k), MapMany(k))
      <3> HIDE DEF inMap
      <3>1. inMap \in Seq(Files)
        BY <1>1
      <3>2. ASSUME NEW k \in MapKeys
            PROVE  ItemOf(Append(inMap, f), MapOne(k), MapMany(k))
                     = IF Gives(f, {MapOne(k), MapMany(k)})
                       THEN PatchItem(ItemOf(inMap, MapOne(k), MapMany(k)), ItemAt(f, MapOne(k), MapMany(k)), replaced)
                       ELSE ItemOf(inMap, MapOne(k), MapMany(k))
        BY <3>1, ItemOfAppend
      <3>3. QED
        BY <3>2
    <2>7. \A k \in MapKeys :
            ItemOf(<<f>>, MapOne(k), MapMany(k))
              = IF Gives(f, {MapOne(k), MapMany(k)})
                THEN PatchItem(NoItem, ItemAt(f, MapOne(k), MapMany(k)), replaced)
                ELSE NoItem
      BY ItemOfFirst
    <2> HIDE DEF inMap, inMap2
    <2>8. ASSUME NEW k \in MapKeys
          PROVE  ItemOf(inMap2, MapOne(k), MapMany(k))
                   = IF src.map[k].there THEN PatchItem(base[k], src.map[k], replaced) ELSE base[k]
      <3>1. CASE "map" \notin replaced
        BY <2>2, <2>3, <2>5, <2>6, <3>1
      <3>2. CASE "map" \in replaced /\ populated
        <4>1. base[k] = NoItem /\ inMap2 = <<f>>
          BY <2>2, <2>5, <3>2
        <4> HIDE DEF populated, base
        <4>2. QED
          BY <2>2, <2>3, <2>7, <4>1
      <3>3. CASE "map" \in replaced /\ ~populated
        <4>1. base[k] = dst.map[k] /\ inMap2 = inMap /\ ~src.map[k].there
          BY <2>5, <3>3
        <4> HIDE DEF populated, base
        <4>2. QED
          BY <2>2, <4>1
      <3>4. QED
        BY <3>1, <3>2, <3>3
    <2> HIDE DEF populated, base
    <2>9. QED
      BY <2>1, <2>8
  <1> HIDE DEF t, ones2, manys2, inSub2, inMap2
  <1>11. PatchMessage(dst, src, replaced)
           = [one |-> PatchScalar(dst.one, src.one), many |-> PatchList(dst.many, src.many, "many" \in replaced),
              sub |-> PatchSub(dst.sub, src.sub, replaced), map |-> PatchMap(dst.map, src.map, replaced)]
    BY DEF PatchMessage
  <1>12. Layered(t) = PatchMessage(dst, src, replaced)
    BY <1>4, <1>7, <1>8, <1>9, <1>10, <1>11
  <1>13. QED
    BY <1>12 DEF t, dst, src

-----------------------------------------------------------------------------
(***************************************************************************)
(* An empty message, and one that has no entry in common.                  *)
(***************************************************************************)
LEMMA ItemIntoNone ==
  ASSUME NEW src \in ItemsOf, src.there, NEW by
  PROVE  PatchItem(NoItem, src, by) = src
  <1>1. /\ src.one \in Nat /\ src.many \in Seq(Nat)
        /\ src = [there |-> TRUE, one |-> src.one, many |-> src.many]
    BY DEF ItemsOf
  <1>2. PatchScalar(NoItem.one, src.one) = src.one
    BY <1>1 DEF PatchScalar, NoItem
  <1>3. PatchList(NoItem.many, src.many, "item.many" \in by) = src.many
    <2>1. NoItem.many = <<>> /\ <<>> \o src.many = src.many
      BY <1>1 DEF NoItem
    <2>2. QED
      BY <2>1 DEF PatchList
  <1>4. QED
    BY <1>1, <1>2, <1>3 DEF PatchItem

LEMMA PatchIntoEmpty ==
  ASSUME NEW src \in MessagesOf, NEW by
  PROVE  PatchMessage(EmptyMessage, src, by) = src
  <1>1. /\ src.one \in Nat /\ src.many \in Seq(Nat) /\ src.sub \in ItemsOf
        /\ src.map \in [MapKeys -> ItemsOf]
        /\ src = [one |-> src.one, many |-> src.many, sub |-> src.sub, map |-> src.map]
    BY DEF MessagesOf
  <1>2. /\ EmptyMessage.one = 0 /\ EmptyMessage.many = <<>> /\ EmptyMessage.sub = NoItem
        /\ EmptyMessage.map = [k \in MapKeys |-> NoItem]
    BY DEF EmptyMessage
  <1>3. PatchScalar(EmptyMessage.one, src.one) = src.one
    BY <1>1, <1>2 DEF PatchScalar
  <1>4. PatchList(EmptyMessage.many, src.many, "many" \in by) = src.many
    <2>1. <<>> \o src.many = src.many
      BY <1>1
    <2>2. QED
      BY <1>2, <2>1 DEF PatchList
  <1>5. PatchSub(EmptyMessage.sub, src.sub, by) = src.sub
    <2>1. ~src.sub.there => src.sub = NoItem
      BY <1>1 DEF ItemsOf
    <2>2. src.sub.there => PatchItem(NoItem, src.sub, by) = src.sub
      BY <1>1, ItemIntoNone
    <2>3. QED
      BY <1>2, <2>1, <2>2 DEF PatchSub
  <1>6. PatchMap(EmptyMessage.map, src.map, by) = src.map
    <2>1. PatchMap(EmptyMessage.map, src.map, by)
            = [k \in MapKeys |-> IF src.map[k].there THEN PatchItem(EmptyMessage.map[k], src.map[k], by)
                                 ELSE EmptyMessage.map[k]]
      BY DEF PatchMap
    <2>2. ASSUME NEW k \in MapKeys
          PROVE  (IF src.map[k].there THEN PatchItem(EmptyMessage.map[k], src.map[k], by)
                  ELSE EmptyMessage.map[k]) = src.map[k]
      <3>1. src.map[k] \in ItemsOf /\ EmptyMessage.map[k] = NoItem
        BY <1>1, <1>2
      <3>2. ~src.map[k].there => src.map[k] = NoItem
        BY <3>1 DEF ItemsOf
      <3>3. QED
        BY <3>1, <3>2, ItemIntoNone
    <2>3. QED
      BY <1>1, <2>1, <2>2
  <1>7. QED
    BY <1>1, <1>3, <1>4, <1>5, <1>6 DEF PatchMessage

\* Two messages without a common key are merged as one is patched into the other.
LEMMA MergeIsPatch ==
  ASSUME NEW dst \in MessagesOf, NEW src \in MessagesOf,
         \A k \in MapKeys : ~(dst.map[k].there /\ src.map[k].there)
  PROVE  ProtoMerge(dst, src) = PatchMessage(dst, src, {})
  <1>1. /\ src.map \in [MapKeys -> ItemsOf] /\ dst.map \in [MapKeys -> ItemsOf]
    BY DEF MessagesOf
  <1>2. PatchMap(dst.map, src.map, {})
          = [k \in MapKeys |-> IF src.map[k].there THEN PatchItem(dst.map[k], src.map[k], {}) ELSE dst.map[k]]
    BY DEF PatchMap
  <1>3. ASSUME NEW k \in MapKeys
        PROVE  (IF src.map[k].there THEN PatchItem(dst.map[k], src.map[k], {}) ELSE dst.map[k])
                 = IF src.map[k].there THEN src.map[k] ELSE dst.map[k]
    <2>1. CASE src.map[k].there
      <3>1. dst.map[k] = NoItem /\ src.map[k] \in ItemsOf
        BY <1>1, <2>1 DEF ItemsOf
      <3>2. PatchItem(NoItem, src.map[k], {}) = src.map[k]
        BY <2>1, <3>1, ItemIntoNone
      <3>3. QED
        BY <2>1, <3>1, <3>2
    <2>2. QED
      BY <2>1
  <1>4. PatchMap(dst.map, src.map, {}) = [k \in MapKeys |-> IF src.map[k].there THEN src.map[k] ELSE dst.map[k]]
    BY <1>2, <1>3
  <1>5. QED
    BY <1>4 DEF ProtoMerge, PatchMessage

LEMMA MergeIntoEmpty ==
  ASSUME NEW src \in MessagesOf
  PROVE  ProtoMerge(EmptyMessage, src) = src
  <1>1. \A k \in MapKeys : ~EmptyMessage.map[k].there
    BY DEF EmptyMessage, NoItem
  <1>2. ProtoMerge(EmptyMessage, src) = PatchMessage(EmptyMessage, src, {})
    BY <1>1, EmptyIsOne, MergeIsPatch
  <1>3. QED
    BY <1>2, PatchIntoEmpty

LEMMA ContentLayered ==
  ASSUME LoadingInv, NEW f \in Files
  PROVE  Content(f) = Layered(<<f>>)
  <1> DEFINE none == <<>>
  <1>1. none \in Seq(Files) /\ Append(none, f) = <<f>> /\ Layered(none) = EmptyMessage
    BY LayeredNone
  <1> HIDE DEF none
  <1>2. Layered(Append(none, f)) = PatchMessage(Layered(none), Content(f), replaced)
    BY <1>1, LayeredAppend
  <1>3. QED
    BY <1>1, <1>2, ContentIs, PatchIntoEmpty

\* The first members of a sequence.
LEMMA PrefixFacts ==
  ASSUME NEW S, NEW s \in Seq(S)
  PROVE  /\ SubSeq(s, 1, 0) = <<>> /\ SubSeq(s, 1, Len(s)) = s
         /\ \A i \in 0..Len(s) : SubSeq(s, 1, i) \in Seq(S) /\ Len(SubSeq(s, 1, i)) = i
         /\ \A i \in 1..Len(s) : SubSeq(s, 1, i) = Append(SubSeq(s, 1, i - 1), s[i])
  <1> DEFINE n == Len(s)
  <1>1. n \in Nat /\ \A i \in 1..n : s[i] \in S
    OBVIOUS
  <1>2. SubSeq(s, 1, 0) = <<>> /\ SubSeq(s, 1, n) = s
    BY SubSeqFull, SubSeqEmpty
  <1>3. ASSUME NEW i \in 0..n
        PROVE  SubSeq(s, 1, i) \in Seq(S) /\ Len(SubSeq(s, 1, i)) = i /\ \A j \in 1..i : SubSeq(s, 1, i)[j] = s[j]
    OBVIOUS
  <1>4. ASSUME NEW i \in 1..n PROVE SubSeq(s, 1, i) = Append(SubSeq(s, 1, i - 1), s[i])
    <2> DEFINE p == SubSeq(s, 1, i - 1) q == SubSeq(s, 1, i) r == Append(p, s[i])
    <2>1. i - 1 \in 0..n /\ i \in 0..n /\ s[i] \in S /\ i \in Nat
      BY <1>1
    <2>2. /\ p \in Seq(S) /\ Len(p) = i - 1 /\ \A j \in 1..(i - 1) : p[j] = s[j]
          /\ q \in Seq(S) /\ Len(q) = i /\ \A j \in 1..i : q[j] = s[j]
      BY <1>3, <2>1
    <2> HIDE DEF p, q
    <2>3. r \in Seq(S) /\ Len(r) = i /\ r[i] = s[i] /\ \A j \in 1..(i - 1) : r[j] = s[j]
      BY <2>1, <2>2, AppendProperties
    <2>4. \A j \in 1..i : q[j] = r[j]
      <3> SUFFICES ASSUME NEW j \in 1..i PROVE q[j] = r[j]
        OBVIOUS
      <3>1. j = i \/ j \in 1..(i - 1)
        BY <2>1
      <3> HIDE DEF r
      <3>2. QED
        BY <2>1, <2>2, <2>3, <3>1
    <2> HIDE DEF r
    <2>5. q = r
      BY <2>2, <2>3, <2>4
    <2>6. QED
      BY <2>5 DEF p, q, r
  <1>5. QED
    BY <1>2, <1>3, <1>4

LEMMA LayeredIs ==
  ASSUME LoadingInv, NEW layers \in Seq(Files)
  PROVE  Layered(layers) \in MessagesOf
  <1> DEFINE n == Len(layers)
             P == {i \in 0..n : Layered(SubSeq(layers, 1, i)) \in MessagesOf}
  <1>1. n \in Nat /\ \A i \in 1..n : layers[i] \in Files
    OBVIOUS
  <1>2. /\ SubSeq(layers, 1, 0) = <<>> /\ SubSeq(layers, 1, n) = layers
        /\ \A i \in 0..n : SubSeq(layers, 1, i) \in Seq(Files)
        /\ \A i \in 1..n : SubSeq(layers, 1, i) = Append(SubSeq(layers, 1, i - 1), layers[i])
    <2>1. /\ SubSeq(layers, 1, 0) = <<>> /\ SubSeq(layers, 1, Len(layers)) = layers
          /\ \A i \in 0..Len(layers) : SubSeq(layers, 1, i) \in Seq(Files) /\ Len(SubSeq(layers, 1, i)) = i
          /\ \A i \in 1..Len(layers) : SubSeq(layers, 1, i) = Append(SubSeq(layers, 1, i - 1), layers[i])
      BY PrefixFacts
    <2>2. QED
      BY <2>1
  <1> HIDE DEF n
  <1>3. 0 \in P
    <2>1. Layered(SubSeq(layers, 1, 0)) = EmptyMessage
      BY <1>2, LayeredNone
    <2>2. QED
      BY <1>1, <2>1, EmptyIsOne
  <1>4. ASSUME NEW i \in 1..n, i - 1 \in P PROVE i \in P
    <2>1. i \in 0..n /\ i - 1 \in 0..n
      BY <1>1
    <2> DEFINE before == SubSeq(layers, 1, i - 1) f == layers[i]
    <2>2. before \in Seq(Files) /\ f \in Files /\ Layered(before) \in MessagesOf
      BY <1>1, <1>2, <1>4, <2>1
    <2> HIDE DEF before, f
    <2>3. Layered(Append(before, f)) \in MessagesOf
      BY <2>2, LayeredAppend, ContentIs, PatchedMessage
    <2>4. QED
      BY <1>2, <2>1, <2>3 DEF before, f
  <1>5. \A i \in 0..n : i \in P
    <2> HIDE DEF P
    <2>1. QED
      BY <1>1, <1>3, <1>4, AllPositions
  <1>6. n \in 0..n
    BY <1>1
  <1>7. QED
    BY <1>2, <1>5, <1>6

-----------------------------------------------------------------------------
(***************************************************************************)
(* Patches in turn.                                                        *)
(***************************************************************************)
Patchings == [ok : BOOLEAN, patch : MessagesOf, msg : MessagesOf]

LEMMA LoadFileIs ==
  ASSUME LoadingInv, NEW m \in MessagesOf, NEW f \in Files
  PROVE  /\ LoadFile(m, f) \in [ok : BOOLEAN, msg : MessagesOf]
         /\ LoadFile(m, f).ok <=> f \in files
         /\ f \in files => LoadFile(m, f) = Loaded(Content(f)) /\ LoadFile(m, f).msg = Content(f)
  BY ContentIs DEF LoadFile, Loaded, LoadFails

LEMMA PatchByIs ==
  ASSUME LoadingInv, NEW a \in Patchings, NEW f \in Files
  PROVE  /\ PatchBy(a, f) \in Patchings
         /\ PatchBy(a, f).ok <=> (a.ok /\ f \in files)
         /\ PatchBy(a, f).ok => PatchBy(a, f).msg = PatchMessage(a.msg, Content(f), replaced)
  <1>1. a.ok \in BOOLEAN /\ a.patch \in MessagesOf /\ a.msg \in MessagesOf
    BY DEF Patchings
  <1>2. CASE ~a.ok
    BY <1>2 DEF PatchBy
  <1>3. CASE a.ok
    <2> DEFINE patch == LoadFile(a.patch, f)
    <2>1. patch.ok \in BOOLEAN /\ patch.msg \in MessagesOf /\ (patch.ok <=> f \in files)
          /\ (f \in files => patch.msg = Content(f))
      BY <1>1, LoadFileIs
    <2>2. PatchBy(a, f) = [ok |-> patch.ok, patch |-> patch.msg,
                           msg |-> IF patch.ok THEN PatchMessage(a.msg, patch.msg, replaced) ELSE a.msg]
      BY <1>3 DEF PatchBy
    <2> HIDE DEF patch
    <2>3. PatchMessage(a.msg, patch.msg, replaced) \in MessagesOf
      BY <1>1, <2>1, PatchedMessage
    <2>4. PatchBy(a, f) \in Patchings
      BY <1>1, <2>1, <2>2, <2>3 DEF Patchings
    <2>5. QED
      BY <1>3, <2>1, <2>2, <2>4
  <1>4. QED
    BY <1>1, <1>2, <1>3

\* Every patch is a step.
LEMMA PatchSteps ==
  ASSUME LoadingInv, NEW m \in MessagesOf, NEW paths \in Seq(Files)
  PROVE  \E acc : /\ acc \in [0..Len(paths) -> Patchings]
                  /\ acc[0] = [ok |-> TRUE, patch |-> EmptyMessage, msg |-> m]
                  /\ \A i \in 1..Len(paths) : acc[i] = PatchBy(acc[i - 1], paths[i])
                  /\ acc[Len(paths)] = FoldLeft(PatchBy, [ok |-> TRUE, patch |-> EmptyMessage, msg |-> m], paths)
  <1> DEFINE n == Len(paths)
             R == Patchings
             first == [ok |-> TRUE, patch |-> EmptyMessage, msg |-> m]
             step == [p \in (1..n) \X R |-> PatchBy(p[2], paths[p[1]])]
  <1>1. n \in Nat /\ DOMAIN paths = 1..n /\ \A i \in 1..n : paths[i] \in Files
    OBVIOUS
  <1>2. first \in R
    BY EmptyIsOne DEF Patchings
  <1>3. IsStep(step, R, n)
    <2>1. ASSUME NEW a \in R, NEW f \in Files PROVE PatchBy(a, f) \in R
      BY PatchByIs
    <2> HIDE DEF R
    <2>2. QED
      BY <1>1, <2>1 DEF IsStep
  <1> HIDE DEF R, first
  <1>a. PICK it, acc : FoldsBy(it, R, n, first, step) /\ StepsBy(acc, R, n, first, step) /\ acc[n] = it[1..n]
    <2> HIDE DEF step, n
    <2>1. QED
      BY <1>1, <1>2, <1>3, FoldAndSteps
  <1>5. /\ it \in [SUBSET (1..n) -> R] /\ acc \in [0..n -> R]
        /\ \A T \in SUBSET (1..n) : it[T] = IF T = {} THEN first ELSE step[<<Top(T), it[T \ {Top(T)}]>>]
        /\ acc[0] = first /\ acc[n] = it[1..n]
        /\ \A i \in 1..n : acc[i] = step[<<i, acc[i - 1]>>]
    BY <1>a DEF FoldsBy, StepsBy
  <1> DEFINE Eq(jt) == jt = [T \in SUBSET (1..n) |-> IF T = {} THEN first ELSE PatchBy(jt[T \ {Top(T)}], paths[Top(T)])]
             kt == CHOOSE jt : Eq(jt)
  <1>6. Eq(it)
    <2>1. ASSUME NEW T \in SUBSET (1..n), T # {}
          PROVE  step[<<Top(T), it[T \ {Top(T)}]>>] = PatchBy(it[T \ {Top(T)}], paths[Top(T)])
      <3>1. Top(T) \in 1..n /\ T \ {Top(T)} \in SUBSET (1..n)
        BY <1>1, <2>1, TopFacts
      <3>2. <<Top(T), it[T \ {Top(T)}]>> \in (1..n) \X R
        BY <1>5, <3>1
      <3>3. QED
        BY <3>2
    <2> HIDE DEF step, n
    <2>2. QED
      BY <1>5, <2>1
  <1>7. Eq(kt)
    <2> HIDE DEF Eq
    <2>1. QED
      BY <1>6
  <1>8. FoldLeft(PatchBy, first, paths) = kt[1..n]
    BY <1>1 DEF FoldLeft, MapThenFoldSet, Max, Top
  <1>9. it[1..n] = kt[1..n]
    <2> HIDE DEF kt, n
    <2>1. it[{}] = kt[{}]
      BY <1>6, <1>7
    <2>2. \A T \in SUBSET (1..n) : T # {} /\ it[T \ {Top(T)}] = kt[T \ {Top(T)}] => it[T] = kt[T]
      BY <1>6, <1>7
    <2> HIDE DEF Eq
    <2>3. QED
      BY <1>1, <2>1, <2>2, FoldUnique
  <1> HIDE DEF kt, Eq
  <1>10. ASSUME NEW i \in 1..n
         PROVE  acc[i] = PatchBy(acc[i - 1], paths[i])
    <2>1. i - 1 \in 0..n
      BY <1>1
    <2>2. acc[i - 1] \in R
      BY <1>5, <2>1
    <2>3. QED
      BY <1>5, <2>1, <2>2
  <1> HIDE DEF step
  <1>11. QED
    BY <1>5, <1>8, <1>9, <1>10 DEF first, R

\* All patches are there and are the next layers, or patching fails.
LEMMA PatchAllGives ==
  ASSUME LoadingInv, NEW base \in Seq(Files), NEW paths \in Seq(Files)
  PROVE  /\ PatchAll(Layered(base), paths).ok <=> \A i \in 1..Len(paths) : paths[i] \in files
         /\ PatchAll(Layered(base), paths).ok => PatchAll(Layered(base), paths).msg = Layered(base \o paths)
         /\ PatchAll(Layered(base), paths).ok \in BOOLEAN
  <1> DEFINE n == Len(paths) m == Layered(base)
             start == [ok |-> TRUE, patch |-> EmptyMessage, msg |-> m]
             sofar(i) == base \o SubSeq(paths, 1, i)
  <1>1. n \in Nat /\ m \in MessagesOf /\ \A i \in 1..n : paths[i] \in Files
    BY LayeredIs
  <1> HIDE DEF m
  <1>2. PICK acc : /\ acc \in [0..n -> Patchings]
                   /\ acc[0] = start
                   /\ \A i \in 1..n : acc[i] = PatchBy(acc[i - 1], paths[i])
                   /\ acc[n] = FoldLeft(PatchBy, start, paths)
    BY <1>1, PatchSteps
  <1>3. PatchAll(m, paths) = [ok |-> acc[n].ok, msg |-> acc[n].msg]
    BY <1>2 DEF PatchAll
  <1>4. /\ SubSeq(paths, 1, 0) = <<>> /\ SubSeq(paths, 1, n) = paths
        /\ \A i \in 0..n : SubSeq(paths, 1, i) \in Seq(Files)
        /\ \A i \in 1..n : SubSeq(paths, 1, i) = Append(SubSeq(paths, 1, i - 1), paths[i])
    <2>1. /\ SubSeq(paths, 1, 0) = <<>> /\ SubSeq(paths, 1, Len(paths)) = paths
          /\ \A i \in 0..Len(paths) : SubSeq(paths, 1, i) \in Seq(Files) /\ Len(SubSeq(paths, 1, i)) = i
          /\ \A i \in 1..Len(paths) : SubSeq(paths, 1, i) = Append(SubSeq(paths, 1, i - 1), paths[i])
      BY PrefixFacts
    <2>2. QED
      BY <2>1
  <1> DEFINE P == {i \in 0..n : /\ acc[i].ok <=> \A j \in 1..i : paths[j] \in files
                                /\ acc[i].ok => acc[i].msg = Layered(sofar(i))}
  <1> HIDE DEF n
  <1>5. 0 \in P
    <2>1. sofar(0) = base
      BY <1>4
    <2>2. acc[0].ok /\ acc[0].msg = m
      BY <1>2
    <2> HIDE DEF sofar
    <2>3. QED
      BY <1>1, <2>1, <2>2 DEF m
  <1>6. ASSUME NEW i \in 1..n, i - 1 \in P PROVE i \in P
    <2> DEFINE a == acc[i - 1] f == paths[i]
    <2>1. i \in 0..n /\ i - 1 \in 0..n /\ i \in Nat
      BY <1>1
    <2>2. a \in Patchings /\ f \in Files /\ acc[i] = PatchBy(a, f)
      BY <1>1, <1>2, <2>1
    <2>3. sofar(i - 1) \in Seq(Files) /\ sofar(i) = Append(sofar(i - 1), f)
      <3>1. SubSeq(paths, 1, i - 1) \in Seq(Files) /\ SubSeq(paths, 1, i) = Append(SubSeq(paths, 1, i - 1), f)
        BY <1>4, <2>1
      <3> HIDE DEF f
      <3>2. ASSUME NEW s \in Seq(Files) PROVE base \o s \in Seq(Files) /\ base \o Append(s, f) = Append(base \o s, f)
        BY <2>2
      <3>3. QED
        BY <3>1, <3>2
    <2>4. /\ a.ok <=> \A j \in 1..(i - 1) : paths[j] \in files
          /\ a.ok => a.msg = Layered(sofar(i - 1))
      BY <1>6
    <2>5. /\ acc[i].ok <=> (a.ok /\ f \in files)
          /\ acc[i].ok => acc[i].msg = PatchMessage(a.msg, Content(f), replaced)
      <3> HIDE DEF a, f
      <3>1. QED
        BY <2>2, PatchByIs
    <2>6. (\A j \in 1..i : paths[j] \in files) <=> (\A j \in 1..(i - 1) : paths[j] \in files) /\ f \in files
      <3>1. 1..i = (1..(i - 1)) \cup {i}
        BY <2>1
      <3>2. QED
        BY <3>1
    <2> HIDE DEF a, f, sofar
    <2>7. Layered(sofar(i)) = PatchMessage(Layered(sofar(i - 1)), Content(f), replaced)
      BY <2>2, <2>3, LayeredAppend
    <2>8. /\ acc[i].ok <=> \A j \in 1..i : paths[j] \in files
          /\ acc[i].ok => acc[i].msg = Layered(sofar(i))
      BY <2>4, <2>5, <2>6, <2>7
    <2>9. QED
      BY <2>1, <2>8
  <1>7. \A i \in 0..n : i \in P
    <2> HIDE DEF P
    <2>1. QED
      BY <1>1, <1>5, <1>6, AllPositions
  <1>8. n \in 0..n
    BY <1>1
  <1>9. sofar(n) = base \o paths
    BY <1>4
  <1> HIDE DEF sofar
  <1>10. /\ acc[n].ok <=> \A j \in 1..n : paths[j] \in files
         /\ acc[n].ok => acc[n].msg = Layered(base \o paths)
         /\ acc[n].ok \in BOOLEAN
    <2>1. acc[n] \in Patchings
      BY <1>2, <1>8
    <2>2. acc[n].ok \in BOOLEAN
      BY <2>1 DEF Patchings
    <2>3. QED
      BY <1>7, <1>8, <1>9, <2>2
  <1>11. QED
    BY <1>3, <1>10 DEF m, n

-----------------------------------------------------------------------------
(***************************************************************************)
(* Workbooks merged.                                                       *)
(***************************************************************************)
Mergings == [ok : BOOLEAN, msg : MessagesOf]

\* It has maps and lists only; two have no key in common.
Simple(f) == Content(f).one = 0 /\ ~Content(f).sub.there
Apart(f, g) == \A k \in MapKeys : ~(Content(f).map[k].there /\ Content(g).map[k].there)

LEMMA MergeOntoIs ==
  ASSUME LoadingInv, NEW a \in Mergings, NEW f \in Files
  PROVE  /\ MergeOnto(a, f) \in Mergings
         /\ MergeOnto(a, f).ok <=> /\ a.ok /\ Simple(f)
                                   /\ \A k \in MapKeys : ~(a.msg.map[k].there /\ Content(f).map[k].there)
         /\ MergeOnto(a, f).ok => MergeOnto(a, f).msg = PatchMessage(a.msg, Content(f), {})
  <1> DEFINE c == Content(f)
             separate == \A k \in MapKeys : ~(a.msg.map[k].there /\ c.map[k].there)
  <1>1. a.ok \in BOOLEAN /\ a.msg \in MessagesOf /\ c \in MessagesOf
    BY ContentIs DEF Mergings
  <1>2. MergeOnto(a, f) = IF a.ok /\ Simple(f) /\ separate THEN Loaded(ProtoMerge(a.msg, c)) ELSE LoadFails(a.msg)
    BY DEF MergeOnto, Simple
  <1>3. separate => ProtoMerge(a.msg, c) = PatchMessage(a.msg, c, {})
    <2> HIDE DEF c
    <2>1. QED
      BY <1>1, MergeIsPatch
  <1>4. PatchMessage(a.msg, c, {}) \in MessagesOf
    BY <1>1, PatchedMessage
  <1> HIDE DEF c
  <1>5. CASE a.ok /\ Simple(f) /\ separate
    <2>1. MergeOnto(a, f) = [ok |-> TRUE, msg |-> PatchMessage(a.msg, c, {})]
      BY <1>2, <1>3, <1>5 DEF Loaded
    <2>2. QED
      BY <1>4, <1>5, <2>1 DEF Mergings, c
  <1>6. CASE ~(a.ok /\ Simple(f) /\ separate)
    <2>1. MergeOnto(a, f) = [ok |-> FALSE, msg |-> a.msg]
      BY <1>2, <1>6 DEF LoadFails
    <2>2. QED
      BY <1>1, <1>6, <2>1 DEF Mergings, c
  <1>7. QED
    BY <1>5, <1>6

\* Every workbook is a step.
LEMMA MergeSteps ==
  ASSUME LoadingInv, NEW order \in Seq(Files)
  PROVE  \E acc : /\ acc \in [0..Len(order) -> Mergings]
                  /\ acc[0] = Loaded(EmptyMessage)
                  /\ \A i \in 1..Len(order) : acc[i] = MergeOnto(acc[i - 1], order[i])
                  /\ acc[Len(order)] = FoldLeft(MergeOnto, Loaded(EmptyMessage), order)
  <1> DEFINE n == Len(order)
             R == Mergings
             first == Loaded(EmptyMessage)
             step == [p \in (1..n) \X R |-> MergeOnto(p[2], order[p[1]])]
  <1>1. n \in Nat /\ DOMAIN order = 1..n /\ \A i \in 1..n : order[i] \in Files
    OBVIOUS
  <1>2. first \in R
    BY EmptyIsOne DEF Mergings, Loaded
  <1>3. IsStep(step, R, n)
    <2>1. ASSUME NEW a \in R, NEW f \in Files PROVE MergeOnto(a, f) \in R
      BY MergeOntoIs
    <2> HIDE DEF R
    <2>2. QED
      BY <1>1, <2>1 DEF IsStep
  <1> HIDE DEF R, first
  <1>a. PICK it, acc : FoldsBy(it, R, n, first, step) /\ StepsBy(acc, R, n, first, step) /\ acc[n] = it[1..n]
    <2> HIDE DEF step, n
    <2>1. QED
      BY <1>1, <1>2, <1>3, FoldAndSteps
  <1>5. /\ it \in [SUBSET (1..n) -> R] /\ acc \in [0..n -> R]
        /\ \A T \in SUBSET (1..n) : it[T] = IF T = {} THEN first ELSE step[<<Top(T), it[T \ {Top(T)}]>>]
        /\ acc[0] = first /\ acc[n] = it[1..n]
        /\ \A i \in 1..n : acc[i] = step[<<i, acc[i - 1]>>]
    BY <1>a DEF FoldsBy, StepsBy
  <1> DEFINE Eq(jt) == jt = [T \in SUBSET (1..n) |-> IF T = {} THEN first ELSE MergeOnto(jt[T \ {Top(T)}], order[Top(T)])]
             kt == CHOOSE jt : Eq(jt)
  <1>6. Eq(it)
    <2>1. ASSUME NEW T \in SUBSET (1..n), T # {}
          PROVE  step[<<Top(T), it[T \ {Top(T)}]>>] = MergeOnto(it[T \ {Top(T)}], order[Top(T)])
      <3>1. Top(T) \in 1..n /\ T \ {Top(T)} \in SUBSET (1..n)
        BY <1>1, <2>1, TopFacts
      <3>2. <<Top(T), it[T \ {Top(T)}]>> \in (1..n) \X R
        BY <1>5, <3>1
      <3>3. QED
        BY <3>2
    <2> HIDE DEF step, n
    <2>2. QED
      BY <1>5, <2>1
  <1>7. Eq(kt)
    <2> HIDE DEF Eq
    <2>1. QED
      BY <1>6
  <1>8. FoldLeft(MergeOnto, first, order) = kt[1..n]
    BY <1>1 DEF FoldLeft, MapThenFoldSet, Max, Top
  <1>9. it[1..n] = kt[1..n]
    <2> HIDE DEF kt, n
    <2>1. it[{}] = kt[{}]
      BY <1>6, <1>7
    <2>2. \A T \in SUBSET (1..n) : T # {} /\ it[T \ {Top(T)}] = kt[T \ {Top(T)}] => it[T] = kt[T]
      BY <1>6, <1>7
    <2> HIDE DEF Eq
    <2>3. QED
      BY <1>1, <2>1, <2>2, FoldUnique
  <1> HIDE DEF kt, Eq
  <1>10. ASSUME NEW i \in 1..n
         PROVE  acc[i] = MergeOnto(acc[i - 1], order[i])
    <2>1. i - 1 \in 0..n
      BY <1>1
    <2>2. acc[i - 1] \in R
      BY <1>5, <2>1
    <2>3. QED
      BY <1>5, <2>1, <2>2
  <1> HIDE DEF step
  <1>11. QED
    BY <1>5, <1>8, <1>9, <1>10 DEF first, R

\* Merged are workbooks that have no more than maps and lists and no key in common.
LEMMA MergeAllGives ==
  ASSUME LoadingInv, replaced = {}, NEW order \in Seq(Files)
  PROVE  LET merged == FoldLeft(MergeOnto, Loaded(EmptyMessage), order)
         IN /\ merged.ok <=> /\ \A i \in 1..Len(order) : Simple(order[i])
                             /\ \A i, j \in 1..Len(order) : i < j => Apart(order[i], order[j])
            /\ merged.ok => merged.msg = Layered(order)
            /\ merged.ok \in BOOLEAN
  <1> DEFINE n == Len(order)
             sofar(i) == SubSeq(order, 1, i)
             fine(i) == /\ \A j \in 1..i : Simple(order[j])
                        /\ \A j, l \in 1..i : j < l => Apart(order[j], order[l])
  <1>1. n \in Nat /\ \A i \in 1..n : order[i] \in Files
    OBVIOUS
  <1>2. PICK acc : /\ acc \in [0..n -> Mergings]
                   /\ acc[0] = Loaded(EmptyMessage)
                   /\ \A i \in 1..n : acc[i] = MergeOnto(acc[i - 1], order[i])
                   /\ acc[n] = FoldLeft(MergeOnto, Loaded(EmptyMessage), order)
    BY <1>1, MergeSteps
  <1>4. /\ sofar(0) = <<>> /\ sofar(n) = order
        /\ \A i \in 0..n : sofar(i) \in Seq(Files)
        /\ \A i \in 1..n : sofar(i) = Append(sofar(i - 1), order[i])
    <2>1. /\ SubSeq(order, 1, 0) = <<>> /\ SubSeq(order, 1, Len(order)) = order
          /\ \A i \in 0..Len(order) : SubSeq(order, 1, i) \in Seq(Files) /\ Len(SubSeq(order, 1, i)) = i
          /\ \A i \in 1..Len(order) : SubSeq(order, 1, i) = Append(SubSeq(order, 1, i - 1), order[i])
      BY PrefixFacts
    <2>2. QED
      BY <2>1
  <1> DEFINE Keyed(i) == \A k \in MapKeys :
                           acc[i].msg.map[k].there <=> \E j \in 1..i : Content(order[j]).map[k].there
             P == {i \in 0..n : /\ acc[i].ok <=> fine(i)
                                /\ acc[i].ok => acc[i].msg = Layered(sofar(i)) /\ Keyed(i)}
  <1> HIDE DEF n, sofar
  <1>5. 0 \in P
    <2>1. acc[0].ok /\ acc[0].msg = EmptyMessage
      BY <1>2 DEF Loaded
    <2>2. Layered(sofar(0)) = EmptyMessage
      BY <1>4, LayeredNone
    <2>3. fine(0)
      OBVIOUS
    <2>4. Keyed(0)
      <3>1. \A k \in MapKeys : ~EmptyMessage.map[k].there
        BY DEF EmptyMessage, NoItem
      <3>2. ASSUME NEW k \in MapKeys
            PROVE  acc[0].msg.map[k].there <=> \E j \in 1..0 : Content(order[j]).map[k].there
        <4>1. ~acc[0].msg.map[k].there
          BY <2>1, <3>1
        <4>2. 1..0 = {}
          OBVIOUS
        <4>3. QED
          BY <4>1, <4>2
      <3>3. QED
        BY <3>2
    <2> HIDE DEF fine, Keyed
    <2>5. QED
      BY <1>1, <2>1, <2>2, <2>3, <2>4
  <1>6. ASSUME NEW i \in 1..n, i - 1 \in P PROVE i \in P
    <2> DEFINE a == acc[i - 1] f == order[i]
               separate == \A k \in MapKeys : ~(a.msg.map[k].there /\ Content(f).map[k].there)
    <2>1. i \in 0..n /\ i - 1 \in 0..n /\ i \in Nat /\ 1..i = (1..(i - 1)) \cup {i} /\ i \notin 1..(i - 1)
      BY <1>1
    <2>2. a \in Mergings /\ f \in Files /\ acc[i] = MergeOnto(a, f)
      BY <1>1, <1>2, <2>1
    <2>3. sofar(i - 1) \in Seq(Files) /\ sofar(i) = Append(sofar(i - 1), f)
      BY <1>4, <2>1
    <2>4. /\ a.ok <=> fine(i - 1)
          /\ a.ok => a.msg = Layered(sofar(i - 1)) /\ Keyed(i - 1)
      BY <1>6
    <2>5. /\ acc[i].ok <=> (a.ok /\ Simple(f) /\ separate)
          /\ acc[i].ok => acc[i].msg = PatchMessage(a.msg, Content(f), replaced)
      <3> HIDE DEF a, f
      <3>1. /\ MergeOnto(a, f).ok <=> (a.ok /\ Simple(f) /\ separate)
            /\ MergeOnto(a, f).ok => MergeOnto(a, f).msg = PatchMessage(a.msg, Content(f), {})
        BY <2>2, MergeOntoIs
      <3> HIDE DEF separate
      <3>2. QED
        BY <2>2, <3>1
    <2>6. Keyed(i - 1) => (separate <=> \A j \in 1..(i - 1) : Apart(order[j], f))
      BY DEF Apart
    <2>7. fine(i) <=> fine(i - 1) /\ Simple(f) /\ \A j \in 1..(i - 1) : Apart(order[j], f)
      <3>1. \A j \in 1..(i - 1) : j < i /\ ~(i < j) /\ j \in 1..i
        BY <2>1
      <3>2. ~(i < i) /\ i \in 1..i
        BY <2>1
      <3>3. QED
        BY <2>1, <3>1, <3>2
    <2>8. a.ok => Layered(sofar(i)) = PatchMessage(a.msg, Content(f), replaced)
      <3> HIDE DEF a, f
      <3>1. QED
        BY <2>2, <2>3, <2>4, LayeredAppend
    <2>9. acc[i].ok => Keyed(i)
      <3> SUFFICES ASSUME acc[i].ok, NEW k \in MapKeys
                   PROVE  acc[i].msg.map[k].there <=> \E j \in 1..i : Content(order[j]).map[k].there
        OBVIOUS
      <3>1. a.msg.map[k].there <=> \E j \in 1..(i - 1) : Content(order[j]).map[k].there
        BY <2>4, <2>5
      <3>2. a.msg \in MessagesOf /\ Content(f) \in MessagesOf
        <4> HIDE DEF a, f
        <4>1. QED
          BY <2>2, ContentIs DEF Mergings
      <3>3. /\ a.msg.map[k] \in ItemsOf /\ Content(f).map[k] \in ItemsOf
        <4> HIDE DEF a, f
        <4>1. QED
          BY <3>2 DEF MessagesOf
      <3>4. acc[i].msg.map = PatchMap(a.msg.map, Content(f).map, {})
        <4> HIDE DEF a, f
        <4>1. QED
          BY <2>5 DEF PatchMessage
      <3>5. acc[i].msg.map[k] = IF Content(f).map[k].there THEN PatchItem(a.msg.map[k], Content(f).map[k], {})
                                ELSE a.msg.map[k]
        <4> HIDE DEF a, f
        <4>1. QED
          BY <3>4 DEF PatchMap
      <3>6. acc[i].msg.map[k].there <=> (Content(f).map[k].there \/ a.msg.map[k].there)
        <4> HIDE DEF a, f
        <4>1. PatchItem(a.msg.map[k], Content(f).map[k], {}).there
          BY <3>3, PatchedItem
        <4>2. QED
          BY <3>5, <4>1
      <3>7. QED
        BY <2>1, <3>1, <3>6
    <2> HIDE DEF fine, Keyed, separate, a, f
    <2>10. acc[i].ok <=> fine(i)
      BY <2>4, <2>5, <2>6, <2>7
    <2>11. acc[i].ok => acc[i].msg = Layered(sofar(i)) /\ Keyed(i)
      BY <2>5, <2>8, <2>9
    <2>12. QED
      BY <2>1, <2>10, <2>11
  <1>7. \A i \in 0..n : i \in P
    <2> HIDE DEF P
    <2>1. QED
      BY <1>1, <1>5, <1>6, AllPositions
  <1>8. n \in 0..n
    BY <1>1
  <1>9. acc[n].ok \in BOOLEAN
    <2>1. acc[n] \in Mergings
      BY <1>2, <1>8
    <2>2. QED
      BY <2>1 DEF Mergings
  <1>10. (acc[n].ok <=> fine(n)) /\ (acc[n].ok => acc[n].msg = Layered(order))
    <2> HIDE DEF fine, Keyed
    <2>1. QED
      BY <1>4, <1>7, <1>8
  <1>11. QED
    BY <1>2, <1>9, <1>10 DEF n

-----------------------------------------------------------------------------
(***************************************************************************)
(* Orders of files, paths and layers.                                      *)
(***************************************************************************)
LEMMA OrderFacts ==
  ASSUME NEW S, IsFiniteSet(S), NEW order \in SetToSeqs(S)
  PROVE  /\ order \in Seq(S) /\ Len(order) = Cardinality(S)
         /\ \A f \in S : \E i \in 1..Len(order) : order[i] = f
         /\ \A i, j \in 1..Len(order) : i # j => order[i] # order[j]
  <1> DEFINE n == Cardinality(S)
  <1>1. n \in Nat
    BY FS_CardinalityType
  <1>2. order \in [1..n -> S] /\ \A i, j \in 1..n : i # j => order[i] # order[j]
    BY DEF SetToSeqs
  <1>3. IsFiniteSet(1..n) /\ Cardinality(1..n) = n
    BY <1>1, FS_Interval
  <1>4. order \in Injection(1..n, S)
    BY <1>2 DEF Injection, IsInjective
  <1>5. order \in Surjection(1..n, S)
    BY <1>3, <1>4, FS_Injection
  <1>6. \A f \in S : \E i \in 1..n : order[i] = f
    BY <1>5 DEF Surjection
  <1> HIDE DEF n
  <1>7. order \in Seq(S) /\ Len(order) = n
    BY <1>1, <1>2
  <1>8. QED
    BY <1>2, <1>6, <1>7 DEF n

LEMMA OrderExists ==
  ASSUME NEW S, IsFiniteSet(S)
  PROVE  \E order : order \in SetToSeqs(S)
  <1>1. PICK order : order \in Bijection(1..Cardinality(S), S)
    BY FS_CardinalityType DEF ExistsBijection
  <1>2. order \in SetToSeqs(S)
    BY <1>1 DEF Bijection, Injection, IsInjective, SetToSeqs
  <1>3. QED
    BY <1>2

LEMMA FilesFinite ==
  ASSUME LoadingInv
  PROVE  /\ 0 \in Files /\ IsFiniteSet(Files)
         /\ IsFiniteSet(files) /\ IsFiniteSet(files \ {0})
         /\ files \subseteq Files /\ files \ {0} \subseteq Files
  <1>1. 0 \in Files /\ IsFiniteSet(Files)
    BY PatchesAssumption, FS_Interval DEF Files
  <1>2. files \subseteq Files
    BY DEF LoadingInv
  <1>3. QED
    BY <1>1, <1>2, FS_Subset

LEMMA OptionsAre ==
  ASSUME LoadingInv
  PROVE  /\ GetMode \in {"all", "onlyMain", "onlyPatch"}
         /\ PatchPaths \in Seq(Files)
  <1>1. \A o \in LoadOptions : Options[o] \in SettingsOf(o) \cup {"unset"}
    BY DEF Options, LoadingInv
  <1>2. Options["mode"] \in {"all", "onlyMain", "onlyPatch", "unset"}
    BY <1>1 DEF LoadOptions, SettingsOf
  <1>3. Options["patchPaths"] \in {"empty", "given", "unset"}
    BY <1>1 DEF LoadOptions, SettingsOf
  <1>4. [i \in 1..Patches |-> i] \in Seq(Files)
    <2>1. \A i \in 1..Patches : i \in Files
      BY PatchesAssumption DEF Files
    <2>2. QED
      BY <2>1, PatchesAssumption
  <1>5. <<>> \in Seq(Files)
    OBVIOUS
  <1>6. ASSUME NEW s \in Seq(Files) PROVE Among(s, files) \in Seq(Files)
    BY AmongIsSelected, SelectedIn
  <1>7. PatchPaths \in Seq(Files)
    <2> DEFINE every == [i \in 1..Patches |-> i]
               dirs == IF Options["patchDirs"] = "given" THEN every ELSE <<>>
    <2>1. dirs \in Seq(Files) /\ every \in Seq(Files)
      BY <1>4, <1>5
    <2>2. PatchPaths = CASE Options["patchPaths"] = "given" -> every
                         [] Options["patchPaths"] = "empty" -> <<>>
                         [] Options["patchPaths"] = "unset" -> Among(dirs, files)
      BY DEF PatchPaths
    <2> HIDE DEF every, dirs
    <2>3. QED
      BY <1>3, <1>5, <1>6, <2>1, <2>2
  <1>8. QED
    BY <1>2, <1>7 DEF GetMode

LEMMA LayersAre ==
  ASSUME LoadingInv, NEW order
  PROVE  LayersOf(order)
           = LET mode == IF source # "conf" THEN "all" ELSE GetMode
             IN IF source = "main" \/ patchOpt = "none" \/ mode = "onlyMain" THEN <<0>>
                ELSE IF patchOpt = "replace"
                THEN (IF order # <<>> THEN <<Last(order)>> ELSE IF mode = "onlyPatch" THEN <<>> ELSE <<0>>)
                ELSE (IF mode = "onlyPatch" THEN order ELSE <<0>> \o order)
  <1> DEFINE mode == IF source # "conf" THEN "all" ELSE GetMode
             one == IF order # <<>> THEN <<Last(order)>> ELSE IF mode = "onlyPatch" THEN <<>> ELSE <<0>>
             many == IF mode = "onlyPatch" THEN order ELSE <<0>> \o order
  <1>1. LayersOf(order)
          = CASE source = "main" \/ patchOpt = "none" \/ mode = "onlyMain" -> <<0>>
              [] source # "main" /\ patchOpt = "replace" /\ mode # "onlyMain" -> one
              [] source # "main" /\ patchOpt = "merge" /\ mode # "onlyMain" -> many
    BY DEF LayersOf
  <1>2. patchOpt \in {"none", "replace", "merge"}
    BY DEF LoadingInv
  <1> HIDE DEF mode, one, many
  <1>3. LayersOf(order) = IF source = "main" \/ patchOpt = "none" \/ mode = "onlyMain" THEN <<0>>
                          ELSE IF patchOpt = "replace" THEN one ELSE many
    BY <1>1, <1>2
  <1>4. QED
    BY <1>3 DEF mode, one, many

\* What comes of loading is what the layers give, if they are there.
Outcome(r, layers) ==
  /\ r.ok <=> ToSet(layers) \subseteq files
  /\ r.ok => r.msg = Layered(layers)

LEMMA EmptyOutcome == Outcome(Loaded(EmptyMessage), <<>>)
  BY LayeredNone DEF Outcome, Loaded, ToSet

LEMMA FileOutcome ==
  ASSUME LoadingInv, NEW m, NEW f \in Files
  PROVE  Outcome(LoadFile(m, f), <<f>>)
  <1>1. ToSet(<<f>>) = {f}
    BY DEF ToSet
  <1>2. f \in files => LoadFile(m, f).ok /\ LoadFile(m, f).msg = Content(f)
    BY DEF LoadFile, Loaded
  <1>3. f \notin files => ~LoadFile(m, f).ok
    BY DEF LoadFile, LoadFails
  <1>4. QED
    BY <1>1, <1>2, <1>3, ContentLayered DEF Outcome

LEMMA PatchedOutcome ==
  ASSUME LoadingInv, NEW base \in Seq(Files), NEW paths \in Seq(Files), ToSet(base) \subseteq files
  PROVE  Outcome(PatchAll(Layered(base), paths), base \o paths)
  <1> DEFINE n == Len(paths) l == Len(base) all == base \o paths
  <1>1. /\ n \in Nat /\ l \in Nat /\ DOMAIN base = 1..l /\ DOMAIN all = 1..(l + n)
        /\ \A i \in 1..l : all[i] = base[i]
        /\ \A i \in 1..n : all[l + i] = paths[i]
    BY ConcatProperties
  <1>2. \A i \in 1..l : base[i] \in files
    BY <1>1 DEF ToSet
  <1>3. ToSet(all) \subseteq files <=> \A i \in 1..(l + n) : all[i] \in files
    BY <1>1 DEF ToSet
  <1>4. (\A i \in 1..(l + n) : all[i] \in files) <=> \A i \in 1..n : paths[i] \in files
    <2> HIDE DEF n, l, all
    <2>1. ASSUME \A i \in 1..(l + n) : all[i] \in files, NEW i \in 1..n PROVE paths[i] \in files
      <3>1. l + i \in 1..(l + n)
        BY <1>1
      <3>2. QED
        BY <1>1, <2>1, <3>1
    <2>2. ASSUME \A i \in 1..n : paths[i] \in files, NEW i \in 1..(l + n) PROVE all[i] \in files
      <3>1. CASE i <= l
        <4>1. i \in 1..l
          BY <1>1, <3>1
        <4>2. QED
          BY <1>1, <1>2, <4>1
      <3>2. CASE i > l
        <4>1. i - l \in 1..n /\ l + (i - l) = i
          BY <1>1, <3>2
        <4>2. QED
          BY <1>1, <2>2, <4>1
      <3>3. QED
        BY <1>1, <3>1, <3>2
    <2>3. QED
      BY <2>1, <2>2
  <1>5. /\ PatchAll(Layered(base), paths).ok <=> \A i \in 1..n : paths[i] \in files
        /\ PatchAll(Layered(base), paths).ok => PatchAll(Layered(base), paths).msg = Layered(all)
    BY PatchAllGives
  <1>6. QED
    BY <1>3, <1>4, <1>5 DEF Outcome

-----------------------------------------------------------------------------
(***************************************************************************)
(* The sources of a message.                                               *)
(***************************************************************************)
LEMMA LastIs ==
  ASSUME NEW order \in Seq(Files), order # <<>>
  PROVE  Last(order) \in Files /\ \E i \in 1..Len(order) : Last(order) = order[i]
  BY DEF Last

LEMMA ConfOutcome ==
  ASSUME LoadingInv, source = "conf", patchOpt # "none"
  PROVE  Outcome(LoadMessagerWithPatch(EmptyMessage), LayersOf(PatchPaths))
  <1> DEFINE paths == PatchPaths
             r == LoadMessagerWithPatch(EmptyMessage)
  <1>1. /\ GetMode \in {"all", "onlyMain", "onlyPatch"} /\ paths \in Seq(Files)
        /\ 0 \in Files /\ patchOpt \in {"replace", "merge"}
    BY OptionsAre, FilesFinite DEF LoadingInv
  <1>2. LayersOf(paths)
          = IF GetMode = "onlyMain" THEN <<0>>
            ELSE IF patchOpt = "replace"
            THEN (IF paths # <<>> THEN <<Last(paths)>> ELSE IF GetMode = "onlyPatch" THEN <<>> ELSE <<0>>)
            ELSE (IF GetMode = "onlyPatch" THEN paths ELSE <<0>> \o paths)
    <2> HIDE DEF paths
    <2>1. QED
      BY LayersAre
  <1>3. Outcome(LoadFile(EmptyMessage, 0), <<0>>) /\ Outcome(Loaded(EmptyMessage), <<>>)
    BY <1>1, FileOutcome, EmptyOutcome
  <1>4. CASE GetMode = "onlyMain"
    BY <1>2, <1>3, <1>4 DEF LoadMessagerWithPatch
  <1>5. CASE GetMode # "onlyMain" /\ paths = <<>>
    <2>1. r = IF GetMode = "onlyPatch" THEN Loaded(EmptyMessage) ELSE LoadFile(EmptyMessage, 0)
      BY <1>5 DEF LoadMessagerWithPatch
    <2>2. LayersOf(paths) = IF GetMode = "onlyPatch" THEN <<>> ELSE <<0>>
      <3>1. <<0>> \o <<>> = <<0>>
        OBVIOUS
      <3> HIDE DEF paths
      <3>2. QED
        BY <1>1, <1>2, <1>5, <3>1
    <2> HIDE DEF r, paths
    <2>3. Outcome(r, LayersOf(paths))
      BY <1>3, <2>1, <2>2
    <2>4. QED
      BY <2>3 DEF r, paths
  <1>6. CASE GetMode # "onlyMain" /\ paths # <<>> /\ patchOpt = "replace"
    <2>1. r = LoadFile(EmptyMessage, Last(paths))
      BY <1>6 DEF LoadMessagerWithPatch
    <2>2. LayersOf(paths) = <<Last(paths)>>
      BY <1>2, <1>6
    <2> HIDE DEF r, paths
    <2>3. Last(paths) \in Files
      BY <1>1, <1>6, LastIs
    <2>4. Outcome(r, LayersOf(paths))
      BY <2>1, <2>2, <2>3, FileOutcome
    <2>5. QED
      BY <2>4 DEF r, paths
  <1>7. CASE GetMode # "onlyMain" /\ paths # <<>> /\ patchOpt = "merge"
    <2> DEFINE main == IF GetMode = "onlyPatch" THEN Loaded(EmptyMessage) ELSE LoadFile(EmptyMessage, 0)
               base == IF GetMode = "onlyPatch" THEN <<>> ELSE <<0>>
    <2>1. r = IF main.ok THEN PatchAll(main.msg, paths) ELSE main
      BY <1>7 DEF LoadMessagerWithPatch
    <2>2. LayersOf(paths) = base \o paths
      <3>1. <<>> \o paths = paths
        BY <1>1
      <3> HIDE DEF paths
      <3>2. QED
        BY <1>2, <1>7, <3>1
    <2>3. base \in Seq(Files)
      BY <1>1
    <2>4. Outcome(main, base)
      BY <1>3
    <2> HIDE DEF r, paths, main, base
    <2>5. CASE main.ok
      <3>1. main.msg = Layered(base) /\ ToSet(base) \subseteq files
        BY <2>4, <2>5 DEF Outcome
      <3>2. Outcome(PatchAll(Layered(base), paths), base \o paths)
        BY <1>1, <2>3, <3>1, PatchedOutcome
      <3>3. r = PatchAll(Layered(base), paths)
        BY <2>1, <2>5, <3>1
      <3>4. Outcome(r, LayersOf(paths))
        BY <2>2, <3>2, <3>3
      <3>5. QED
        BY <3>4 DEF r, paths
    <2>6. CASE ~main.ok
      <3>1. r = main /\ ~r.ok
        BY <2>1, <2>6
      <3>2. ~(ToSet(base) \subseteq files)
        BY <2>4, <2>6 DEF Outcome
      <3>3. ToSet(base) \subseteq ToSet(base \o paths)
        <4>1. /\ Len(base) \in Nat /\ Len(paths) \in Nat
              /\ DOMAIN base = 1..Len(base) /\ DOMAIN (base \o paths) = 1..(Len(base) + Len(paths))
              /\ \A i \in 1..Len(base) : (base \o paths)[i] = base[i]
          BY <1>1, <2>3, ConcatProperties
        <4>2. \A i \in 1..Len(base) : i \in 1..(Len(base) + Len(paths))
          BY <4>1
        <4>3. QED
          BY <4>1, <4>2 DEF ToSet
      <3>4. Outcome(r, LayersOf(paths))
        BY <2>2, <3>1, <3>2, <3>3 DEF Outcome
      <3>5. QED
        BY <3>4 DEF r, paths
    <2>7. QED
      BY <2>5, <2>6
  <1>8. QED
    BY <1>1, <1>4, <1>5, <1>6, <1>7

\* A message loaded from files is replaced when it is loaded again.
LEMMA ConfAgain ==
  ASSUME LoadingInv, source = "conf", patchOpt # "none", GetMode # "onlyPatch", NEW m,
         LoadMessagerWithPatch(EmptyMessage).ok
  PROVE  LoadMessagerWithPatch(m) = LoadMessagerWithPatch(EmptyMessage)
  <1>1. ASSUME NEW f, LoadFile(EmptyMessage, f).ok PROVE LoadFile(m, f) = LoadFile(EmptyMessage, f)
    BY <1>1 DEF LoadFile, LoadFails
  <1>2. ASSUME NEW n
        PROVE  LoadMessagerWithPatch(n)
                 = IF GetMode = "onlyMain" \/ PatchPaths = <<>> THEN LoadFile(n, 0)
                   ELSE IF patchOpt = "replace" THEN LoadFile(n, Last(PatchPaths))
                   ELSE IF LoadFile(n, 0).ok THEN PatchAll(LoadFile(n, 0).msg, PatchPaths) ELSE LoadFile(n, 0)
    BY DEF LoadMessagerWithPatch
  <1>3. QED
    BY <1>1, <1>2

\* The first workbook alone.
LEMMA MainGives ==
  ASSUME LoadingInv
  PROVE  /\ LoadOriginMain(EmptyMessage).ok
         /\ LoadOriginMain(EmptyMessage).msg = Layered(<<0>>)
  BY FilesFinite, ContentIs, ContentLayered, MergeIntoEmpty DEF LoadOriginMain, Loaded

LEMMA ScatterOutcome ==
  ASSUME LoadingInv, source \in {"main", "scatter"}, NEW order \in Orders
  PROVE  LET r == IF source = "main" THEN LoadOriginMain(EmptyMessage) ELSE LoadOriginScatter(EmptyMessage, order)
         IN r.ok /\ r.msg = Layered(LayersOf(order)) /\ ToSet(LayersOf(order)) \subseteq files
  <1>1. /\ order \in Seq(files \ {0}) /\ order \in Seq(Files) /\ 0 \in files /\ 0 \in Files
    BY FilesFinite, OrderFacts DEF Orders, LoadingInv
  <1>2. LayersOf(order)
          = IF source = "main" \/ patchOpt = "none" THEN <<0>>
            ELSE IF patchOpt = "replace" THEN (IF order # <<>> THEN <<Last(order)>> ELSE <<0>>)
            ELSE <<0>> \o order
    BY LayersAre
  <1>3. ToSet(<<0>>) \subseteq files /\ <<0>> \in Seq(Files)
    BY <1>1 DEF ToSet
  <1>4. patchOpt \in {"none", "replace", "merge"}
    BY DEF LoadingInv
  <1>5. LoadOriginMain(EmptyMessage).ok /\ LoadOriginMain(EmptyMessage).msg = Layered(<<0>>)
    BY MainGives
  <1>6. CASE source = "main" \/ patchOpt = "none" \/ (patchOpt = "replace" /\ order = <<>>)
    <2>1. LayersOf(order) = <<0>>
      BY <1>2, <1>6
    <2>2. source # "main" => LoadOriginScatter(EmptyMessage, order) = LoadOriginMain(EmptyMessage)
      BY <1>6 DEF LoadOriginScatter
    <2>3. QED
      BY <1>3, <1>5, <2>1, <2>2
  <1>7. CASE source = "scatter" /\ patchOpt = "replace" /\ order # <<>>
    <2> DEFINE f == Last(order)
    <2>1. f \in files /\ f \in Files
      BY <1>1, <1>7, FilesFinite DEF Last
    <2>2. LayersOf(order) = <<f>>
      BY <1>2, <1>7
    <2>3. LoadOriginScatter(EmptyMessage, order) = Loaded(ProtoMerge(EmptyMessage, Content(f)))
      BY <1>7 DEF LoadOriginScatter
    <2> HIDE DEF f
    <2>4. ProtoMerge(EmptyMessage, Content(f)) = Layered(<<f>>)
      BY <2>1, ContentIs, ContentLayered, MergeIntoEmpty
    <2>5. ToSet(<<f>>) \subseteq files
      BY <2>1 DEF ToSet
    <2>6. QED
      BY <1>7, <2>2, <2>3, <2>4, <2>5 DEF Loaded
  <1>8. CASE source = "scatter" /\ patchOpt = "merge"
    <2>1. LayersOf(order) = <<0>> \o order
      BY <1>2, <1>8
    <2>2. LoadOriginScatter(EmptyMessage, order) = PatchAll(Layered(<<0>>), order)
      BY <1>5, <1>8 DEF LoadOriginScatter
    <2>3. Outcome(PatchAll(Layered(<<0>>), order), <<0>> \o order)
      BY <1>1, <1>3, PatchedOutcome
    <2>4. ToSet(<<0>> \o order) \subseteq files
      <3>1. <<0>> \in Seq(files) /\ order \in Seq(files)
        BY <1>1
      <3>2. <<0>> \o order \in Seq(files)
        BY <3>1, ConcatProperties
      <3>3. QED
        BY <3>2 DEF ToSet
    <2>5. QED
      BY <1>8, <2>1, <2>2, <2>3, <2>4 DEF Outcome
  <1>9. QED
    BY <1>4, <1>6, <1>7, <1>8

LEMMA SimpleLeaves ==
  ASSUME LoadingInv, NEW f \in Files
  PROVE  Simple(f) <=> \A leaf \in leaves[f] : leaf[1] \in {"many", "map"}
  <1>1. leaves[f] \subseteq LeafNames /\ f + 1 \in Nat /\ f + 1 # 0
    BY PatchesAssumption DEF LoadingInv, Files
  <1>2. ASSUME NEW leaf \in LeafNames
        PROVE  leaf[1] \in {"many", "map"} <=> leaf \notin {<<"one">>, SubOne, SubMany}
    BY DEF LeafNames, SubOne, SubMany
  <1>3. Content(f).one = 0 <=> <<"one">> \notin leaves[f]
    BY <1>1 DEF Content, ScalarAt
  <1>4. Content(f).sub.there <=> {SubOne, SubMany} \cap leaves[f] # {}
    BY DEF Content, ItemAt, SubOne, SubMany
  <1>5. QED
    BY <1>1, <1>2, <1>3, <1>4 DEF Simple

LEMMA ApartLeaves ==
  ASSUME LoadingInv, NEW f \in Files, NEW g \in Files
  PROVE  Apart(f, g) <=> \A one \in leaves[f], other \in leaves[g] :
                           ~(one[1] = "map" /\ other[1] = "map" /\ one[2] = other[2])
  <1>1. leaves[f] \subseteq LeafNames /\ leaves[g] \subseteq LeafNames
    BY DEF LoadingInv
  <1>2. ASSUME NEW leaf \in LeafNames
        PROVE  /\ leaf[1] = "map" => leaf[2] \in MapKeys
               /\ \A k \in MapKeys : leaf \in {MapOne(k), MapMany(k)} <=> (leaf[1] = "map" /\ leaf[2] = k)
    BY DEF LeafNames, MapOne, MapMany
  <1>3. ASSUME NEW h \in Files, NEW k \in MapKeys
        PROVE  Content(h).map[k].there <=> \E leaf \in leaves[h] : leaf \in {MapOne(k), MapMany(k)}
    <2>1. Content(h).map[k] = ItemAt(h, MapOne(k), MapMany(k))
      BY DEF Content, MapOne, MapMany
    <2>2. ItemAt(h, MapOne(k), MapMany(k)).there <=> {MapOne(k), MapMany(k)} \cap leaves[h] # {}
      BY DEF ItemAt
    <2>3. {MapOne(k), MapMany(k)} \cap leaves[h] # {} <=> \E leaf \in leaves[h] : leaf \in {MapOne(k), MapMany(k)}
      OBVIOUS
    <2>4. QED
      BY <2>1, <2>2, <2>3
  <1>4. ASSUME NEW h \in Files, NEW k \in MapKeys, leaves[h] \subseteq LeafNames
        PROVE  Content(h).map[k].there <=> \E leaf \in leaves[h] : leaf[1] = "map" /\ leaf[2] = k
    BY <1>2, <1>3, <1>4
  <1>5. QED
    BY <1>1, <1>2, <1>4 DEF Apart

LEMMA MergerOutcome ==
  ASSUME LoadingInv, source = "merger", NEW order \in Arrivals
  PROVE  LET r == LoadOriginMerger(EmptyMessage, order)
         IN /\ r.ok <=> LayersMergeable
            /\ r.ok => r.msg = Layered(order)
            /\ ToSet(order) \subseteq files
  <1> DEFINE n == Len(order) r == LoadOriginMerger(EmptyMessage, order)
  <1>1. /\ order \in Seq(files) /\ n = Cardinality(files)
        /\ \A f \in files : \E i \in 1..n : order[i] = f
        /\ \A i, j \in 1..n : i # j => order[i] # order[j]
    BY FilesFinite, OrderFacts DEF Arrivals
  <1>2. /\ order \in Seq(Files) /\ n \in Nat /\ \A i \in 1..n : order[i] \in files
        /\ 0 \in files /\ files \subseteq Files /\ IsFiniteSet(files) /\ replaced = {}
    BY <1>1, FilesFinite DEF LoadingInv
  <1>3. ToSet(order) \subseteq files
    BY <1>1 DEF ToSet
  <1> HIDE DEF n
  <1>4. CASE n = 1
    <2>1. files = {0}
      BY <1>1, <1>2, <1>4, FS_Singleton
    <2>2. order[1] = 0
      BY <1>2, <1>4, <2>1
    <2>3. order = <<0>>
      BY <1>2, <1>4, <2>2 DEF n
    <2>4. r.ok /\ r.msg = Layered(<<0>>)
      BY <1>4, MainGives DEF LoadOriginMerger, n
    <2>5. LayersMergeable
      BY <2>1 DEF LayersMergeable
    <2>6. QED
      BY <1>3, <2>3, <2>4, <2>5
  <1>5. CASE n # 1
    <2> DEFINE merged == FoldLeft(MergeOnto, Loaded(EmptyMessage), order)
    <2>1. r = IF merged.ok THEN Loaded(ProtoMerge(EmptyMessage, merged.msg)) ELSE LoadFails(EmptyMessage)
      BY <1>5 DEF LoadOriginMerger, n
    <2>2. /\ merged.ok <=> /\ \A i \in 1..n : Simple(order[i])
                           /\ \A i, j \in 1..n : i < j => Apart(order[i], order[j])
          /\ merged.ok => merged.msg = Layered(order)
      BY <1>2, MergeAllGives DEF n
    <2> HIDE DEF merged, r
    <2>3. merged.ok => r.ok /\ r.msg = Layered(order)
      BY <1>2, <2>1, <2>2, LayeredIs, MergeIntoEmpty DEF Loaded
    <2>4. ~merged.ok => ~r.ok
      BY <2>1 DEF LoadFails
    <2>5. files # {0}
      BY <1>1, <1>5, FS_Singleton
    <2>6. (\A i \in 1..n : Simple(order[i])) <=> \A f \in files : Simple(f)
      BY <1>1, <1>2
    <2>7. \A f, g \in files : Apart(f, g) <=> Apart(g, f)
      BY DEF Apart
    <2>8. (\A i, j \in 1..n : i < j => Apart(order[i], order[j])) <=> \A f, g \in files : f # g => Apart(f, g)
      <3>1. ASSUME \A i, j \in 1..n : i < j => Apart(order[i], order[j]), NEW f \in files, NEW g \in files, f # g
            PROVE  Apart(f, g)
        <4>1. PICK i \in 1..n : order[i] = f
          BY <1>1
        <4>2. PICK j \in 1..n : order[j] = g
          BY <1>1
        <4>3. i # j /\ i \in Int /\ j \in Int
          BY <3>1, <4>1, <4>2
        <4>4. i < j \/ j < i
          BY <4>3
        <4>5. QED
          BY <2>7, <3>1, <4>1, <4>2, <4>4
      <3>2. ASSUME \A f, g \in files : f # g => Apart(f, g), NEW i \in 1..n, NEW j \in 1..n, i < j
            PROVE  Apart(order[i], order[j])
        <4>1. i # j
          BY <3>2
        <4>2. QED
          BY <1>1, <1>2, <3>2, <4>1
      <3>3. QED
        BY <3>1, <3>2
    <2>9. LayersMergeable <=> /\ \A f \in files : Simple(f)
                              /\ \A f, g \in files : f # g => Apart(f, g)
      <3>1. LayersMergeable <=> /\ \A f \in files : \A leaf \in leaves[f] : leaf[1] \in {"many", "map"}
                                /\ \A f, g \in files : f # g =>
                                     \A one \in leaves[f], other \in leaves[g] :
                                       ~(one[1] = "map" /\ other[1] = "map" /\ one[2] = other[2])
        BY <2>5 DEF LayersMergeable
      <3>2. \A f \in files : Simple(f) <=> \A leaf \in leaves[f] : leaf[1] \in {"many", "map"}
        BY <1>2, SimpleLeaves
      <3>3. \A f, g \in files : Apart(f, g) <=> \A one \in leaves[f], other \in leaves[g] :
                                                  ~(one[1] = "map" /\ other[1] = "map" /\ one[2] = other[2])
        BY <1>2, ApartLeaves
      <3>4. QED
        BY <3>1, <3>2, <3>3
    <2>10. (r.ok <=> LayersMergeable) /\ (r.ok => r.msg = Layered(order))
      BY <2>2, <2>3, <2>4, <2>6, <2>8, <2>9
    <2>11. QED
      BY <1>3, <2>10 DEF r
  <1>6. QED
    BY <1>4, <1>5

LEMMA LoadedOne ==
  ASSUME NEW r, NEW layers, Outcome(r, layers), LayersMergeable, LayersLoaded = {layers}
  PROVE  \A outcome \in {r} :
           /\ outcome.ok <=> (LayersMergeable /\ \A l \in LayersLoaded : ToSet(l) \subseteq files)
           /\ outcome.ok => \E l \in LayersLoaded : outcome.msg = Layered(l)
  BY DEF Outcome

LEMMA LoadedMeans == LoadingInv => LoadedAsPatched
  <1> SUFFICES ASSUME LoadingInv PROVE LoadedAsPatched
    OBVIOUS
  <1> DEFINE AsLayers(outcome) ==
               /\ outcome.ok <=> (LayersMergeable /\ \A l \in LayersLoaded : ToSet(l) \subseteq files)
               /\ outcome.ok => \E l \in LayersLoaded : outcome.msg = Layered(l)
             Again == (source = "conf" /\ GetMode # "onlyPatch") =>
                        \A first \in Load(EmptyMessage) : first.ok => Load(first.msg) = {first}
  <1>1. source \in {"conf", "main", "scatter", "merger", "both"}
    BY DEF LoadingInv
  <1>2. CASE source = "conf"
    <2> DEFINE r == IF patchOpt # "none" THEN LoadMessagerWithPatch(EmptyMessage) ELSE LoadFile(EmptyMessage, 0)
    <2>1. \A m : Load(m) = {IF patchOpt # "none" THEN LoadMessagerWithPatch(m) ELSE LoadFile(m, 0)}
      BY <1>2 DEF Load
    <2>2. LayersMergeable /\ LayersLoaded = {LayersOf(PatchPaths)}
      BY <1>2 DEF LayersMergeable, LayersLoaded
    <2>3. Outcome(r, LayersOf(PatchPaths))
      <3>1. CASE patchOpt = "none"
        <4>1. LayersOf(PatchPaths) = <<0>>
          BY <3>1, LayersAre
        <4>2. QED
          BY <3>1, <4>1, FilesFinite, FileOutcome
      <3>2. CASE patchOpt # "none"
        BY <1>2, <3>2, ConfOutcome
      <3>3. QED
        BY <3>1, <3>2
    <2>4. \A outcome \in {r} : AsLayers(outcome)
      <3> HIDE DEF r
      <3>1. QED
        BY <2>2, <2>3, LoadedOne
    <2>5. Again
      <3>1. ASSUME GetMode # "onlyPatch", r.ok PROVE Load(r.msg) = {r}
        <4>1. CASE patchOpt = "none"
          BY <2>1, <3>1, <4>1 DEF LoadFile, LoadFails
        <4>2. CASE patchOpt # "none"
          BY <1>2, <2>1, <3>1, <4>2, ConfAgain
        <4>3. QED
          BY <4>1, <4>2
      <3>2. Load(EmptyMessage) = {r}
        BY <2>1
      <3> HIDE DEF r
      <3>3. QED
        BY <3>1, <3>2
    <2>6. Load(EmptyMessage) = {r}
      BY <2>1
    <2> HIDE DEF r
    <2>7. QED
      BY <2>4, <2>5, <2>6 DEF LoadedAsPatched
  <1>3. CASE source \in {"main", "scatter"}
    <2> DEFINE r(order) == IF source = "main" THEN LoadOriginMain(EmptyMessage) ELSE LoadOriginScatter(EmptyMessage, order)
    <2>1. LayersMergeable /\ LayersLoaded = {LayersOf(order) : order \in Orders}
      BY <1>3 DEF LayersMergeable, LayersLoaded
    <2>2. PICK one : one \in Orders
      BY FilesFinite, OrderExists DEF Orders
    <2>3. ASSUME NEW order \in Orders
          PROVE  r(order).ok /\ r(order).msg = Layered(LayersOf(order)) /\ ToSet(LayersOf(order)) \subseteq files
      BY <1>3, ScatterOutcome
    <2>4. ASSUME NEW outcome \in Load(EmptyMessage) PROVE \E order \in Orders : outcome = r(order)
      <3>1. CASE source = "main"
        <4>1. outcome = LoadOriginMain(EmptyMessage)
          BY <2>4, <3>1 DEF Load, LoadOrigin
        <4>2. QED
          BY <2>2, <3>1, <4>1
      <3>2. CASE source = "scatter"
        BY <2>4, <3>2 DEF Load, LoadOrigin
      <3>3. QED
        BY <1>3, <3>1, <3>2
    <2>5. \A l \in LayersLoaded : ToSet(l) \subseteq files
      BY <2>1, <2>3
    <2>6. ASSUME NEW outcome \in Load(EmptyMessage) PROVE AsLayers(outcome)
      <3>1. PICK order \in Orders : outcome = r(order)
        BY <2>4
      <3>2. outcome.ok /\ outcome.msg = Layered(LayersOf(order)) /\ LayersOf(order) \in LayersLoaded
        BY <2>1, <2>3, <3>1
      <3>3. QED
        BY <2>1, <2>5, <3>2
    <2>7. QED
      BY <1>3, <2>6 DEF LoadedAsPatched
  <1>4. CASE source = "merger"
    <2>1. LayersLoaded = Arrivals
      BY <1>4 DEF LayersLoaded
    <2>2. Load(EmptyMessage) = {LoadOriginMerger(EmptyMessage, order) : order \in Arrivals}
      BY <1>4 DEF Load, LoadOrigin
    <2>3. \A l \in LayersLoaded : ToSet(l) \subseteq files
      BY <1>4, <2>1, MergerOutcome
    <2>4. ASSUME NEW outcome \in Load(EmptyMessage) PROVE AsLayers(outcome)
      <3>1. PICK order \in Arrivals : outcome = LoadOriginMerger(EmptyMessage, order)
        BY <2>2
      <3>2. (outcome.ok <=> LayersMergeable) /\ (outcome.ok => outcome.msg = Layered(order))
        BY <1>4, <3>1, MergerOutcome
      <3>3. QED
        BY <2>1, <2>3, <3>2
    <2>5. QED
      BY <1>4, <2>4 DEF LoadedAsPatched
  <1>5. CASE source = "both"
    <2>1. Load(EmptyMessage) = {LoadFails(EmptyMessage)} /\ ~LayersMergeable
      BY <1>5 DEF Load, LoadOrigin, LayersMergeable
    <2>2. \A outcome \in Load(EmptyMessage) : ~outcome.ok
      BY <2>1 DEF LoadFails
    <2>3. QED
      BY <1>5, <2>1, <2>2 DEF LoadedAsPatched
  <1>6. QED
    BY <1>1, <1>2, <1>3, <1>4, <1>5

\* What is loaded (load.go) is what the files give as layers in the order of the
\* patches or in some order of the further workbooks; loading fails if and only if one
\* of them is not there or cannot be merged; and conf files loaded a second time into
\* the same message give the same, for any number of files and any keys.
THEOREM LoadedInLayers == SpecLoading => []LoadedAsPatched
  <1>1. LoadingInv /\ [NextLoading]_loadVars => LoadingInv'
    BY LoadingStep
  <1>2. SpecLoading => []LoadingInv
    BY <1>1, LoadingInit, PTL DEF SpecLoading
  <1>3. QED
    BY <1>2, LoadedMeans, PTL
=============================================================================
