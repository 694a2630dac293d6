---------------------------- MODULE FieldNumbers ----------------------------
(***************************************************************************)
(* Field numbers over several generations of one sheet, with the option    *)
(* preserveFieldNumbers (internal/protogen/exporter.go).  The exporter     *)
(* finds the message generated last time and lets every field keep its     *)
(* number; the numbers of fields that are gone are declared reserved.      *)
(* Between two generations the user may add, drop and reorder the columns  *)
(* of the sheet, or take the sheet away.                                   *)
(*                                                                         *)
(* A message is the one of the sheet, Sheet, or a nested one, which is     *)
(* generated with the first field of its type.  A generated message is a   *)
(* record of the numbers of its fields (0: no such field), the types of    *)
(* its fields and its reserved numbers.                                    *)
(***************************************************************************)
EXTENDS Integers, Sequences

CONSTANTS FieldNames,       \* proto names of fields
          Nested,           \* nested message types
          Sheet,            \* the message of the sheet
          Scalar,           \* the type of a field without a message
          Schemas,          \* what the columns of the sheet may be
          None,
          MaxGenerations,   \* bound on the generations of a behaviour
          MaxNumber         \* bound on numbers, for the choices TLC enumerates

Messages == {Sheet} \cup Nested

(* A schema gives each message its fields in the order of the columns, and  *)
(* the fields of the sheet their types.                                     *)
SchemaType == [fields : [Messages -> Seq(FieldNames)],
               type   : [FieldNames -> Nested \cup {Scalar}]]

ASSUME MessagesAssumption == Sheet \notin Nested /\ Scalar \notin Messages
ASSUME SchemasAssumption ==
  /\ Schemas \subseteq SchemaType
  /\ None \notin Schemas
  /\ \A s \in Schemas, m \in Messages :
       \A i, j \in 1..Len(s.fields[m]) :
         s.fields[m][i] = s.fields[m][j] => i = j
ASSUME NumberBoundsAssumption == MaxGenerations \in Nat /\ MaxNumber \in Nat

Numbers == [FieldNames -> Nat]
Generated == [number : Numbers, type : [FieldNames -> Nested \cup {Scalar}],
              reserved : SUBSET Nat]
NoNumbers == [f \in FieldNames |-> 0]
NoMessage == [number |-> NoNumbers, type |-> [f \in FieldNames |-> Scalar],
           reserved |-> {}]

VARIABLES proto,       \* the messages of the last generation, NoMessage if none
          generations, \* how many there were
          schema,      \* what is being generated, None between generations
          message,     \* the message whose fields are being numbered
          old,         \* assignFieldNumbers: oldMD, NoMessage for nil
          number,      \* field.Number of the fields that have one
          reserved,    \* reservedSet
          used,        \* usedNumbers
          highest,     \* maxFieldNumber
          next,        \* index of the field in the loop
          done,        \* the messages generated so far
          ledger       \* history: every number a message ever gave to a name

building == <<message, old, number, reserved, used, highest, next>>
numberVars == <<proto, generations, schema, done, ledger, building>>

Active(md) == {md.number[f] : f \in {g \in FieldNames : md.number[g] # 0}}
Used(md) == Active(md) \cup md.reserved

(* maxUsedNumber *)
IsHighest(n, md) == /\ n \in Used(md) \cup {0}
                    /\ \A k \in Used(md) : k <= n

FieldsOf(s, m) == {s.fields[m][i] : i \in 1..Len(s.fields[m])}

(* reservedSet: what was reserved, the numbers of the fields that are gone, *)
(* and the gaps below the highest number.                                   *)
ReservedNow(md, fields, high) ==
  LET kept == {md.number[f] : f \in {g \in fields : md.number[g] # 0}}
  IN (md.reserved \cup {n \in 1..high : n \notin kept}) \ kept

(* The start of assignFieldNumbers for the message m.                       *)
StartNumbering(s, m, md) ==
  /\ message' = m
  /\ old' = md
  /\ number' = NoNumbers
  /\ used' = Used(md)
  /\ \E high \in Used(md) \cup {0} :
       /\ IsHighest(high, md)
       /\ highest' = high
       /\ reserved' = ReservedNow(md, FieldsOf(s, m), high)
  /\ next' = 1

FieldTypeAtNone(md, n) == Scalar

(* The type of the field of md with number n: oldFD.Message().              *)
FieldTypeAt(md, n) == IF \E f \in FieldNames : md.number[f] = n /\ n # 0
                   THEN md.type[CHOOSE f \in FieldNames : md.number[f] = n]
                   ELSE Scalar

InitNumbers ==
  /\ proto = [m \in Messages |-> NoMessage]
  /\ generations = 0
  /\ schema = None
  /\ message = Sheet /\ old = NoMessage /\ number = NoNumbers
  /\ reserved = {} /\ used = {} /\ highest = 0 /\ next = 1
  /\ done = [m \in Messages |-> NoMessage]
  /\ ledger = {}

(* exportMessager, exportStruct: the message of the sheet.                  *)
Generate(s) ==
  /\ schema = None
  /\ generations < MaxGenerations
  /\ schema' = s
  /\ generations' = generations + 1
  /\ done' = [m \in Messages |-> NoMessage]
  /\ StartNumbering(s, Sheet, proto[Sheet])
  /\ UNCHANGED <<proto, ledger>>

(* The sheet is taken away; the next generation removes its file.           *)
RemoveSheet ==
  /\ schema = None
  /\ generations < MaxGenerations
  /\ generations' = generations + 1
  /\ proto' = [m \in Messages |-> NoMessage]
  /\ ledger' = {}
  /\ UNCHANGED <<schema, done, building>>

AssignNumberFromFree ==
  /\ schema # None
  /\ next <= Len(schema.fields[message])
  /\ LET f == schema.fields[message][next]
         taken == Active(old) \cup {number[g] : g \in FieldNames}
     IN \/ /\ old.number[f] # 0
           /\ number' = [number EXCEPT ![f] = old.number[f]]
           /\ UNCHANGED <<used, highest>>
        \/ /\ old.number[f] = 0
           /\ \E n \in 1..MaxNumber :
                /\ n \notin taken
                /\ \A k \in 1..MaxNumber : k < n => k \in taken
                /\ number' = [number EXCEPT ![f] = n]
                /\ UNCHANGED used
                /\ highest' = n
  /\ next' = next + 1
  /\ UNCHANGED <<proto, generations, schema, message, old, reserved, done,
                 ledger>>

(* One turn of the loop that assigns the numbers: a field the old message   *)
(* has keeps its number, another one gets the first number above the        *)
(* highest that is neither used nor reserved.                               *)
AssignNumber ==
  /\ schema # None
  /\ next <= Len(schema.fields[message])
  /\ LET f == schema.fields[message][next]
         taken == used \cup reserved
     IN \/ /\ old.number[f] # 0
           /\ number' = [number EXCEPT ![f] = old.number[f]]
           /\ UNCHANGED <<used, highest>>
        \/ /\ old.number[f] = 0
           /\ \E n \in 1..MaxNumber :
                /\ n > highest /\ n \notin taken
                /\ \A k \in 1..MaxNumber : k > highest /\ k < n => k \in taken
                /\ number' = [number EXCEPT ![f] = n]
                /\ used' = used \cup {n}
                /\ highest' = n
  /\ next' = next + 1
  /\ UNCHANGED <<proto, generations, schema, message, old, reserved, done,
                 ledger>>

Numbered == [number |-> number,
             type |-> [f \in FieldNames |-> IF message = Sheet /\ number[f] # 0
                                         THEN schema.type[f] ELSE Scalar],
             reserved |-> reserved]

(* The fields of the sheet whose nested message is still to be generated:   *)
(* a type that an earlier field has brought along is reused.                *)
ToNest(sheet) ==
  {f \in FieldNames : /\ sheet.number[f] # 0
                 /\ sheet.type[f] # Scalar
                 /\ done[sheet.type[f]] = NoMessage
                 /\ sheet.type[f] # message}

Position(f) == CHOOSE i \in 1..Len(schema.fields[Sheet]) :
                 schema.fields[Sheet][i] = f

(* exportField: after the message of the sheet, and after a nested one, the *)
(* next field in the order of the columns that has a nested message of its  *)
(* own.  Its old message is that of the old field with the same number.     *)
NestMessage ==
  /\ schema # None
  /\ next > Len(schema.fields[message])
  /\ LET sheet == IF message = Sheet THEN Numbered ELSE done[Sheet]
     IN /\ ToNest(sheet) # {}
        /\ \E f \in ToNest(sheet) :
             /\ \A g \in ToNest(sheet) : Position(f) <= Position(g)
             /\ LET oldType == FieldTypeAt(proto[Sheet], sheet.number[f])
                IN StartNumbering(schema, sheet.type[f],
                     IF oldType = Scalar THEN NoMessage ELSE proto[oldType])
  /\ done' = [done EXCEPT ![message] = Numbered]
  /\ ledger' = ledger \cup {<<message, number[f], f>> :
                              f \in {g \in FieldNames : number[g] # 0}}
  /\ UNCHANGED <<proto, generations, schema>>

(* The last message is done and the file is written.                        *)
WriteProto ==
  /\ schema # None
  /\ next > Len(schema.fields[message])
  /\ ToNest(IF message = Sheet THEN Numbered ELSE done[Sheet]) = {}
  /\ proto' = [done EXCEPT ![message] = Numbered]
  /\ ledger' = ledger \cup {<<message, number[f], f>> :
                              f \in {g \in FieldNames : number[g] # 0}}
  /\ schema' = None
  /\ UNCHANGED <<generations, done, building>>

NextNumbers == \/ \E s \in Schemas : Generate(s)
        \/ RemoveSheet
        \/ AssignNumber
        \/ NestMessage
        \/ WriteProto

SpecNumbers == InitNumbers /\ [][NextNumbers]_numberVars
-----------------------------------------------------------------------------
(* A number of the sheet's message never stands for two names, over any     *)
(* number of generations: data written with an older generation is never    *)
(* read as another field (the promise of assignFieldNumbers).               *)
NumbersKeepMeaning ==
  \A a, b \in ledger :
    a[1] = Sheet /\ b[1] = Sheet /\ a[2] = b[2] => a[3] = b[3]

(* Inside a nested message: as long as a field of the sheet and its type    *)
(* stay, the fields of its message keep their numbers                       *)
(* (exporter.go:406, "to keep the wire format compatible across multiple    *)
(* regenerations").                                                         *)
NestedFieldsKeepNumbers ==
  [][schema # None /\ schema' = None =>
       \A f \in FieldNames :
         LET t == proto[Sheet].type[f]
         IN t # Scalar /\ proto'[Sheet].type[f] = t
            => \A g \in FieldNames :
                 proto[t].number[g] # 0 /\ proto'[t].number[g] # 0
                   => proto'[t].number[g] = proto[t].number[g]]_numberVars

(* What the numbers of the sheet promise: NumberLedger.                     *)
Ledger == INSTANCE NumberLedger WITH Names <- FieldNames,
            active <- proto[Sheet].number, retired <- proto[Sheet].reserved
ImplementsLedger == Ledger!Spec
=============================================================================
