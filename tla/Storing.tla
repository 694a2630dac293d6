------------------------------- MODULE Storing -------------------------------
(***************************************************************************)
(* Storing the confs of a sheet (internal/confgen/parser.go and util.go,   *)
(* store/): the message of the main workbook is written first, then those  *)
(* of its scattered workbooks, each in a goroutine and in every format     *)
(* that is asked for; a merged sheet has one message. What is stored is    *)
(* loaded again by load/load.go.                                           *)
(*                                                                         *)
(* A message has a number, a list, a text and a timestamp, each the empty  *)
(* sequence if it is not populated. A text is the sequence of its          *)
(* characters, a timestamp counts half minutes from the epoch.             *)
(***************************************************************************)
EXTENDS Patching, FiniteSets, FiniteSetsExt, SequencesExt

CONSTANTS OutBooks,    \* the workbooks: [dir, book, sheet]
          MainBook,    \* the main one
          ConfSamples, \* what the fields of a message may be set to
          RefusedOne,  \* the number that the rules of the proto refuse
          Zones,       \* of locations: [turn, before, after], offsets in half minutes
          LowestTime, HighestTime, \* of a timestamp
          MaxOutFacts  \* bound: options, further workbooks and fields set

VARIABLES outKind,    \* "scatter" or "merge"
          outFlags,   \* the options that are on
          outFormats, \* by the name of the message, for all messages
          outZone,    \* the location
          outMsgs,    \* the message of each workbook that there is
          outJobs,    \* what became of the workbook: [state, written]
          outFiles    \* by name and format

outVars == <<outKind, outFlags, outFormats, outZone, outMsgs, outJobs, outFiles>>

OutFlags == {"pretty", "emitUnpopulated", "emitTimezones", "useProtoNames",
             "withoutBookName", "withParentDir", "patchMerge", "dryRunPatch"}
AllFormats == <<"json", "bin", "txt">>
ConfFields == {"one", "many", "text", "use_time"}
EmptyConf == [f \in ConfFields |-> <<>>]

UTC == [known |-> TRUE, turn |-> 0, before |-> 0, after |-> 0]
Nowhere == [UTC EXCEPT !.known = FALSE]

ASSUME StoringAssumption ==
  /\ MainBook \in OutBooks
  /\ \A time \in ConfSamples["use_time"] : time[1] \in Int /\ time = <<time[1]>>
  /\ Zones \subseteq [known : {TRUE}, turn : Int, before : Int, after : Int]

InitStoring ==
  /\ outKind \in {"scatter", "merge"}
  /\ outFlags = {} /\ outFormats = [own |-> <<>>, all |-> <<>>] /\ outZone = UTC
  /\ outMsgs = [b \in {MainBook} |-> EmptyConf]
  /\ outJobs = [b \in OutBooks |-> [state |-> "waiting", written |-> 0]]
  /\ outFiles = [at \in {} |-> <<>>]
-----------------------------------------------------------------------------
\* parseOutputFormats: those for the message, for all, or every format.
ParseOutputFormats ==
  CASE outFormats.own # <<>> -> outFormats.own
    [] outFormats.own = <<>> /\ outFormats.all # <<>> -> outFormats.all
    [] OTHER -> AllFormats

\* getExportedConfName of ScatterAndExport and of MergeAndExport.
ConfName(b) ==
  [dir   |-> IF "withParentDir" \in outFlags THEN b.dir ELSE "",
   book  |-> IF outKind = "merge" \/ "withoutBookName" \in outFlags THEN "" ELSE b.book,
   sheet |-> IF outKind = "merge" THEN "message" ELSE b.sheet]

NotOut == [ok |-> FALSE, content |-> EmptyConf]
Out(stored) == [ok |-> TRUE, content |-> stored]

\* time.Format prints the minutes of an offset and drops its seconds.
OffsetAt(t) == IF t < outZone.turn THEN outZone.before ELSE outZone.after
PrintedOffset(offset) == IF offset < 0 THEN -2 * ((-offset) \div 2) ELSE 2 * (offset \div 2)

\* formatTimestamp: as wall clock and offset; out of range it stays in UTC.
FormatTimestamp(t) ==
  LET wall == t + OffsetAt(t)
  IN IF wall \in LowestTime..HighestTime THEN <<wall, PrintedOffset(OffsetAt(t))>> ELSE <<t, 0>>

JSONName(f) == IF f = "use_time" THEN "useTime" ELSE f
KeyOf(f) == IF "useProtoNames" \in outFlags THEN f ELSE JSONName(f)

\* convertJSONTimestamp finds a field by the name that protojson gave it.
TimestampKeyOfJSON == JSONName("use_time")
TimestampKey == KeyOf("use_time")

ProcessWhenEmitTimezones(msg, json) ==
  CASE ~outZone.known -> NotOut
    [] outZone.known /\ msg.use_time = <<>> -> Out(json)
    [] OTHER -> IF TimestampKey \notin DOMAIN json THEN NotOut
                ELSE Out([json EXCEPT ![TimestampKey] = FormatTimestamp(msg.use_time[1])])

\* An object, by its keys; null and empty values are the empty sequence.
MarshalToJSON(msg, emitUnpopulated) ==
  LET emitted == {f \in ConfFields : emitUnpopulated \/ msg[f] # <<>>}
      fieldOf(key) == CHOOSE f \in emitted : KeyOf(f) = key
      json == [key \in {KeyOf(f) : f \in emitted} |->
                 IF fieldOf(key) = "use_time" /\ msg.use_time # <<>>
                 THEN <<msg.use_time[1], 0>> ELSE msg[fieldOf(key)]]
  IN IF "emitTimezones" \in outFlags THEN ProcessWhenEmitTimezones(msg, json) ELSE Out(json)

\* strings.Fields and Join: what blanks there are become one.
Collapse(text) ==
  FoldLeft(LAMBDA kept, char :
             CASE char = "word" -> Append(kept, char)
               [] char # "word" /\ kept # <<>> /\ Last(kept) = "blank" -> kept
               [] OTHER -> Append(kept, "blank"),
           <<>>, text)

MarshalToText(msg) ==
  Out(IF "pretty" \in outFlags THEN msg ELSE [msg EXCEPT !.text = Collapse(@)])

MarshalToBin(msg) == Out(msg)

\* A patch is written without what it does not set.
Marshal(msg, fmt, isPatch) ==
  CASE fmt = "json" -> MarshalToJSON(msg, "emitUnpopulated" \in outFlags /\ ~isPatch)
    [] fmt = "txt"  -> MarshalToText(msg)
    [] fmt = "bin"  -> MarshalToBin(msg)

\* Unmarshal: protojson takes a field by either of its names.
Unmarshal(stored, fmt) ==
  LET valueOf(f) == LET keys == {f, JSONName(f)} \cap DOMAIN stored
                    IN IF keys = {} THEN <<>> ELSE stored[CHOOSE key \in keys : TRUE]
      timeOf(v) == IF v = <<>> THEN <<>> ELSE <<v[1] - v[2]>>
  IN IF fmt # "json" THEN stored
     ELSE [f \in ConfFields |-> IF f = "use_time" THEN timeOf(valueOf(f)) ELSE valueOf(f)]
-----------------------------------------------------------------------------
\* A timestamp is a message, of which a second count of 0 is not populated.
PatchConf(dst, src) ==
  [one  |-> IF src.one = <<>> THEN dst.one ELSE src.one,
   many |-> PatchList(dst.many, src.many, FALSE),
   text |-> IF src.text = <<>> THEN dst.text ELSE src.text,
   use_time |-> CASE src.use_time = <<>> -> dst.use_time
                  [] src.use_time # <<>> /\ dst.use_time = <<>> -> src.use_time
                  [] OTHER -> <<PatchScalar(dst.use_time[1], src.use_time[1])>>]

IsPatch(b) == b # MainBook /\ {"patchMerge"} = outFlags \cap {"patchMerge", "dryRunPatch"}

MessageToStore(b) ==
  IF b # MainBook /\ {"patchMerge", "dryRunPatch"} \subseteq outFlags
  THEN PatchConf(outMsgs[MainBook], outMsgs[b]) ELSE outMsgs[b]

Validates(msg) == msg.one # <<RefusedOne>>

ExportBegun == outJobs[MainBook].state # "waiting"

OutFacts ==
  Cardinality(outFlags) + Len(outFormats.own) + Len(outFormats.all)
    + (IF outZone = UTC THEN 0 ELSE 1) + Cardinality(DOMAIN outMsgs) - 1
    + FoldSet(LAMBDA b, n : n + Cardinality({f \in ConfFields : outMsgs[b][f] # <<>>}),
              0, DOMAIN outMsgs)

CanAsk == ~ExportBegun /\ OutFacts < MaxOutFacts

SetOutputFlag(flag) ==
  /\ CanAsk /\ flag \notin outFlags
  /\ outFlags' = outFlags \cup {flag}
  /\ UNCHANGED <<outKind, outFormats, outZone, outMsgs, outJobs, outFiles>>

AskFormat(whose, fmt) ==
  /\ CanAsk /\ ~Contains(outFormats[whose], fmt)
  /\ outFormats' = [outFormats EXCEPT ![whose] = Append(@, fmt)]
  /\ UNCHANGED <<outKind, outFlags, outZone, outMsgs, outJobs, outFiles>>

SetLocation(zone) ==
  /\ CanAsk /\ outZone = UTC
  /\ outZone' = zone
  /\ UNCHANGED <<outKind, outFlags, outFormats, outMsgs, outJobs, outFiles>>

AddScattered(b) ==
  /\ CanAsk /\ outKind = "scatter" /\ b \notin DOMAIN outMsgs
  /\ outMsgs' = [c \in DOMAIN outMsgs \cup {b} |-> IF c = b THEN EmptyConf ELSE outMsgs[c]]
  /\ UNCHANGED <<outKind, outFlags, outFormats, outZone, outJobs, outFiles>>

FillConf(b, f, value) ==
  /\ CanAsk /\ b \in DOMAIN outMsgs /\ outMsgs[b][f] = <<>>
  /\ outMsgs' = [outMsgs EXCEPT ![b][f] = value]
  /\ UNCHANGED <<outKind, outFlags, outFormats, outZone, outJobs, outFiles>>

\* storeMessage validates, storePatchMergeMessage does not.
StoreMessage(b) ==
  /\ b \in DOMAIN outMsgs /\ outJobs[b].state = "waiting"
  /\ b = MainBook \/ outJobs[MainBook].state = "done"
  /\ outJobs' = [outJobs EXCEPT ![b].state =
                   IF IsPatch(b) \/ Validates(MessageToStore(b)) THEN "storing" ELSE "failed"]
  /\ UNCHANGED <<outKind, outFlags, outFormats, outZone, outMsgs, outFiles>>

\* Store, once for each format.
Store(b) ==
  /\ outJobs[b].state = "storing"
  /\ LET written == outJobs[b].written + 1
         fmt == ParseOutputFormats[written]
         out == Marshal(MessageToStore(b), fmt, IsPatch(b))
         at == [name |-> ConfName(b), format |-> fmt]
         last == written = Len(ParseOutputFormats)
     IN /\ outJobs' = [outJobs EXCEPT ![b] =
                         [state   |-> IF ~out.ok THEN "failed" ELSE IF last THEN "done" ELSE "storing",
                          written |-> IF out.ok THEN written ELSE @.written]]
        /\ outFiles' = IF ~out.ok THEN outFiles
                       ELSE [x \in DOMAIN outFiles \cup {at} |->
                               IF x = at THEN out.content ELSE outFiles[x]]
  /\ UNCHANGED <<outKind, outFlags, outFormats, outZone, outMsgs>>

NextStoring ==
  \/ \E flag \in OutFlags : SetOutputFlag(flag)
  \/ \E whose \in {"own", "all"}, fmt \in {"json", "bin", "txt"} : AskFormat(whose, fmt)
  \/ \E zone \in Zones \cup {Nowhere} : SetLocation(zone)
  \/ \E b \in OutBooks \ {MainBook} : AddScattered(b)
  \/ \E b \in OutBooks, f \in ConfFields : \E value \in ConfSamples[f] : FillConf(b, f, value)
  \/ \E b \in OutBooks : StoreMessage(b) \/ Store(b)

SpecStoring == InitStoring /\ [][NextStoring]_outVars
-----------------------------------------------------------------------------
(* What an export that is over has left.                                    *)
ExportOver ==
  /\ outJobs[MainBook].state \in {"done", "failed"}
  /\ outJobs[MainBook].state = "done" =>
       \A b \in DOMAIN outMsgs : outJobs[b].state \in {"done", "failed"}

\* A location that has no such name, or a message against its rules.
NotStorable(b) ==
  \/ ~Validates(MessageToStore(b)) /\ ~IsPatch(b)
  \/ ~outZone.known /\ "emitTimezones" \in outFlags /\ Contains(ParseOutputFormats, "json")

\* Not told by the text format without pretty, and by JSON with time zones.
HasGaps(text) == Collapse(text) # text
CutOffset(t) == OffsetAt(t) % 2 # 0
Told(msg, fmt) ==
  /\ (fmt = "txt" /\ "pretty" \notin outFlags) => ~HasGaps(msg.text)
  /\ (fmt = "json" /\ "emitTimezones" \in outFlags /\ msg.use_time # <<>>)
       => ~CutOffset(msg.use_time[1])

(* When an export is over, a workbook's conf is loaded from each format     *)
(* that was asked for as the message that was meant, patched onto the main  *)
(* one in a dry run, and is stored unless it, or the main one, is against   *)
(* the rules or the location is unknown. Workbooks that share a name leave  *)
(* the conf of one of them. A patch shows only what it sets. Not told are   *)
(* repeated blanks in plain text and seconds of an offset to UTC.           *)
ExportsAreLoadable ==
  ExportOver =>
    /\ \A b \in DOMAIN outMsgs :
         (outJobs[b].state = "done") <=> ~NotStorable(b) /\ ~NotStorable(MainBook)
    /\ \A b \in DOMAIN outMsgs : \A i \in DOMAIN ParseOutputFormats :
         outJobs[b].state = "done" =>
           [name |-> ConfName(b), format |-> ParseOutputFormats[i]] \in DOMAIN outFiles
    /\ \A at \in DOMAIN outFiles :
         \E b \in DOMAIN outMsgs :
           /\ ConfName(b) = at.name /\ Contains(ParseOutputFormats, at.format)
           /\ Told(MessageToStore(b), at.format) =>
                Unmarshal(outFiles[at], at.format) = MessageToStore(b)
           /\ (IsPatch(b) /\ at.format = "json") =>
                \A key \in DOMAIN outFiles[at] : outFiles[at][key] # <<>>
=============================================================================
