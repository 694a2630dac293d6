---------------------------- MODULE ErrorValues -----------------------------
(***************************************************************************)
(* The errors that go up through a conversion and what is said of them     *)
(* (internal/x/xerrors/errors.go and desc.go). An error is a tree: one of  *)
(* this package or of another, wrapped in messages and fields, and joined  *)
(* with others. A text is the sequence of what it mentions: a word, which  *)
(* stands for a message, or a summary with the fields that it shows.       *)
(***************************************************************************)
EXTENDS Integers, Sequences, SequencesExt, TLC

CONSTANTS SheetValues, \* bound: what a wrapper may say of the sheet
          MaxErrorOps  \* bound: how many errors, wrappers and joins are made

VARIABLES trees,   \* the errors, one of which is wrapped further: the last
          errorOps \* how many calls made them

errorVars == <<trees, errorOps>>

NoFields == <<>>
NoWord == 0

ErrorNode(kind, of, word, fields, replaces) ==
  [kind |-> kind, of |-> of, word |-> word, fields |-> fields, replaces |-> replaces]

StackOn(of) == ErrorNode("base", of, NoWord, NoFields, FALSE)
MessageOn(cause, word, fields, replaces) == ErrorNode("message", <<cause>>, word, fields, replaces)

RECURSIVE HasStack(_)
HasStack(e) == e.kind = "base" \/ \E i \in DOMAIN e.of : HasStack(e.of[i])

\* withStack: errors.As finds the stack in any branch.
WithStack(e) == IF HasStack(e) THEN e ELSE StackOn(<<e>>)

\* New, Newf, NewKV
NewKV(word, kv) == MessageOn(StackOn(<<>>), word, ("Reason" :> word) @@ kv, FALSE)
WrapKV(e, kv) == MessageOn(WithStack(e), NoWord, kv, FALSE)
Wrapf(e, word) == MessageOn(WithStack(e), word, NoFields, FALSE)

\* renderEcode: the text is that of the language's catalogue.
RenderEcode(word, code) ==
  MessageOn(WithStack(ErrorNode("ecode", <<>>, word, NoFields, FALSE)), word,
          ("Reason" :> word) @@ ("ErrCode" :> code), TRUE)

\* joinError in the mark collected, as Collector.Join makes it.
Joined(errs, outer) ==
  LET join == ErrorNode("join", errs, NoWord, NoFields, FALSE)
  IN ErrorNode("mark", <<IF outer = NoFields THEN join ELSE MessageOn(join, NoWord, outer, FALSE)>>,
          NoWord, NoFields, FALSE)

InitErrors == trees = <<>> /\ errorOps = 0

MadeBy(made) ==
  errorOps < MaxErrorOps /\ errorOps' = errorOps + 1 /\ trees' = made

Rewrapped(made) == [trees EXCEPT ![Len(trees)] = made]
NextWord == errorOps + 1
WrapFields == {"Module" :> "confgen"} \cup {"SheetName" :> s : s \in SheetValues}

NextErrors ==
  \/ MadeBy(Append(trees, ErrorNode("plain", <<>>, NextWord, NoFields, FALSE)))
  \/ MadeBy(Append(trees, NewKV(NextWord, NoFields)))
  \/ MadeBy(Append(trees, RenderEcode(NextWord, "E2005")))
  \/ /\ trees # <<>>
     /\ \/ \E kv \in WrapFields : MadeBy(Rewrapped(WrapKV(Last(trees), kv)))
        \/ MadeBy(Rewrapped(Wrapf(Last(trees), NextWord)))
        \/ \E outer \in {NoFields} \cup WrapFields : MadeBy(<<Joined(trees, outer)>>)
-----------------------------------------------------------------------------
\* Desc: what is known of an error, or of several.
Desc(e, fields, children) == [err |-> e, fields |-> fields, children |-> children]

\* What its wrappers and itself say of an error, down to a join: inner ones win.
RECURSIVE CollectFields(_)
CollectFields(e) ==
  IF e.kind = "join" \/ e.of = <<>> THEN e.fields
  ELSE CollectFields(Head(e.of)) @@ e.fields

RECURSIVE ChainEnd(_)
ChainEnd(e) == IF e.kind = "join" \/ e.of = <<>> THEN e ELSE ChainEnd(Head(e.of))

MergeOuterWins(d, outer) == [d EXCEPT !.fields = outer @@ @]

\* mergeOuterFields, of a Desc that is one error.
MergeOuterFields(d, outer) == [d EXCEPT !.fields = @ @@ outer]

FlattenDescs(d) == IF d.children = <<>> THEN <<d>> ELSE d.children

RECURSIVE NewDesc(_)

BuildFromChildren(e, outer) ==
  LET merged(found, d) == Append(found, MergeOuterFields(d, outer))
      leaves == FoldLeft(LAMBDA found, c : FoldLeft(merged, found, FlattenDescs(NewDesc(c))),
                         <<>>, e.of)
  IN IF Len(leaves) = 1 THEN leaves[1] ELSE Desc(e, NoFields, leaves)

NewDesc(e) ==
  IF ChainEnd(e).kind = "join" THEN BuildFromChildren(ChainEnd(e), CollectFields(e))
  ELSE Desc(e, CollectFields(e), <<>>)

Modules == {"default", "protogen", "confgen"}

Gives(fields, key) == key \in DOMAIN fields

Mention(word) == [word |-> word, shown |-> NoFields, stack |-> FALSE]

\* ensureEcode, and the module of an error that has a code of its own.
WithModule(fields) == IF Gives(fields, "ErrCode") THEN fields @@ ("Module" :> "default") ELSE fields
EnsureEcode(fields) == fields @@ ("ErrCode" :> "E0004")

RECURSIVE ErrorText(_)

\* Stringify of one error: a summary if its module and reason are known.
StringifyLeaf(d, withDebug) ==
  LET fields == WithModule(d.fields)
      stack == withDebug /\ HasStack(d.err)
  IN IF Gives(d.fields, "Reason") /\ Gives(fields, "Module") /\ fields["Module"] \in Modules
     THEN <<[word |-> d.fields["Reason"], shown |-> EnsureEcode(fields), stack |-> stack]>>
     ELSE LET text == ErrorText(d.err)
          IN IF stack THEN [text EXCEPT ![Len(text)].stack = TRUE] ELSE text

Stringify(d, withDebug) ==
  FoldLeft(LAMBDA text, leaf : text \o StringifyLeaf(leaf, withDebug), <<>>, FlattenDescs(d))

\* Fields go down through messages without a word and stacks, to a join: they
\* are nobody's that a mark, a word or another error hides from them.
RECURSIVE RenderWithFields(_, _)
RenderWithFields(e, outer) ==
  CASE e.kind = "join" -> Stringify(BuildFromChildren(e, outer), FALSE)
    [] e.kind = "message" /\ e.word = NoWord -> RenderWithFields(Head(e.of), e.fields @@ outer)
    [] e.kind = "base" /\ e.of # <<>> -> RenderWithFields(Head(e.of), outer)
    [] OTHER -> ErrorText(e)

\* Error
ErrorText(e) ==
  CASE e.kind \in {"plain", "ecode"} -> <<Mention(e.word)>>
    [] e.kind = "join" -> RenderWithFields(e, NoFields)
    [] e.kind = "message" /\ e.word # NoWord /\ e.replaces -> <<Mention(e.word)>>
    [] e.kind = "message" /\ e.word # NoWord /\ ~e.replaces ->
         <<Mention(e.word)>> \o ErrorText(Head(e.of))
    [] e.kind = "message" /\ e.word = NoWord -> RenderWithFields(e, NoFields)
    [] e.kind \in {"base", "mark"} -> IF e.of = <<>> THEN <<>> ELSE ErrorText(Head(e.of))

\* The verb %+v
FormatPlus(e) == Stringify(NewDesc(e), TRUE)
-----------------------------------------------------------------------------
\* The ways from an error down to the errors it is made of, in their order.
RECURSIVE PathsOf(_)
PathsOf(e) ==
  IF e.of = <<>> THEN <<<<e>>>>
  ELSE LET through(found, below) == Append(found, <<e>> \o below)
       IN FoldLeft(LAMBDA found, c : FoldLeft(through, found, PathsOf(c)), <<>>, e.of)

\* What the node that is nearest to the end says of a key.
Innermost(path) ==
  LET saying(key) == {i \in DOMAIN path : Gives(path[i].fields, key)}
  IN [key \in UNION {DOMAIN path[i].fields : i \in DOMAIN path} |->
        path[CHOOSE i \in saying(key) : \A j \in saying(key) : j <= i].fields[key]]

\* The word that the error at the end was made with.
OwnWord(path) ==
  LET i == CHOOSE i \in DOMAIN path : /\ path[i].word # NoWord
                                      /\ \A j \in (i + 1)..Len(path) : path[j].word = NoWord
  IN path[i].word

StacksOn(path) == Len(SelectSeq(path, LAMBDA e : e.kind = "base"))

\* Nothing but fields and stacks above the first join, and the mark around it.
RECURSIVE PlainlyJoined(_)
PlainlyJoined(e) ==
  \/ e.kind = "join"
  \/ /\ e.of # <<>> /\ e.word = NoWord
     /\ (e.kind = "message" => Head(e.of).kind # "mark")
     /\ PlainlyJoined(Head(e.of))

(* However errors are wrapped and joined, their description has one entry   *)
(* for each of them, in their order, with the fields that the innermost     *)
(* wrapper of it gives; the text and the description mention each of them   *)
(* once, in their order, and the description has the stack of each that was *)
(* made or wrapped below its last join. No error takes a second stack. The  *)
(* text of joined errors shows what the description shows, but for fields   *)
(* outside of a join that a word or a mark keeps from it.                   *)
ErrorsDescribed ==
  \A n \in DOMAIN trees :
    LET e == trees[n]
        paths == PathsOf(e)
        leaves == FlattenDescs(NewDesc(e))
        own == FoldLeft(LAMBDA words, path : Append(words, OwnWord(path)), <<>>, paths)
        mentioned(text) ==
          FoldLeft(LAMBDA words, m : IF m.word \in ToSet(own) THEN Append(words, m.word) ELSE words,
                   <<>>, text)
    IN /\ Len(leaves) = Len(paths)
       /\ \A i \in DOMAIN paths :
            /\ leaves[i].fields = Innermost(paths[i])
            /\ StacksOn(paths[i]) <= 1
            /\ leaves[i].err.kind = "message" => StacksOn(paths[i]) = 1
       /\ mentioned(ErrorText(e)) = own
       /\ mentioned(FormatPlus(e)) = own
       /\ Len(SelectSeq(FormatPlus(e), LAMBDA m : m.stack))
            = Len(SelectSeq(leaves, LAMBDA d : HasStack(d.err)))
       /\ PlainlyJoined(e) => ErrorText(e) = Stringify(NewDesc(e), FALSE)
=============================================================================
