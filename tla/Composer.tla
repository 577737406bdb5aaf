------------------------------ MODULE Composer ------------------------------
(***************************************************************************)
(* The text of the composer (src/ui/composer.rs), its mention picker       *)
(* (src/ui/mention_picker.rs) and the saved draft, as src/app.rs drives    *)
(* them.  A mention is a range of the text with a person behind it; the    *)
(* text shows a label, the message tags the person.  Edits, pastes and     *)
(* reloads of the draft move, cut or drop the ranges.                      *)
(*                                                                         *)
(* A text is a sequence of characters of one cell and one position each:   *)
(* the code steps by whole characters, and what a character of several     *)
(* bytes or cells adds is left out, and so are the limits of 80 bytes for  *)
(* a query and 64 KiB for a paste.  Positions count the characters before  *)
(* them, as the code's byte offsets do.  Which draft belongs to which      *)
(* conversation is in Delivery, attachments are in Attachments, and what   *)
(* is checked of agents before a message is sent is in Agents.             *)
(***************************************************************************)
EXTENDS Naturals, Sequences, FiniteSets, FiniteSetsExt

CONSTANTS
    Alphabet,    \* what may be typed: characters
    Pastes,      \* texts that may be pasted
    Tagged,      \* people who can be mentioned
    LabelOf,     \* the name each is shown by
    MentionCap,  \* MENTION_CAP
    Cells,       \* width of the composer, in cells
    MostText     \* bound: length of the text

Characters == Alphabet \cup {"at", "blank", "newline"}
Mention == [from : Nat, to : Nat, who : Tagged]

ASSUME ComposerAssumption ==
    /\ MentionCap \in Nat \ {0} /\ Cells \in Nat \ {0}
    /\ Pastes \subseteq Seq(Characters) \ {<<>>}
    /\ LabelOf \in [Tagged -> Seq(Characters) \ {<<>>}]

VARIABLES
    writing,   \* a composer target is set
    composer,  \* Composer: body, cursor, the set of its mentions
    picker,    \* MentionPicker: its range and query, or NoPicker
    savedDraft      \* body and mentions of the saved draft

composerVars == <<writing, composer, picker, savedDraft>>

Unwritten == [body |-> <<>>, mentions |-> {}]
NoPicker == [query |-> "none"]

ComposerInit ==
    /\ writing = FALSE /\ picker = NoPicker /\ savedDraft = Unwritten
    /\ composer = [body |-> <<>>, cursor |-> 0, mentions |-> {}]

-----------------------------------------------------------------------------
(* Texts.                                                                  *)

IsWhitespace(c) == c \in {"blank", "newline"}
IsWord(c) == ~IsWhitespace(c)
MentionBoundary(c) == IsWhitespace(c) \/ c \in {"at", "tick", "paren"}
MentionStartBoundary(c) == IsWhitespace(c) \/ c = "paren"

Upto(b, i) == SubSeq(b, 1, i)
After(b, i) == SubSeq(b, i + 1, Len(b))
Between(b, lo, hi) == SubSeq(b, lo + 1, hi)

Words(b) == {p \in 1..Len(b) : IsWord(b[p])}
Blanks(b) == {p \in 1..Len(b) : IsWhitespace(b[p])}
Places(b, c) == {p \in 1..Len(b) : b[p] = c}

\* Of some places the last up to i, or 0; the first after i, or one given.
LastUpto(places, i) == Max({0} \cup {p \in places : p <= i})
FirstAfter(places, i, past) == Min({past} \cup {p \in places : p > i})

LineStart(b, i) == LastUpto(Places(b, "newline"), i)
LineEnd(b, i) == FirstAfter(Places(b, "newline"), i, Len(b) + 1) - 1

WordLeft(b, i) == LastUpto(Blanks(b), LastUpto(Words(b), i))
WordRight(b, i) ==
    FirstAfter(Words(b), FirstAfter(Blanks(b), i, Len(b) + 1), Len(b) + 1) - 1

\* Inside a fenced block, or inside ticks on the cursor's line; every third
\* tick of a row of them ends a fence.
InCodeRegion(b, i) ==
    LET ticks  == {p \in Places(b, "tick") : p <= i}
        fences == {p \in ticks : (p - LastUpto(1..i \ ticks, p)) % 3 = 0}
    IN  \/ Cardinality(fences) % 2 = 1
        \/ Cardinality({p \in ticks : p > LineStart(b, i)}) % 2 = 1

\* The terminal's row and column of position i: a row begins after a newline
\* and after each character that fills the one before.
Column(b, i) == (i - LineStart(b, i)) % Cells
DisplayPosition(b, i) ==
    [row |-> Cardinality({p \in 1..i : Column(b, p) = 0}), column |-> Column(b, i)]

DisplayRows(b) == DisplayPosition(b, Len(b)).row + 1

\* The first position in the row at or after the column, or the end of a row
\* that a newline cuts short.
CursorFromDisplay(b, row, column) ==
    LET Cell(i) == DisplayPosition(b, i)
        there == {i \in 0..(Len(b) - 1) :
                    Cell(i).row = row /\ (Cell(i).column >= column \/ b[i + 1] = "newline")}
    IN  IF there = {} THEN Len(b) ELSE Min(there)

-----------------------------------------------------------------------------
(* Composer.                                                               *)

ValidFor(m, b) == m.from < m.to /\ m.to <= Len(b) /\ b[m.from + 1] = "at"

\* Going through them in their order, each that begins in one already kept is
\* dropped; of the others, the first MentionCap stay.
NormalizeMentions(b, ms) ==
    LET valid == {m \in ms : ValidFor(m, b)}
        Clear(m, kept) == \A n \in kept \ {m} : n.from <= m.from => n.to <= m.from
        apart == CHOOSE kept \in SUBSET valid : kept = {m \in valid : Clear(m, kept)}
    IN  {m \in apart : Cardinality({n \in apart : n.from < m.from}) < MentionCap}

MovedBy(m, removed, added) ==
    [m EXCEPT !.from = @ - removed + added, !.to = @ - removed + added]

\* A mutant: of a mention that the edit cuts, what is left is kept.
MovedInPart(ms, lo, hi, added) ==
    {m \in ms : m.to <= lo}
      \cup {MovedBy(m, hi - lo, added) : m \in {n \in ms : n.from >= hi}}
      \cup {[m EXCEPT !.to = @ - (hi - lo) + added] :
              m \in {n \in ms : n.from < lo /\ n.to > lo}}

\* The mentions that an edit of lo..hi leaves, moved with the text.
Moved(ms, lo, hi, added) ==
    {m \in ms : m.to <= lo}
      \cup {MovedBy(m, hi - lo, added) : m \in {n \in ms : n.from >= hi}}

ReplaceRange(e, lo, hi, text) ==
    LET b == Upto(e.body, lo) \o text \o After(e.body, hi)
    IN  [body |-> b, cursor |-> lo + Len(text),
         mentions |-> NormalizeMentions(b, Moved(e.mentions, lo, hi, Len(text)))]

\* What is written on at the end of a mention makes it a longer word.
Insert(e, text) ==
    LET apart == {m \in e.mentions : m.to # e.cursor}
        open  == IF MentionBoundary(Head(text)) THEN e ELSE [e EXCEPT !.mentions = apart]
    IN  ReplaceRange(open, e.cursor, e.cursor, text)

ActiveMention(e) ==
    LET at == LastUpto(Places(e.body, "at"), e.cursor)
        prefix == Between(e.body, at, e.cursor)
    IN  IF \/ InCodeRegion(e.body, e.cursor) \/ at = 0
           \/ Blanks(prefix) # {}
           \/ at > 1 /\ ~MentionStartBoundary(e.body[at - 1])
        THEN NoPicker
        ELSE [from |-> at - 1, to |-> e.cursor, query |-> prefix]

CanAccept(e) == Cardinality(e.mentions) < MentionCap

AcceptMention(e, lo, hi, who) ==
    LET shown == <<"at">> \o LabelOf[who]
        put   == ReplaceRange(e, lo, hi, shown)
        mention == [from |-> lo, to |-> lo + Len(shown), who |-> who]
    IN  [put EXCEPT !.mentions = NormalizeMentions(put.body, @ \cup {mention})]

SetDraft(d) ==
    [body |-> d.body, cursor |-> Len(d.body), mentions |-> NormalizeMentions(d.body, d.mentions)]

Sendable(e) == Words(e.body) # {}

\* The people that the message tags: those of the mentions inside its text,
\* the blanks around it cut off.
TakenMentions(e) ==
    LET lo == FirstAfter(Words(e.body), 0, Len(e.body) + 1) - 1
        hi == LastUpto(Words(e.body), Len(e.body))
    IN  {m.who : m \in {n \in e.mentions : n.from >= lo /\ n.to <= hi /\ ValidFor(n, e.body)}}

-----------------------------------------------------------------------------
(* The handlers of app.rs: each refreshes the picker and saves the draft.  *)

\* The candidates the store has for the query.
MentionCandidates(query) == 
    {who \in Tagged : \E i \in 0..Len(LabelOf[who]) :
        /\ i + Len(query) <= Len(LabelOf[who])
        /\ Between(LabelOf[who], i, i + Len(query)) = query}

PersistDraft == savedDraft' = [body |-> composer'.body, mentions |-> composer'.mentions]

Edit(e) ==
    /\ writing /\ Len(e.body) <= MostText
    /\ composer' = e /\ picker' = ActiveMention(e)
    /\ PersistDraft /\ UNCHANGED writing

Key(c) == Edit(Insert(composer, <<c>>))
PasteText(text) == Edit(Insert(composer, text))

Backspace ==
    IF composer.cursor = 0 THEN Edit(composer)
    ELSE Edit(ReplaceRange(composer, composer.cursor - 1, composer.cursor, <<>>))

ForwardDelete ==
    IF composer.cursor = Len(composer.body) THEN Edit(composer)
    ELSE Edit(ReplaceRange(composer, composer.cursor, composer.cursor + 1, <<>>))

DeletePreviousWord ==
    Edit(ReplaceRange(composer, WordLeft(composer.body, composer.cursor), composer.cursor, <<>>))
DeleteToLineStart ==
    Edit(ReplaceRange(composer, LineStart(composer.body, composer.cursor), composer.cursor, <<>>))
DeleteToLineEnd ==
    Edit(ReplaceRange(composer, composer.cursor, LineEnd(composer.body, composer.cursor), <<>>))

Move ==
    LET b == composer.body
        i == composer.cursor
    IN  \E to \in {IF i = 0 THEN 0 ELSE i - 1, IF i = Len(b) THEN i ELSE i + 1,
                   WordLeft(b, i), WordRight(b, i), LineStart(b, i), LineEnd(b, i)} :
            Edit([composer EXCEPT !.cursor = to])

\* A click into the text; the draft is not saved.
Click ==
    /\ writing
    /\ \E row \in 0..(DisplayRows(composer.body) - 1), column \in 0..(Cells - 1) :
        LET e == [composer EXCEPT !.cursor = CursorFromDisplay(composer.body, row, column)]
        IN  composer' = e /\ picker' = ActiveMention(e)
    /\ UNCHANGED <<writing, savedDraft>>

\* Enter, Tab or a click on a candidate: the picker closes in any case.
Accept ==
    /\ writing /\ picker # NoPicker
    /\ picker' = NoPicker
    /\ \/ /\ MentionCandidates(picker.query) = {} \/ ~CanAccept(composer)
          /\ UNCHANGED composer
       \/ /\ CanAccept(composer)
          /\ \E who \in MentionCandidates(picker.query) :
                composer' = AcceptMention(composer, picker.from, picker.to, who)
          /\ Len(composer'.body) <= MostText
    /\ PersistDraft /\ UNCHANGED writing

EscapeKey ==
    /\ writing
    /\ IF picker # NoPicker THEN UNCHANGED writing ELSE writing' = FALSE
    /\ picker' = NoPicker
    /\ UNCHANGED <<composer, savedDraft>>

OpenComposerTarget ==
    /\ ~writing /\ writing' = TRUE
    /\ composer' = SetDraft(savedDraft) /\ picker' = ActiveMention(composer')
    /\ UNCHANGED savedDraft

\* From the list of agents: the composer opens, and the mention is put at the
\* end of the draft without another look at the picker.
MentionSelectedAgent(who) ==
    LET loaded == SetDraft(savedDraft)
        open   == IF loaded.body # <<>> /\ IsWord(loaded.body[Len(loaded.body)])
                  THEN Insert(loaded, <<"blank">>) ELSE loaded
        tagged == Insert(AcceptMention(open, open.cursor, open.cursor, who), <<"blank">>)
    IN  /\ ~writing /\ writing' = TRUE
        /\ picker' = ActiveMention(loaded)
        /\ IF CanAccept(open)
           THEN composer' = tagged /\ Len(tagged.body) <= MostText /\ PersistDraft
           ELSE composer' = open /\ Len(open.body) <= MostText /\ UNCHANGED savedDraft

ClearComposerDraft ==
    /\ writing
    /\ composer' = [body |-> <<>>, cursor |-> 0, mentions |-> {}]
    /\ picker' = NoPicker
    /\ PersistDraft /\ UNCHANGED writing

\* The draft is hidden while the message is sent (module Delivery): by the time
\* a composer opens again it is delivered and gone, or given back.
Submit ==
    /\ writing /\ picker = NoPicker /\ Sendable(composer)
    /\ writing' = FALSE
    /\ composer' = [body |-> <<>>, cursor |-> 0, mentions |-> {}]
    /\ savedDraft' \in {Unwritten, [body |-> composer.body, mentions |-> composer.mentions]}
    /\ UNCHANGED picker

ComposerNext ==
    \/ \E c \in Alphabet : Key(c)
    \/ \E text \in Pastes : PasteText(text)
    \/ Backspace \/ ForwardDelete
    \/ DeletePreviousWord \/ DeleteToLineStart \/ DeleteToLineEnd
    \/ Move \/ Click \/ Accept \/ EscapeKey
    \/ OpenComposerTarget \/ ClearComposerDraft \/ Submit
    \/ \E who \in Tagged : MentionSelectedAgent(who)

ComposerSpec == ComposerInit /\ [][ComposerNext]_composerVars

-----------------------------------------------------------------------------
(* After any edits the text shows "@" and the person's name where a mention *)
(* says, and no character belongs to two of them.                          *)
MentionsShow ==
    LET ms == composer.mentions
    IN  /\ \A m \in ms : Between(composer.body, m.from, m.to) = <<"at">> \o LabelOf[m.who]
        /\ \A m, n \in ms : m # n => m.to <= n.from \/ n.to <= m.from

\* A message tags the people its text names, all of them.
EveryMentionTags ==
    Sendable(composer) => TakenMentions(composer) = {m.who : m \in composer.mentions}

\* The names end in words.  safe_label trims a name, then leaves control
\* characters out and cuts it at 240 bytes, either of which can bare a blank;
\* of such a name the end is trimmed with the message and the tag is lost.
LabelsEndInWords == \A who \in Tagged : IsWord(LabelOf[who][Len(LabelOf[who])])

\* What the picker would replace is still what it was opened for.
PickerIsFresh ==
    picker # NoPicker =>
        Between(composer.body, picker.from, picker.to) = <<"at">> \o picker.query

\* The cursor is in one of the rows kept for the text, and a click on it
\* leaves it where it is.
CursorIsShown ==
    LET p == DisplayPosition(composer.body, composer.cursor)
    IN  /\ composer.cursor \in 0..Len(composer.body)
        /\ p.row < DisplayRows(composer.body)
        /\ CursorFromDisplay(composer.body, p.row, p.column) = composer.cursor

\* A long series of edits, pastes, picks and reloads never makes the composer
\* tag somebody the text does not name, replace a text that was not chosen, or
\* draw its cursor elsewhere (src/ui/composer.rs, replace_range).
ComposerSound == MentionsShow /\ EveryMentionTags /\ PickerIsFresh /\ CursorIsShown
=============================================================================
