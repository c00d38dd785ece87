----------------------------- MODULE IniParser -----------------------------
(***************************************************************************)
(* confparser: a configuration is loaded line by line, from a file         *)
(* (iniparser_load) or from memory (iniparser_load_mem), into a            *)
(* dictionary that the program then changes and reads its settings from.   *)
(*                                                                         *)
(* A line is a sequence of tokens: [name], name =, a word, a quoted one,   *)
(* a comment or a backslash; blanks are left out.                          *)
(***************************************************************************)
EXTENDS Dictionary, Integers, FiniteSets, SequencesExt

CONSTANTS
    Files,           \* sequences of lines
    Lower,           \* strlwc on the names
    LineSize,        \* ASCIILINESZ: the tokens of a line
    Number,          \* strtol on the words
    IntOptions, StrOptions, Required,
    Module,          \* the section that has the settings of the program
    Programs,        \* the settings it changes: records [key, val]
    MaxMisses        \* bound: allocations that fail

\* A name that strlwc knows; the empty one is that of [].
Named(x) ==
    /\ x.t = "key" => x.s \in DOMAIN Lower
    /\ x.t = "sec" => x.s \in DOMAIN Lower \cup {""}

Names == {""} \cup {Lower[s] : s \in DOMAIN Lower}

ASSUME IniParserAssumption ==
    /\ LineSize \in Nat \ {0} /\ MaxMisses \in Nat
    /\ Required \subseteq StrOptions
    /\ \A w \in DOMAIN Number : Number[w] \in Int
    /\ "cut" \in DOMAIN Lower
    /\ \A s, t \in Names : <<s>> # Null /\ <<s, t>> # Null
    /\ \A p \in Programs : p.key # Null
    /\ \A f \in Files :
        /\ f \in Seq(ToSet(f))
        /\ \A l \in ToSet(f) : l \in Seq(ToSet(l)) /\ \A x \in ToSet(l) : Named(x)

VARIABLES
    input,           \* how (load or load_mem), lines, and whether the last line
                     \* ends with a line end
    pos,             \* the next line
    pending,         \* what a line that goes on has so far
    below,           \* the byte below the buffer of a line
    section, dict, errs,
    status,          \* of the load, then of the program
    got,             \* what the last search returned
    settings,        \* the program's own copy
    misses

iniVars == <<input, pos, pending, below, section, dict, errs, status, got, settings, misses>>

Tok(t, s) == [t |-> t, s |-> s]
Backslash == Tok("bs", "")
Defaults == [o \in IntOptions \cup StrOptions |-> NOTFOUND]

---------------------------------------------------------------------------
(* One line. *)

\* What follows the sign: what is quoted, or all up to a comment.
Value(text) ==
    LET ends == {i \in 2 .. Len(text) : text[i].t = "hash"} \cup {Len(text) + 1}
        last == IF Len(text) > 1 /\ text[2].t = "quoted" THEN 2 ELSE First(ends) - 1
    IN  [i \in 1 .. last - 1 |-> text[i + 1].s]

IniparserLine(text) ==
    CASE text = <<>>                         -> [kind |-> "empty"]
      [] text # <<>> /\ text[1].t = "hash"   -> [kind |-> "comment"]
      [] Len(text) = 1 /\ text[1].t = "sec"  -> [kind |-> "section", name |-> text[1].s]
      [] text # <<>> /\ text[1].t = "key"    ->
            [kind |-> "value", name |-> Lower[text[1].s], val |-> Value(text)]
      [] OTHER                               -> [kind |-> "error"]

\* [] has no name: what the section was stays.
NewSection(line, s) == IF line.name = "" THEN s ELSE Lower[line.name]

\* The same text without its first character.
Cut(text) ==
    IF text = <<>> THEN text
    ELSE [text EXCEPT ![1] = IF @.t = "key" THEN Tok("key", "cut") ELSE Tok("word", "cut")]

Text == LET t == pending \o input.lines[pos] IN IF below = "short" THEN Cut(t) ELSE t

Complete == pos < Len(input.lines) \/ input.newline
TooLong  == Len(Text) > LineSize

---------------------------------------------------------------------------
(* Loading. *)

IniInit ==
    /\ input \in [how : {"load", "load_mem"}, lines : Files, newline : BOOLEAN]
    /\ input.newline \/ (input.lines # <<>> /\ Last(input.lines) # <<>>)
    /\ pos = 1 /\ pending = <<>>
    /\ below \in IF input.how = "load" THEN {"backslash", "other"} ELSE {"other"}
    /\ section = "" /\ dict = DictionaryNew /\ errs = 0
    /\ status = "reading"
    /\ got = NOTFOUND /\ settings = Defaults /\ misses = 0

Reading == status = "reading" /\ pos <= Len(input.lines)

\* The dictionary is deleted when the load has failed.
End(e) ==
    IF e = 0 THEN status' = "loaded" /\ UNCHANGED dict
    ELSE status' = "null" /\ dict' = DictionaryNew

\* fgets has filled the buffer or come to the end before the line ended.
LoadTooLong ==
    /\ Reading /\ input.how = "load" /\ (TooLong \/ ~Complete)
    /\ status' = "null" /\ dict' = DictionaryNew
    /\ UNCHANGED <<input, pos, pending, below, section, errs, got, settings, misses>>

\* getnstr has filled the buffer: it says 0, which ends the loop.
LoadMemTooLong ==
    /\ Reading /\ input.how = "load_mem" /\ TooLong
    /\ End(errs)
    /\ UNCHANGED <<input, pos, pending, below, section, errs, got, settings, misses>>

ReadsLine == Reading /\ ~TooLong /\ (input.how = "load_mem" \/ Complete)

\* Only iniparser_load sees that a line goes on.
GoesOn == input.how = "load" /\ Text # <<>> /\ Last(Text) = Backslash

\* A backslash at the end of a line, or, when the line is empty, in the byte
\* below it; then the next line is read over that byte.
MultiLine ==
    /\ ReadsLine
    /\ \/ GoesOn /\ pending' = Front(Text) /\ below' = (IF below = "short" THEN "used" ELSE below)
       \/ /\ input.how = "load" /\ Text = <<>> /\ below = "backslash"
          /\ pending' = <<>> /\ below' = "short"
    /\ pos' = pos + 1
    /\ UNCHANGED <<input, section, dict, errs, status, got, settings, misses>>

ReadsWhole ==
    /\ ReadsLine /\ ~GoesOn
    /\ ~(input.how = "load" /\ Text = <<>> /\ below = "backslash")

\* Variant: what was kept of a line that went on is put in front of the next ones.
NextLineKeeps ==
    /\ pos' = pos + 1 /\ UNCHANGED pending
    /\ below' = IF below = "short" THEN "used" ELSE below
    /\ UNCHANGED <<input, got, settings>>

NextLine ==
    /\ pos' = pos + 1 /\ pending' = <<>>
    /\ below' = IF below = "short" THEN "used" ELSE below
    /\ UNCHANGED <<input, got, settings>>

\* The key and the value that a line sets in section s.
Assigned(line, s) ==
    IF line.kind = "section" THEN [key |-> <<NewSection(line, s)>>, val |-> Null]
    ELSE [key |-> <<s, line.name>>, val |-> line.val]

\* The result of dictionary_set takes the place of the count of errors.
SetLine ==
    /\ ReadsWhole
    /\ LET line == IniparserLine(Text) IN
        /\ line.kind \in {"section", "value"}
        /\ section' = IF line.kind = "section" THEN NewSection(line, section) ELSE section
        /\ dict' = DictionarySet(dict, Assigned(line, section).key, Assigned(line, section).val)
    /\ errs' = 0
    /\ NextLine
    /\ UNCHANGED <<status, misses>>

SkipLine ==
    /\ ReadsWhole
    /\ IniparserLine(Text).kind \in {"empty", "comment"}
    /\ NextLine
    /\ UNCHANGED <<section, dict, errs, status, misses>>

ErrorLine ==
    /\ ReadsWhole
    /\ IniparserLine(Text).kind = "error"
    /\ errs' = errs + 1
    /\ NextLine
    /\ UNCHANGED <<section, dict, status, misses>>

\* A copy of the key or of the value is missing, and dictionary_set says 0.
SetLineNoCopy ==
    /\ ReadsWhole /\ misses < MaxMisses
    /\ LET line == IniparserLine(Text) IN
        /\ line.kind \in {"section", "value"}
        /\ section' = IF line.kind = "section" THEN NewSection(line, section) ELSE section
        /\ LET a == Assigned(line, section) IN
            \/ SlotsOf(dict, a.key) = {} /\ dict' = DictionarySetNoKey(dict)
            \/ a.val # Null /\ dict' = DictionarySet(dict, a.key, Null)
    /\ errs' = 0 /\ misses' = misses + 1
    /\ NextLine
    /\ UNCHANGED status

\* The dictionary cannot grow.  It is deleted, for which its keys and values
\* are read: only when the third array is the one that failed are they there.
SetLineNoRoom ==
    /\ ReadsWhole /\ misses < MaxMisses
    /\ LET line == IniparserLine(Text) IN
        /\ line.kind \in {"section", "value"}
        /\ SlotsOf(dict, Assigned(line, section).key) = {} /\ dict.n = Len(dict.slot)
    /\ status' \in {"null", "crashed"}
    /\ errs' = -1 /\ dict' = DictionaryNew /\ misses' = misses + 1
    /\ NextLine
    /\ UNCHANGED section

\* A line that goes on at the end of the file is dropped.
LoadEnds ==
    /\ status = "reading" /\ pos > Len(input.lines)
    /\ End(errs)
    /\ UNCHANGED <<input, pos, pending, below, section, errs, got, settings, misses>>

---------------------------------------------------------------------------
(* The program. *)

IniparserSet(p) ==
    /\ status \in {"loaded", "changed"}
    /\ dict' = DictionarySet(dict, p.key, p.val) /\ status' = "changed"
    /\ UNCHANGED <<input, pos, pending, below, section, errs, got, settings, misses>>

IniparserUnset(p) ==
    /\ status \in {"loaded", "changed"}
    /\ dict' = DictionaryUnset(dict, p.key) /\ status' = "changed"
    /\ UNCHANGED <<input, pos, pending, below, section, errs, got, settings, misses>>

\* iniparser_getstring and iniparser_find_entry.
IniparserGetstring(p) ==
    /\ status \in {"loaded", "changed"}
    /\ got' = DictionaryGet(dict, p.key)
    /\ UNCHANGED <<input, pos, pending, below, section, dict, errs, status, settings, misses>>

\* Variant: a number that is not there is 0.
IniparserGetintZero(d, k) ==
    LET v == DictionaryGet(d, k) IN IF v \in {NOTFOUND, <<>>} THEN 0 ELSE Number[v[1]]

\* strtol of the first word; of a value that is Null the program dies.
IniparserGetint(d, k) ==
    LET v == DictionaryGet(d, k)
    IN  IF v = NOTFOUND THEN -1 ELSE IF v = <<>> THEN 0 ELSE Number[v[1]]

\* load_conf: an integer that is -1 is taken for one that is not there, and the
\* variable of a setting that is not there keeps its value.
ParseConfFile ==
    /\ status \in {"loaded", "changed"}
    /\ IF \E o \in IntOptions : DictionaryGet(dict, <<Module, o>>) = Null
       THEN status' = "crashed" /\ UNCHANGED <<dict, settings>>
       ELSE /\ settings' = [o \in IntOptions \cup StrOptions |->
                LET s == DictionaryGet(dict, <<Module, o>>)
                IN  IF o \in IntOptions
                    THEN IF IniparserGetint(dict, <<Module, o>>) = -1 THEN NOTFOUND
                         ELSE <<IniparserGetint(dict, <<Module, o>>)>>
                    ELSE IF s = Null THEN NOTFOUND ELSE s]
            /\ dict' = DictionaryNew /\ status' = "configured"
    /\ UNCHANGED <<input, pos, pending, below, section, errs, got, misses>>

\* read_config of ctserver, ctchild and ctmaster: strings, with defaults; the
\* programs end without a required one.
ReadConfig ==
    /\ status \in {"loaded", "changed"}
    /\ LET Absent(o) == DictionaryGet(dict, <<Module, o>>) \in {Null, NOTFOUND} IN
        IF \E o \in Required : Absent(o)
        THEN status' = "refused" /\ UNCHANGED settings
        ELSE /\ settings' = [o \in IntOptions \cup StrOptions |->
                    IF Absent(o) THEN NOTFOUND ELSE DictionaryGet(dict, <<Module, o>>)]
             /\ status' = "read"
    /\ UNCHANGED <<input, pos, pending, below, section, dict, errs, got, misses>>

IniNext ==
    \/ LoadTooLong \/ LoadMemTooLong \/ MultiLine \/ SetLine \/ SkipLine \/ ErrorLine
    \/ SetLineNoCopy \/ SetLineNoRoom \/ LoadEnds \/ ParseConfFile \/ ReadConfig
    \/ \E p \in Programs : IniparserSet(p) \/ IniparserUnset(p) \/ IniparserGetstring(p)

---------------------------------------------------------------------------
(* Saving the dictionary. *)

\* The slots of the sections, in order: keys without a colon.
Sections(d) == SelectSeq(d.slot, LAMBDA e : e.key # Null /\ Len(e.key) = 1)

\* Variant: a key without a value is left out.
SectionKeysDefined(d, s) ==
    SelectSeq(d.slot, LAMBDA e : /\ e.key # Null /\ Len(e.key) = 2 /\ e.key[1] = s[1]
                                 /\ e.val # Null)

\* The entries that iniparser_dump_ini writes under section s.
SectionKeys(d, s) ==
    SelectSeq(d.slot, LAMBDA e : e.key # Null /\ Len(e.key) = 2 /\ e.key[1] = s[1])

\* A value is written as it is, without quotes.
DumpLine(name, val) ==
    <<Tok("key", name)>> \o
    IF val = Null THEN <<>>
    ELSE [i \in DOMAIN val |-> IF val[i] = "#" THEN Tok("hash", "") ELSE Tok("word", val[i])]

\* iniparser_dump_ini, for a dictionary with sections.
DumpIni(d) ==
    FlattenSeq([i \in DOMAIN Sections(d) |->
        LET s    == Sections(d)[i].key
            keys == SectionKeys(d, s)
        IN  <<<<>>, <<Tok("sec", s[1])>>>> \o
            [j \in DOMAIN keys |-> DumpLine(keys[j].key[2], keys[j].val)]]) \o <<<<>>>>

\* Loading lines none of which goes on, or is malformed.
Reload(lines) ==
    FoldLeft(LAMBDA r, text :
                LET line == IniparserLine(text)
                    a    == Assigned(line, r.section)
                IN  IF line.kind \notin {"section", "value"} THEN r
                    ELSE [section |-> a.key[1], dict |-> DictionarySet(r.dict, a.key, a.val)],
             [section |-> "", dict |-> DictionaryNew], lines).dict

---------------------------------------------------------------------------
(* What is written in the input. *)

EndsAt(i) ==
    \/ input.how = "load_mem" \/ input.lines[i] = <<>>
    \/ Last(input.lines[i]) # Backslash

StartOf(i) ==
    CHOOSE j \in 1 .. i : /\ \A k \in j .. i - 1 : ~EndsAt(k)
                          /\ j = 1 \/ EndsAt(j - 1)

Whole(i) ==
    FlattenSeq([j \in 1 .. i - StartOf(i) + 1 |->
        LET l == StartOf(i) + j - 1
        IN  IF EndsAt(l) THEN input.lines[l] ELSE Front(input.lines[l])])

Overlong == {i \in DOMAIN input.lines : Len(Whole(i)) + (IF EndsAt(i) THEN 0 ELSE 1) > LineSize}

\* The lines that a load gets to see.
Seen ==
    {i \in DOMAIN input.lines : EndsAt(i) /\ \A j \in Overlong : i < j}

KindAt(i) == IniparserLine(Whole(i)).kind

Telling == {i \in Seen : KindAt(i) \in {"section", "value", "error"}}
LastOf(S) == CHOOSE i \in S : \A j \in S : j <= i

Refused ==
    \/ input.how = "load" /\ (Overlong # {} \/ ~input.newline)
    \/ Telling # {} /\ KindAt(LastOf(Telling)) = "error"

\* The section that a line is in.
SectionAt(i) ==
    LET heads == {j \in Seen : /\ j <= i /\ KindAt(j) = "section"
                               /\ IniparserLine(Whole(j)).name # ""}
    IN  IF heads = {} THEN "" ELSE Lower[IniparserLine(Whole(LastOf(heads))).name]

KeyAt(i) ==
    IF KindAt(i) = "section" THEN <<SectionAt(i)>>
    ELSE <<SectionAt(i), IniparserLine(Whole(i)).name>>

Setting == {i \in Seen : KindAt(i) \in {"section", "value"}}

\* Under every key what the last line says that has it.
Written ==
    [k \in {KeyAt(i) : i \in Setting} |->
        LET i == LastOf({j \in Setting : KeyAt(j) = k})
        IN  IF KindAt(i) = "section" THEN Null ELSE IniparserLine(Whole(i)).val]

---------------------------------------------------------------------------
(* Properties. *)

\* The types of the parser's variables.
IniTypeOK ==
    /\ input.how \in {"load", "load_mem"} /\ input.newline \in BOOLEAN
    /\ pos \in 1 .. Len(input.lines) + 1
    /\ Len(pending) <= LineSize
    /\ below \in {"backslash", "other", "short", "used"}
    /\ errs \in -1 .. Len(input.lines)
    /\ status \in {"reading", "loaded", "null", "crashed", "changed",
                   "configured", "read", "refused"}
    /\ DOMAIN settings = IntOptions \cup StrOptions
    /\ misses \in 0 .. MaxMisses

\* No key is in two slots, whatever is set, unset and set again while the
\* dictionary grows, and its count never stands below the slots taken: a
\* search for an empty slot finds one.  It stands above them by the copies
\* that failed.
SlotsConsistent ==
    LET taken == {i \in DOMAIN dict.slot : dict.slot[i].key # Null} IN
    /\ IniTypeOK
    /\ \A i, j \in taken : dict.slot[i].key = dict.slot[j].key => i = j
    /\ dict.n \in Cardinality(taken) .. Len(dict.slot)
    /\ dict.n - Cardinality(taken) <= misses

Undisturbed == misses = 0 /\ below \notin {"short", "used"}

\* A load fails if and only if a line does not fit or does not end (only
\* iniparser_load looks at that), or if the last line that says anything is
\* malformed: a malformed line before a good one is forgotten.  One that
\* succeeds has under each key what the last line of the input says that sets
\* it in that section: lines that go on are one line for iniparser_load, and
\* for iniparser_load_mem they are not.
LoadIsExact ==
    status \in {"loaded", "null"} /\ Undisturbed =>
        /\ status = "null" <=> Refused
        /\ status = "loaded" => Content(dict) = Written

\* What iniparser_dump_ini saves is a "loadable ini file", whatever was set and
\* unset in which slots, if every key is in a section that has an entry: loaded
\* again it says the same, but for values with a comment sign, of which the rest
\* is lost, and for those that are not defined, which come back empty.
DumpIsLoadable ==
    LET old     == Content(dict)
        Kept(v) == IF v = Null THEN <<>>
                   ELSE SubSeq(v, 1, First({i \in DOMAIN v : v[i] = "#"} \cup {Len(v) + 1}) - 1)
    IN  /\ status \in {"loaded", "changed"}
        /\ \A k \in DOMAIN old : <<k[1]>> \in DOMAIN old
        => Content(Reload(DumpIni(dict))) =
            [k \in DOMAIN old |-> IF Len(k) = 1 THEN old[k] ELSE Kept(old[k])]

\* What a program takes over from an input it has not changed is what is
\* written there, and its default where nothing is; only an integer that is
\* written as -1 is lost.
SettingsAsWritten ==
    [][status = "loaded" /\ status' \in {"read", "configured"} /\ Undisturbed =>
        \A o \in IntOptions \cup StrOptions :
            LET k == <<Module, o>>
                w == IF k \in DOMAIN Written THEN Written[k] ELSE NOTFOUND
                n == IF w = <<>> THEN 0 ELSE IF w = NOTFOUND THEN -1 ELSE Number[w[1]]
            IN  settings'[o] =
                    IF status' = "read" \/ o \in StrOptions THEN w
                    ELSE IF n = -1 THEN NOTFOUND ELSE <<n>>]_iniVars

\* The slots are a partial function: every call of the loaders and of the
\* program changes or reads it as Settings says.
AsSettings == INSTANCE Settings WITH
    content <- Content(dict), Lookups <- {p.key : p \in Programs}
ImplementsSettings == AsSettings!Spec
=============================================================================
