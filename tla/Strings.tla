------------------------------ MODULE Strings ------------------------------
(***************************************************************************)
(* Strings that share characters (jsstr.c): a flat string owns a buffer, a *)
(* dependent one stands for a stretch of its base's characters.  To append *)
(* to a string that owns a growable buffer is to take the buffer over and  *)
(* leave the string a prefix of the result.  Native code may keep a        *)
(* pointer to a string's characters; the bytes of a string are cached.     *)
(*                                                                         *)
(* A character is any value; a buffer is a sequence that ends in Nul.      *)
(***************************************************************************)
EXTENDS Integers, Sequences, FiniteSets, Functions

CONSTANTS
    StrCells,          \* string cells of the heap
    Buffers,           \* what malloc has to give
    NewTexts,          \* the texts of fresh strings (inputs)
    DepStartMask,      \* JSSTRDEP_START_MASK
    DepLengthMask,     \* JSSTRDEP_LENGTH_MASK
    MinimizeLimit,     \* JSSTRDEP_RECURSION_LIMIT
    MaxText,           \* bound: length of a text
    MaxStrCalls        \* bound: calls of a behaviour

VARIABLES
    cells,        \* string -> its cell
    buffers,      \* buffer -> its contents
    byteCache,    \* deflated_string_cache: string -> bytes
    heldStrs,     \* the strings the program can reach
    texts,        \* string -> its text when it was made (history)
    kept,         \* the <<string, buffer>> pointers native code keeps (history)
    strCalls      \* calls made (a bound)

stringVars == <<cells, buffers, byteCache, heldStrs, texts, kept, strCalls>>

Nul == "NUL"
Freed == <<>>
NoBytes == <<"none">>
FreeCell == [live |-> FALSE, dep |-> FALSE, prefix |-> FALSE, word |-> 0, at |-> 0, mutable |-> FALSE]
Empty == 0    \* rt->emptyString, always held; StrCells are positive numbers
Strs == StrCells \cup {Empty}
Chars == UNION {{text[i] : i \in DOMAIN text} : text \in NewTexts}

ASSUME StringsAssumption ==
    /\ IsFiniteSet(StrCells) /\ StrCells \subseteq Nat \ {Empty} /\ 0 \notin Buffers
    /\ NewTexts \subseteq Seq(Chars)
    /\ DepStartMask \in Nat /\ DepLengthMask \in Nat /\ MinimizeLimit \in Nat /\ MaxText \in Nat

-----------------------------------------------------------------------------
(* What a cell says: "at" is its buffer, or its base.  The word of a       *)
(* dependent string has the fields start and length, unless it is a prefix.*)

StartOf(c) == IF c.prefix THEN 0 ELSE (c.word \div (DepLengthMask + 1)) % (DepStartMask + 1)

Length(c) == IF c.dep /\ ~c.prefix THEN c.word % (DepLengthMask + 1) ELSE c.word

AsPrefix(c, n, base) == [c EXCEPT !.dep = TRUE, !.prefix = TRUE, !.word = n, !.at = base]

AsStretch(c, start, n, base) ==
    [c EXCEPT !.dep = TRUE, !.prefix = FALSE, !.word = start * (DepLengthMask + 1) + n, !.at = base]

AsFlat(c, n, buffer) ==
    [c EXCEPT !.dep = FALSE, !.prefix = FALSE, !.word = n, !.at = buffer]

\* The strings from s down to the one that owns the characters, and how many characters of each
\* come before the first of s.
BaseOf(cs, b) == [str |-> cs[b.str].at, skip |-> b.skip + StartOf(cs[b.str])]

Bases(cs, s) ==
    LET down[n \in 0..Cardinality(Strs)] ==
            IF n = 0 THEN <<[str |-> s, skip |-> 0]>>
            ELSE LET chain == down[n - 1]
                     b == chain[Len(chain)]
                 IN IF cs[b.str].dep THEN Append(chain, BaseOf(cs, b)) ELSE chain
    IN down[Cardinality(Strs)]

Owner(chain) == chain[Len(chain)]

\* The last base takes the place of the ones before it, if the start then fits.
Rebased(c, start, owner) ==
    IF start = 0 THEN [c EXCEPT !.at = owner]
    ELSE IF start <= DepStartMask THEN AsStretch(c, start, Length(c), owner)
    ELSE c

\* js_MinimizeDependentStrings, recursive up to its limit: all on the way get the last base.
Minimized(cs, chain) ==
    LET place(t) == CHOOSE i \in DOMAIN chain : chain[i].str = t
        onWay == {chain[i].str : i \in {j \in 1..Len(chain) - 2 : j <= MinimizeLimit + 1}}
    IN [t \in Strs |->
          IF t \notin onWay THEN cs[t]
          ELSE Rebased(cs[t], Owner(chain).skip - chain[place(t)].skip, Owner(chain).str)]

\* JSSTRING_CHARS: the buffer, how many characters to skip, and the cells afterwards.
CharsIn(cs, chain) ==
    [buffer |-> cs[Owner(chain).str].at, skip |-> Owner(chain).skip, cells |-> Minimized(cs, chain)]
CharsOf(cs, s) == CharsIn(cs, Bases(cs, s))

TextIn(bufs, chars, n) == SubSeq(bufs[chars.buffer], chars.skip + 1, chars.skip + n)

-----------------------------------------------------------------------------
(* The heap's part.                                                        *)

FreeCells == {s \in StrCells : ~cells[s].live}
FreeBuffers == {b \in Buffers : buffers[b] = Freed}
NewCell == CHOOSE s \in FreeCells : TRUE
NewBuffer == CHOOSE b \in FreeBuffers : TRUE

MayCallString ==
    /\ strCalls < MaxStrCalls
    /\ strCalls' = strCalls + 1
    /\ FreeCells # {} /\ FreeBuffers # {}

\* The program gets s, a string made of text.
Hand(s, text) ==
    /\ heldStrs' = heldStrs \cup {s}
    /\ texts' = [texts EXCEPT ![s] = text]

Fail == UNCHANGED <<heldStrs, texts, byteCache, kept>>

Flat(cs, s, n, buffer, mutable) ==
    [cs EXCEPT ![s] = AsFlat([FreeCell EXCEPT !.live = TRUE, !.mutable = mutable], n, buffer)]

InitOfStrings ==
    /\ LET none == [s \in Strs |-> FreeCell] IN cells = Flat(none, Empty, 0, 0, FALSE)
    /\ buffers = [b \in Buffers \cup {0} |-> IF b = 0 THEN <<Nul>> ELSE Freed]
    /\ byteCache = [s \in Strs |-> NoBytes]
    /\ heldStrs = {Empty}
    /\ texts = [s \in Strs |-> <<>>]
    /\ kept = {}
    /\ strCalls = 0

\* js_NewStringCopyN, and JS_NewGrowableString if mutable.
NewStringCopyN(text, mutable) ==
    /\ MayCallString
    /\ buffers' = [buffers EXCEPT ![NewBuffer] = Append(text, Nul)]
    /\ cells' = Flat(cells, NewCell, Len(text), NewBuffer, mutable)
    /\ Hand(NewCell, text)
    /\ UNCHANGED <<byteCache, kept>>

Fits(start, n) == start <= DepStartMask /\ (start = 0 \/ n <= DepLengthMask)

NewDependentString(base, start, n) ==
    /\ MayCallString
    /\ n > 0    \* else the empty string is handed out
    /\ start + n <= Length(cells[base])
    /\ LET chars == CharsOf(cells, base)
           text == SubSeq(TextIn(buffers, chars, Length(cells[base])), start + 1, start + n)
           cell == [FreeCell EXCEPT !.live = TRUE, !.mutable = TRUE]
       IN /\ Hand(NewCell, text)
          /\ IF Fits(start, n)
             THEN /\ cells' = [cells EXCEPT ![NewCell] = IF start = 0 THEN AsPrefix(cell, n, base)
                                                         ELSE AsStretch(cell, start, n, base)]
                  /\ UNCHANGED buffers
             ELSE /\ cells' = Flat(chars.cells, NewCell, n, NewBuffer, FALSE)
                  /\ buffers' = [buffers EXCEPT ![NewBuffer] = Append(text, Nul)]
    /\ UNCHANGED <<byteCache, kept>>

\* Mutant: a buffer that native code has seen is taken over too.
OwnsAnyBuffer(c) == ~c.dep

OwnsGrowable(c) == ~c.dep /\ c.mutable

(***************************************************************************)
(* js_ConcatStrings.  oom is where memory runs out: nowhere, at the        *)
(* characters, at the cell, or at the cell and again when the buffer is to *)
(* shrink.                                                                 *)
(***************************************************************************)
CopyBoth(left, right, oom) ==
    LET rs == CharsOf(cells, right)
        ls == CharsOf(rs.cells, left)
        text == TextIn(buffers, ls, Length(cells[left])) \o TextIn(buffers, rs, Length(cells[right]))
    IN IF oom # ""
       THEN /\ cells' = ls.cells
            /\ UNCHANGED buffers
            /\ Fail
       ELSE /\ cells' = Flat(ls.cells, NewCell, Len(text), NewBuffer, TRUE)
            /\ buffers' = [buffers EXCEPT ![NewBuffer] = Append(text, Nul)]
            /\ Hand(NewCell, text)
            /\ UNCHANGED <<byteCache, kept>>

\* The buffer moves; right may have its characters in it.
TakeOver(left, right, oom) ==
    LET rs == CharsOf(cells, right)
        old == cells[left].at
        ln == Length(cells[left])
        grown == SubSeq(buffers[old], 1, ln)
        text == grown \o (IF rs.buffer = old THEN SubSeq(grown, rs.skip + 1, rs.skip + Length(cells[right]))
                          ELSE TextIn(buffers, rs, Length(cells[right])))
        moved(contents) == [buffers EXCEPT ![old] = Freed, ![NewBuffer] = contents]
    IN CASE oom = "chars" ->
              /\ cells' = rs.cells
              /\ UNCHANGED buffers
              /\ Fail
         [] oom \in {"cell", "shrink"} ->
              /\ cells' = [rs.cells EXCEPT ![left].at = NewBuffer]
              /\ buffers' = moved(IF oom = "cell" THEN SubSeq(text, 1, ln + 1) ELSE Append(text, Nul))
              /\ Fail
         [] OTHER ->
              /\ cells' = [Flat(rs.cells, NewCell, Len(text), NewBuffer, TRUE)
                              EXCEPT ![left] = AsPrefix(@, ln, NewCell)]
              /\ buffers' = moved(Append(text, Nul))
              /\ Hand(NewCell, text)
              /\ UNCHANGED <<byteCache, kept>>

ConcatStrings(left, right, oom) ==
    /\ MayCallString
    /\ Length(cells[left]) > 0 /\ Length(cells[right]) > 0    \* else the other one is the result
    /\ Length(cells[left]) + Length(cells[right]) <= MaxText
    /\ IF OwnsGrowable(cells[left]) THEN TakeOver(left, right, oom) ELSE CopyBoth(left, right, oom)

(***************************************************************************)
(* js_UndependString, js_GetStringChars (native code keeps the pointer)    *)
(* and JS_MakeStringImmutable.                                             *)
(***************************************************************************)
UndependString(s, immutable) ==
    /\ MayCallString
    /\ LET chars == CharsOf(cells, s)
           cell == IF cells[s].dep THEN AsFlat(cells[s], Length(cells[s]), NewBuffer) ELSE cells[s]
       IN /\ cells' = [chars.cells EXCEPT ![s] =
                          IF immutable THEN [cell EXCEPT !.mutable = FALSE] ELSE cell]
          /\ buffers' = IF ~cells[s].dep THEN buffers
                        ELSE [buffers EXCEPT ![NewBuffer] =
                                  Append(TextIn(buffers, chars, Length(cells[s])), Nul)]
          /\ kept' = IF immutable THEN kept \cup {<<s, cell.at>>} ELSE kept
    /\ UNCHANGED <<byteCache, heldStrs, texts>>

\* js_GetStringBytes.
GetStringBytes(s) ==
    /\ MayCallString
    /\ byteCache[s] = NoBytes
    /\ LET chars == CharsOf(cells, s) IN
        /\ cells' = chars.cells
        /\ byteCache' = [byteCache EXCEPT ![s] = TextIn(buffers, chars, Length(cells[s]))]
    /\ UNCHANGED <<buffers, heldStrs, texts, kept>>

Forget(s) ==
    /\ s # Empty
    /\ heldStrs' = heldStrs \ {s}
    /\ texts' = [texts EXCEPT ![s] = <<>>]
    /\ kept' = {k \in kept : k[1] # s}
    /\ UNCHANGED <<cells, buffers, byteCache, strCalls>>

\* A collection: a dependent string marks its bases; js_FinalizeStringRT for the rest.
CollectStrings ==
    LET marked == UNION {{b.str : b \in Range(Bases(cells, s))} : s \in heldStrs}
        dead == {s \in StrCells : cells[s].live /\ s \notin marked}
        free == {cells[s].at : s \in {t \in dead : ~cells[t].dep}}
    IN /\ dead # {}
       /\ cells' = [s \in Strs |-> IF s \in dead THEN FreeCell ELSE cells[s]]
       /\ buffers' = [b \in DOMAIN buffers |-> IF b \in free THEN Freed ELSE buffers[b]]
       /\ byteCache' = [s \in Strs |-> IF s \in dead THEN NoBytes ELSE byteCache[s]]
       /\ UNCHANGED <<heldStrs, texts, kept, strCalls>>

StringsNext ==
    \/ \E text \in NewTexts, mutable \in BOOLEAN : NewStringCopyN(text, mutable)
    \/ \E s \in heldStrs, start \in 0..MaxText, n \in 1..MaxText : NewDependentString(s, start, n)
    \/ \E l, r \in heldStrs, oom \in {"", "chars", "cell", "shrink"} : ConcatStrings(l, r, oom)
    \/ \E s \in heldStrs, immutable \in BOOLEAN : UndependString(s, immutable)
    \/ \E s \in heldStrs : GetStringBytes(s) \/ Forget(s)
    \/ CollectStrings

StringsSpec == InitOfStrings /\ [][StringsNext]_stringVars

-----------------------------------------------------------------------------
\* A string is a value: whatever was done since with the strings it shares characters with, its
\* text is the one it was made of, and so are its cached bytes and what native code still reads.
\* Each buffer has one owner, and an immutable string owns its own (js_MarkGCThing asserts it).
TextsNeverChange ==
    LET live == {s \in Strs : cells[s].live}
        flat == {s \in live : ~cells[s].dep}
    IN /\ \A s \in heldStrs :
            LET chars == CharsOf(cells, s) IN
            /\ s \in live
            /\ buffers[chars.buffer] # Freed
            /\ TextIn(buffers, chars, Length(cells[s])) = texts[s]
            /\ byteCache[s] \in {NoBytes, texts[s]}
       /\ \A s, t \in flat : cells[s].at = cells[t].at => s = t
       /\ \A s \in Strs \ live : byteCache[s] = NoBytes
       /\ \A s \in live \ flat : cells[s].mutable
       /\ \A k \in kept : SubSeq(buffers[k[2]], 1, Len(texts[k[1]])) = texts[k[1]]
=============================================================================
