--------------------------- MODULE TextNormalizer ---------------------------
(***************************************************************************)
(* normalize_text of src/audiogen/normalizer.py as its callers see it: a   *)
(* caller may have normalised the text already when the engine, given a    *)
(* language, normalises it once more (src/audiogen/engine.py).             *)
(*                                                                         *)
(* A text is a sequence of characters; a character has a kind and, for a   *)
(* digit or a spoken number word, the number it stands for.                *)
(***************************************************************************)
EXTENDS NumberToWords, SequencesExt

CONSTANTS Texts,      \* the texts a caller may hand in
          MaxPasses   \* normalisations of one text

Kinds == {"letter",    \* of the language
          "comma",     \* , ? !
          "danda",     \* the dandas: letters to the pattern of tags
          "space", "newline",
          "nbsp",      \* white space to the regular expressions, not allowed
          "ascii",     \* a digit 0-9
          "indic",     \* a digit of Devanagari or Gurmukhi
          "foreign",   \* a letter of another script, an underscore
          "symbol",    \* emoji, full stop, percent sign, hyphen...
          "at",        \* @ or #
          "scheme",    \* http://, https:// or www.
          "word"}      \* a number's word, spelled in letters of the language

Char(kind) == [kind |-> kind, n |-> 0]
Digit(kind, d) == [kind |-> kind, n |-> d]
Spoken(w) == [kind |-> "word", n |-> w]

(* What is written before any number is spoken. *)
RawCharacter == {Char(kind) : kind \in Kinds \ {"ascii", "indic", "word"}}
                   \cup {Digit(kind, d) : kind \in {"ascii", "indic"}, d \in 0 .. 9}

ASSUME TextsAssumption == Texts \subseteq Seq(RawCharacter)

IsDigit(c)  == c.kind \in {"ascii", "indic"}
IsSpace(c)  == c.kind \in {"space", "newline", "nbsp"}
InTag(c)    == c.kind \in {"letter", "word", "danda", "foreign", "scheme",
                           "ascii", "indic"}
Allowed(c)  == c.kind \in {"letter", "word", "comma", "danda", "space", "newline",
                           "indic"}

VARIABLES raw,      \* the text as the caller got it
          text,     \* the text as it is now
          passes    \* how often it was normalised

vars == <<raw, text, passes>>

(***************************************************************************)
(* The five steps, each from the positions it keeps or rewrites.           *)
(***************************************************************************)

Keep(t, kept) ==
    FlattenSeq([i \in 1 .. Len(t) |-> IF i \in kept THEN <<t[i]>> ELSE <<>>])

(* 1. _URL_PATTERN: a scheme and the non-space characters after it *)
InUrl(t, i) ==
    \E j \in 1 .. i : /\ t[j].kind = "scheme"
                      /\ j < Len(t) /\ ~IsSpace(t[j + 1])
                      /\ \A k \in j .. i : ~IsSpace(t[k])
StripUrls(t) == Keep(t, {i \in DOMAIN t : ~InUrl(t, i)})

(* 2. _TAG_PATTERN: @ or # and the letters, digits and dandas after it *)
OfTag(t, i) ==
    \E j \in 1 .. i : /\ t[j].kind = "at"
                      /\ j < Len(t) /\ InTag(t[j + 1])
                      /\ \A k \in j + 1 .. i : InTag(t[k])
StripTags(t) == Keep(t, {i \in DOMAIN t : ~OfTag(t, i)})

(* 3. expand_digits: a run of digits, of whatever scripts, is one number *)
RunValue(t) ==
    LET value[i \in 0 .. Len(t)] ==
            IF i > 0 /\ IsDigit(t[i]) THEN 10 * value[i - 1] + t[i].n ELSE 0
    IN  value

RunEnds(t, i) == i = Len(t) \/ ~IsDigit(t[i + 1])

(* " ".join of the words *)
Join(words) ==
    FlattenSeq([i \in 1 .. Len(words) |->
        IF i = 1 THEN <<Spoken(words[i])>> ELSE <<Char("space"), Spoken(words[i])>>])

ExpandDigits(t) ==
    LET value == RunValue(t)
    IN  FlattenSeq([i \in 1 .. Len(t) |->
            IF ~IsDigit(t[i]) THEN <<t[i]>>
            ELSE IF RunEnds(t, i) THEN Join(Words[value[i]])
            ELSE <<>>])

(* 4. strip_unsupported_characters *)
StripUnsupported(t) == Keep(t, {i \in DOMAIN t : Allowed(t[i])})

Spaced(t) == [i \in 1 .. Len(t) |-> IF IsSpace(t[i]) THEN Char("space") ELSE t[i]]

(* Mutant: spaces are only squeezed, not cut at the ends *)
SqueezeSpaces(t) ==
    Keep(Spaced(t), {i \in DOMAIN t : ~IsSpace(t[i]) \/ (i > 1 /\ ~IsSpace(t[i - 1]))})

(* 5. runs of white space become one space, none at either end *)
NormalizeSpaces(t) ==
    Keep(Spaced(t), {i \in DOMAIN t :
        \/ ~IsSpace(t[i])
        \/ /\ i > 1 /\ ~IsSpace(t[i - 1])
           /\ \E j \in i + 1 .. Len(t) : ~IsSpace(t[j])})

(* Mutant: the spaces are cleaned before the unsupported characters go *)
NormalizeSpacesFirst(t) ==
    StripUnsupported(NormalizeSpaces(ExpandDigits(StripTags(StripUrls(t)))))

NormalizeText(t) ==
    NormalizeSpaces(StripUnsupported(ExpandDigits(StripTags(StripUrls(t)))))

-----------------------------------------------------------------------------

Init == /\ raw \in Texts
        /\ text = raw
        /\ passes = 0

(* a caller of normalize_text takes its result *)
Normalize == /\ passes < MaxPasses
             /\ text' = NormalizeText(text)
             /\ passes' = passes + 1
             /\ UNCHANGED raw

(* AudioGenEngine.synthesize keeps the text when nothing is left of it *)
Synthesize == /\ passes < MaxPasses
              /\ LET norm == NormalizeText(text)
                 IN  text' = IF norm # <<>> THEN norm ELSE text
              /\ passes' = passes + 1
              /\ UNCHANGED raw

Next == Normalize \/ Synthesize

Spec == Init /\ [][Next]_vars

-----------------------------------------------------------------------------

Clean(t) ==
    /\ \A i \in 1 .. Len(t) :
          t[i].kind \in {"letter", "word", "comma", "danda", "space"}
    /\ \A i \in 1 .. Len(t) : t[i].kind = "space" =>
          /\ 1 < i /\ i < Len(t)
          /\ t[i - 1].kind # "space"

(* normalize_text "cleans": what a pass returns has letters, number words, *)
(* punctuation and single inner spaces, nothing else -- no digit, symbol,  *)
(* tag or address.  The engine alone may hand the model an unclean text,   *)
(* and only one of which nothing clean is left.                            *)
PassIsClean ==
    passes > 0 => \/ Clean(text)
                  \/ /\ text = raw
                     /\ NormalizeText(text) = <<>>

(* A text that was normalised is left alone by every later pass -- the     *)
(* caller's own normalisation and the engine's do not add up -- unless     *)
(* nothing was left of it and the engine went on with the raw text.        *)
SecondPassChangesNothing ==
    [][passes > 0 => text' = text \/ NormalizeText(raw) = <<>>]_vars

(* How a listener reads number words: hundreds multiply what precedes them *)
(* in their group, a larger scale closes the group, and a crore counts     *)
(* everything said so far.                                                 *)
Listen(heard, w) ==
    CASE w \in Unit   -> [heard EXCEPT !.group = @ + w]
      [] w = Hundred  -> [heard EXCEPT !.group = @ * w]
      [] w = Crore    -> [total |-> (heard.total + heard.group) * w, group |-> 0]
      [] OTHER        -> [total |-> heard.total + heard.group * w, group |-> 0]

After(start, words) ==
    LET heard[i \in 0 .. Len(words)] ==
            IF i = 0 THEN start ELSE Listen(heard[i - 1], words[i])
    IN  heard[Len(words)]

Hear(words) ==
    LET heard == After([total |-> 0, group |-> 0], words)
    IN  heard.total + heard.group

(* the numbers written in a text, in their order, and their words *)
Numbers(t) ==
    LET value == RunValue(t)
    IN  FlattenSeq([i \in 1 .. Len(t) |->
            IF IsDigit(t[i]) /\ RunEnds(t, i) THEN <<value[i]>> ELSE <<>>])

Spell(numbers) == FlattenSeq([k \in 1 .. Len(numbers) |-> Words[numbers[k]]])

(* the number words in a text, in their order *)
WordsIn(t) ==
    FlattenSeq([i \in 1 .. Len(t) |-> IF t[i].kind = "word" THEN <<t[i].n>> ELSE <<>>])

(* Two characters that run together: a number word and a letter of the     *)
(* word next to it.                                                        *)
Touch(a, b) ==
    /\ a.kind \in {"letter", "word"} /\ b.kind \in {"letter", "word"}
    /\ a.kind = "word" \/ b.kind = "word"

Apart(t) == \A i \in 1 .. Len(t) - 1 : ~Touch(t[i], t[i + 1])

(* A number is set apart by white space or punctuation that is kept.  Not  *)
(* so 7%7, 12.50 and two numbers with a no-break space between them, whose *)
(* separators are removed, nor a number with its unit written to it.       *)
Said(c) == IsDigit(c) \/ c.kind \in {"letter", "word"}
Remains(c) == IsDigit(c) \/ Allowed(c)
SetApart(t) ==
    \A i, j \in DOMAIN t :
        /\ i < j /\ Said(t[i]) /\ Said(t[j])
        /\ \A k \in i + 1 .. j - 1 : ~Remains(t[k])
        /\ IsDigit(t[i]) \/ IsDigit(t[j])
        => j = i + 1 /\ IsDigit(t[i]) /\ IsDigit(t[j])

(* Every number of the text that is not part of an address or a tag is     *)
(* spoken: its phrase, heard by itself, is the number that was written,    *)
(* and the words of the text are those phrases in their order, nothing     *)
(* between them lost or added.  Numbers that are set apart in the text     *)
(* have words that stay apart.  (Where one phrase ends and the next begins *)
(* is not in the words: 100 5 sounds like 105.)                            *)
NumbersAreHeard ==
    Clean(text) =>
      LET written == StripTags(StripUrls(raw))
          numbers == Numbers(written)
      IN  /\ Range(WordsIn(text)) \subseteq Word
          /\ WordsIn(text) = Spell(numbers)
          /\ \A k \in 1 .. Len(numbers) : Hear(Words[numbers[k]]) = numbers[k]
          /\ SetApart(written) => Apart(text)
=============================================================================
