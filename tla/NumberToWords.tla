---------------------------- MODULE NumberToWords ----------------------------
(***************************************************************************)
(* number_to_words of src/audiogen/normalizer.py: the Indian numbering.    *)
(* A word is the number it stands for: the tables HINDI_0_TO_99 and        *)
(* PUNJABI_0_TO_99 give 0..99 a word each, all different and all written   *)
(* in letters of their language, and four more words name the scales.      *)
(***************************************************************************)
EXTENDS Integers, Sequences

Hundred == 100
Thousand == 1000
Lakh == 100000
Crore == 10000000

Unit == 0 .. 99
Scale == {Hundred, Thousand, Lakh, Crore}
Word == Unit \cup Scale

(* `table_0_to_99[count]` and the scale's word, nothing when there is none *)
Part(count, scale) == IF count > 0 THEN <<count, scale>> ELSE <<>>

Rest(count) == IF count > 0 THEN <<count>> ELSE <<>>

(* Mutant: the hundreds are counted before the thousands are taken off *)
BelowCroreShifted(n) ==
    Part(n \div Lakh, Lakh)
      \o Part((n % Lakh) \div Thousand, Thousand)
      \o Part((n % Lakh) \div Hundred, Hundred)
      \o Rest(n % Hundred)

BelowCrore(n) ==
    Part(n \div Lakh, Lakh)
      \o Part((n % Lakh) \div Thousand, Thousand)
      \o Part((n % Thousand) \div Hundred, Hundred)
      \o Rest(n % Hundred)

(* the crores themselves are spelled by the same function *)
Words[n \in Nat] ==
    IF n = 0 THEN <<0>>
    ELSE (IF n \div Crore > 0 THEN Words[n \div Crore] \o <<Crore>> ELSE <<>>)
           \o BelowCrore(n % Crore)
=============================================================================
