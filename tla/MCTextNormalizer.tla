-------------------------- MODULE MCTextNormalizer --------------------------
EXTENDS TextNormalizer

CONSTANTS MaxLength   \* of the texts in which any characters are mixed

Alphabet == {Char(k) : k \in Kinds \ {"word", "ascii", "indic"}}
              \cup {Digit("ascii", 0), Digit("ascii", 7), Digit("indic", 1)}

Mixed == UNION {[1 .. n -> Alphabet] : n \in 0 .. MaxLength}

(* the numbers around every boundary of the numbering, and three that have *)
(* every part; the largest TLC can count is 214 crore                      *)
Boundaries ==
    UNION {{b - 1, b, b + 1} : b \in {100, 1000, 10000, 100000, 1000000, 10000000,
                                       100000000, 1000000000}}
      \cup 1 .. 130
      \cup {12345678, 999999999, 2012030405, 2147483647}

Written(n) ==
    LET size == CHOOSE s \in 1 .. 10 :
                    /\ s = 10 \/ n < 10 ^ s
                    /\ s = 1 \/ n >= 10 ^ (s - 1)
    IN  [i \in 1 .. size |-> Digit("ascii", (n \div 10 ^ (size - i)) % 10)]

MCTexts == Mixed \cup {Written(n) : n \in Boundaries}
=============================================================================
