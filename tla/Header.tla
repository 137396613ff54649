-------------------------------- MODULE Header --------------------------------
(***************************************************************************)
(* The header before every message: its code, in decimal, and the length   *)
(* of its content, in hexadecimal, each written with a minimal width and   *)
(* read as a stream reads a number.  Nothing but blanks that fill a width  *)
(* keeps the two apart.                                                    *)
(***************************************************************************)
EXTENDS Integers, Sequences

CodeLength   == 4    \* sizeof(MESSAGE_TYPE)
LengthLength == 8    \* sizeof(std::size_t)

Digits(base, n) ==
    LET digits[k \in Nat] == IF k < base THEN <<k>> ELSE Append(digits[k \div base], k % base)
    IN digits[n]

\* std::setw: at least so many characters.  A blank is -1.
Padded(width, s) == [i \in 1..(width - Len(s)) |-> -1] \o s

\* Message::send writes the header, and sends as much as its buffer holds.
Written(m) == SubSeq(Padded(CodeLength, Digits(10, m.code)) \o Padded(LengthLength, Digits(16, m.length)),
                     1, CodeLength + LengthLength)

\* operator>> passes over blanks and takes all the digits that follow.
StartOf(s)       == CHOOSE i \in 1..(Len(s) + 1) : (i > Len(s) \/ s[i] # -1) /\ \A j \in 1..(i - 1) : s[j] = -1
StopOf(base, s)  == CHOOSE i \in StartOf(s)..(Len(s) + 1) :
                      /\ i > Len(s) \/ s[i] \notin 0..(base - 1)
                      /\ \A j \in StartOf(s)..(i - 1) : s[j] \in 0..(base - 1)
Taken(base, s)   == SubSeq(s, StartOf(s), StopOf(base, s) - 1)
Rest(base, s)    == SubSeq(s, StopOf(base, s), Len(s))

\* Message::build_header reads the code and then the length, and throws where
\* there is no number.  A message survives it if both are what they were.
Survives(m) == /\ Taken(10, Written(m)) = Digits(10, m.code)
               /\ Taken(16, Rest(10, Written(m))) = Digits(16, m.length)
=============================================================================
