------------------------------ MODULE Strings ------------------------------
(***************************************************************************)
(* The library that kernel and programs share, src/Common/c/stdlib.c, and  *)
(* the number conversions of the Userland: a string is a sequence of       *)
(* characters, and NUL is what is found behind its end.  Characters and    *)
(* digits are integers.                                                    *)
(***************************************************************************)
EXTENDS Integers, Sequences, SequencesExt

NUL == 0
At(s, i) == IF i <= Len(s) THEN s[i] ELSE NUL

(* The place where the loops of streql and strcmp stop.                    *)
Stops(s, t, i) == At(s, i) = NUL \/ At(t, i) = NUL \/ At(s, i) # At(t, i)
Stop(s, t) == CHOOSE i \in 1 .. Len(s) + 1 : Stops(s, t, i) /\ \A j \in 1 .. i - 1 : ~Stops(s, t, j)

streqlPrefix(s, t) == At(s, Stop(s, t)) = NUL \/ At(t, Stop(s, t)) = NUL
streql(s, t) == At(s, Stop(s, t)) = At(t, Stop(s, t))
strcmp(s, t) == At(s, Stop(s, t)) - At(t, Stop(s, t))
strlen(s)    == Len(s)

(* intToStrBase writes the low digits first and then reverses them.        *)
LowDigits(value, base) ==
    LET digits[v \in 0 .. value] ==
            IF v < base THEN <<v>> ELSE <<v % base>> \o digits[v \div base]
    IN digits[value]
intToStr(value, base) == Reverse(LowDigits(value, base))

(* printNum: a sign and the digits.                                        *)
Minus == -1
printNum(num) == IF num < 0 THEN <<Minus>> \o intToStr(-num, 10) ELSE intToStr(num, 10)

(* stringToInt, on the digits of a string; the result starts at 0.         *)
stringToInt(str) ==
    LET digits == IF At(str, 1) = Minus THEN Tail(str) ELSE str
        value  == FoldLeft(LAMBDA result, digit : result * 10 + digit, 0, digits)
    IN IF At(str, 1) = Minus THEN -value ELSE value

ipow(base, exp) == FoldLeft(LAMBDA result, one : result * base, 1, [i \in 1 .. exp |-> 1])
decimalDigits(number) ==
    LET digits[n \in 0 .. number] == IF n = 0 THEN 0 ELSE 1 + digits[n \div 10]
    IN IF number = 0 THEN 1 ELSE digits[number]

(* memset and memcpy on a memory, a function from addresses; memcpy goes   *)
(* forward, one after the other.                                           *)
memset(memory, destination, c, length) ==
    [a \in DOMAIN memory |-> IF a \in destination .. destination + length - 1 THEN c ELSE memory[a]]
memcpy(memory, destination, source, length) ==
    FoldLeft(LAMBDA copied, i : [copied EXCEPT ![destination + i - 1] = copied[source + i - 1]],
             memory, [i \in 1 .. length |-> i])
=============================================================================
