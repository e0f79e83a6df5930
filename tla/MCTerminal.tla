----------------------------- MODULE MCTerminal -----------------------------
(* Terminal with two processes that print lines of one and two characters. *)
EXTENDS Terminal, TLC

CONSTANTS w1, w2
Lines == (w1 :> {<<"a", "A", Newline>>}) @@ (w2 :> {<<"b", Newline>>})
Anywhere == Points \ {"drain"}               \* but between test and dequeue of a flush
OutsideFlush == Points \ {"flush", "drain"}  \* no key in the middle of a flush
=============================================================================
