------------------------------- MODULE MCBoot -------------------------------
(* Model checking of Boot: a kernel of three cells, modules of a few, two to*)
(* three characters to a word, arguments that end at, before and behind the*)
(* end of a word.                                                          *)
EXTENDS Boot
MCKernel == <<11, 12, 13>>
MCModuleAddr == <<310, 316, 580>>
MCUserCodes == {<<21>>, <<21, 22, 23>>}
N(f, d) == [freq |-> f, duration |-> d]
TrackSong(n) == [i \in 1 .. n |-> N(IF i % 4 = 0 THEN 0 ELSE 31 + 60 * i, 55 + i)]
MCSongBooks == {<<<<N(261, 55)>>, <<N(4978, 7), N(0, 110)>>>>,
                [s \in 1 .. 3 |-> TrackSong(Tracks[s])]}
MCImages == {[width |-> 0, height |-> 0, pixels |-> <<>>],
             [width |-> 2, height |-> 2,
              pixels |-> <<<<1, 2, 3>>, <<4, 5, 6>>, <<7, 8, 9>>, <<10, 11, 12>>>>]}
MCStrings == {<<>>, <<1>>, <<1, 2>>, <<1, 2, 1>>}
MCArgVectors == {<<s>> : s \in MCStrings} \cup ({<<1>>, <<1, 2>>} \X MCStrings)
MCNumbers == {-120, -9, 0, 7, 10, 99, 1000}
=============================================================================
