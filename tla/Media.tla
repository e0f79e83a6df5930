------------------------------- MODULE Media -------------------------------
(***************************************************************************)
(* The two files of data the system carries: the songs, which songmaker.c  *)
(* writes and SongPlayer and the speaker turn into sound, and the image,   *)
(* which imageWriter.c writes and the game paints.  Writers are operators  *)
(* that give the cells of a file; readers find them in a memory, from an   *)
(* address on.  A cell is a word of the songs, or a byte of a pixel.       *)
(***************************************************************************)
EXTENDS Strings, FiniteSets

(* The songs of songmaker.c: how many notes each has, and the frequencies  *)
(* they are made of, from NOTE_B0 to NOTE_DS8; 0 is a rest.                *)
Tracks      == <<62, 49, 15>>
Frequencies == {0} \cup 31 .. 4978
Note        == [freq : Frequencies, duration : Nat]

(* The file: the number of songs, and the notes of each.                   *)
Compiled(songs) ==
    <<Len(songs)>> \o FlattenSeq([s \in DOMAIN songs |->
        <<Len(songs[s])>> \o FlattenSeq([n \in DOMAIN songs[s] |-> <<songs[s][n].freq, songs[s][n].duration>>])])

(* playSong skips the songs before the one it plays.  Every number of songs*)
(* and of notes is read through a char, which is signed.                   *)
SignedChar(n) == IF n % 256 > 127 THEN (n % 256) - 256 ELSE n % 256
songMaxNum(memory, file) == SignedChar(memory[file])

(* Mutant of songData: half of every note is skipped.                      *)
songDataShort(memory, file, k) ==
    LET data[s \in 1 .. k] == IF s = 1 THEN file + 1
                              ELSE data[s - 1] + 1 + SignedChar(memory[data[s - 1]])
    IN data[k]
songData(memory, file, k) ==
    LET data[s \in 1 .. k] == IF s = 1 THEN file + 1
                              ELSE data[s - 1] + 1 + 2 * SignedChar(memory[data[s - 1]])
    IN data[k]

(* The notes as they come to playSound; a frequency has 16 bits.           *)
playSong(memory, file, k) ==
    LET data == songData(memory, file, k) IN
    [i \in 1 .. SignedChar(memory[data]) |->
        [freq |-> memory[data + 2 * i - 1] % 65536, duration |-> memory[data + 2 * i]]]

(* playSound gives the timer a divisor of two bytes, and the speaker sounds*)
(* at the timer's frequency, or is off.                                    *)
Timer == 1193180
Divisor(freq)   == (Timer \div freq) % 65536
playSound(freq) == IF freq = 0 THEN 0 ELSE Timer \div Divisor(freq)

-----------------------------------------------------------------------------
(* An image is its size and the red, green and blue of its pixels, by rows.*)
Image == [width : Nat, height : Nat, pixels : Seq((0 .. 255) \X (0 .. 255) \X (0 .. 255))]

(* The file imageWriter makes of it.                                       *)
Written(img) == <<img.width, img.height>> \o FlattenSeq(img.pixels)

(* The screen is width by height pixels; each has three bytes: blue, green *)
(* and red.                                                                *)
findPixel(screen, x, y) == <<x, y>> \in DOMAIN screen

hexToBGR(rgb) == <<rgb[3], rgb[2], rgb[1]>>
paintColorPixel(screen, x, y, rgb) ==
    IF findPixel(screen, x, y) THEN [screen EXCEPT ![<<x, y>>] = hexToBGR(rgb)] ELSE screen

(* paintImg, on an image in memory: only pixels it paints use up data.     *)
paintImg(screen, memory, img, x, y) ==
    LET Inside(row, col) == findPixel(screen, x + col, y + row)
        PaintedBefore(row, col) ==
            {rc \in (0 .. row) \X (0 .. memory[img] - 1) :
                Inside(rc[1], rc[2]) /\ (rc[1] < row \/ rc[2] < col)}
        Data(row, col) == img + 2 + 3 * Cardinality(PaintedBefore(row, col))
    IN IF ~findPixel(screen, x, y) THEN screen
       ELSE [p \in DOMAIN screen |->
               LET col == p[1] - x
                   row == p[2] - y
               IN IF col \in 0 .. memory[img] - 1 /\ row \in 0 .. memory[img + 1] - 1
                  THEN <<memory[Data(row, col) + 2], memory[Data(row, col) + 1], memory[Data(row, col)]>>
                  ELSE screen[p]]
=============================================================================
