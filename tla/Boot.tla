-------------------------------- MODULE Boot --------------------------------
(***************************************************************************)
(* From the files of the build to the first process: ModulePacker puts     *)
(* kernel and modules in one image (Toolchain/ModulePacker/main.c), the    *)
(* kernel copies each module to its address and clears its BSS             *)
(* (moduleLoader.c, KERNEL.c), builds the stack of a process out of its    *)
(* arguments (process.c), and loads it (interrupts.asm); init.d clears its *)
(* own BSS, and SongPlayer reads what songmaker.c wrote.                   *)
(*                                                                         *)
(* Memory is a function from addresses to cells; a cell is a word, and the *)
(* kernel is loaded at address 0.                                          *)
(***************************************************************************)
EXTENDS Media

CONSTANTS
    Kernel,             \* the cells of kernel.bin
    endOfKernel,        \* its end, BSS included
    ModuleAddr,         \* CODE_MODULE_ADDR, DATA_MODULE_ADDR, DATA_MODULE_IMG_ADDR
    endOfBinary,        \* the end of userland.bin, BSS included
    STACK_POSITION, PAGE_SIZE, KernelPages,  \* the pages, and how many the kernel takes for itself
    WIDTH, HEIGHT,      \* of the screen, in pixels
    UserCodes, SongBooks, Images,            \* what the files may hold
    ArgVectors,         \* the arguments a process may get
    Numbers,            \* the numbers that are printed
    WordSize            \* characters in a word

(* Everything has its place: the image ends before the first module's, each*)
(* module before the next one's, and the pages begin behind the last.      *)
write_size(file) == <<Len(file)>>
buildImage(modules) ==
    Kernel \o <<Len(modules)>> \o FlattenSeq([i \in DOMAIN modules |-> write_size(modules[i]) \o modules[i]])

MemoryEnd == STACK_POSITION + (KernelPages + 1) * PAGE_SIZE
endOfKernelBinary == Len(Kernel)
Files == {<<code, Compiled(songs), Written(img)>> : code \in UserCodes, songs \in SongBooks, img \in Images}

(* A string as the stack holds it, in words, with a NUL at least behind it.*)
(* What fills up the last word behind the NUL is never read, and 0 here.   *)
Words(s) == (strlen(s) + 1 + WordSize - 1) \div WordSize
Word(s, w) == FoldRight(LAMBDA k, word : At(s, (w - 1) * WordSize + k) + 256 * word, [k \in 1 .. WordSize |-> k], 0)
InWords(s) == [w \in 1 .. Words(s) |-> Word(s, w)]
StringWords(arguments) == FlattenSeq([i \in DOMAIN arguments |-> InWords(arguments[i])])

ASSUME CellsAssumption ==
    /\ Kernel \in Seq(Int) /\ UserCodes \subseteq Seq(Int) /\ Numbers \subseteq Int
    /\ ModuleAddr \in Seq(Nat) /\ Len(ModuleAddr) = 3 /\ WordSize \in Nat \ {0}
    /\ {endOfKernel, endOfBinary, STACK_POSITION, PAGE_SIZE, KernelPages, WIDTH, HEIGHT} \subseteq Nat
ASSUME DataAssumption ==
    /\ \A songs \in SongBooks :
          /\ songs \in Seq(Seq(Note)) /\ Len(songs) <= 127
          /\ \A s \in DOMAIN songs : Len(songs[s]) \in 1 .. 127
    /\ \A img \in Images : img \in Image /\ Len(img.pixels) = img.width * img.height
ASSUME LayoutAssumption ==
    /\ endOfKernelBinary < endOfKernel /\ endOfKernel <= ModuleAddr[1]
    /\ \A modules \in Files :
          /\ Len(buildImage(modules)) <= ModuleAddr[1]
          /\ Len(modules[1]) <= endOfBinary - ModuleAddr[1] /\ endOfBinary <= ModuleAddr[2]
          /\ ModuleAddr[2] + Len(modules[2]) <= ModuleAddr[3]
          /\ ModuleAddr[3] + Len(modules[3]) <= STACK_POSITION

(* The arguments come from the terminal's line of 256 characters, and fit a*)
(* page of 512 words with the 24 words of the frame and the two nulls.     *)
ASSUME ArgumentsAssumption ==
    \A args \in ArgVectors :
       /\ args \in Seq(Seq(1 .. 255)) /\ args # <<>>
       /\ 24 + Len(args) + 1 + Len(StringWords(args)) + 1 <= PAGE_SIZE

VARIABLES
    stage,          \* how far the machine is
    songs, image, modules, args, number,    \* what there is on this run, fixed
    memory,
    currentModule, moduleCount, loaded,     \* of loadModules
    userStackTop, argv,                     \* of initializeStack
    regs                                    \* what the first process finds
vars == <<stage, songs, image, modules, args, number, memory, currentModule, moduleCount, loaded, userStackTop, argv, regs>>
inputs == <<songs, image, modules, args, number>>
loader == <<currentModule, moduleCount, loaded>>
process == <<userStackTop, argv, regs>>

Garbage == -2
Loaded(file) ==
    [a \in 0 .. MemoryEnd - 1 |-> IF a < Len(file) THEN file[a + 1] ELSE Garbage]

Init ==
    /\ stage = "loadModules" /\ songs \in SongBooks /\ image \in Images /\ args \in ArgVectors /\ number \in Numbers
    /\ \E code \in UserCodes : modules = <<code, Compiled(songs), Written(image)>>
    /\ memory = Loaded(buildImage(modules))
    /\ currentModule = endOfKernelBinary + 1 /\ moduleCount = memory[endOfKernelBinary] /\ loaded = 0
    /\ userStackTop = 0 /\ argv = 0 /\ regs = <<>>

(* loadModule: its size, and then its cells, to the address of its number. *)
LoadModuleAtSize ==
    /\ stage = "loadModules" /\ loaded < moduleCount
    /\ memory' = memcpy(memory, ModuleAddr[loaded + 1], currentModule, memory[currentModule])
    /\ currentModule' = currentModule + 1 + memory[currentModule]
    /\ loaded' = loaded + 1
    /\ UNCHANGED <<stage, inputs, moduleCount, process>>
LoadModule ==
    /\ stage = "loadModules" /\ loaded < moduleCount
    /\ memory' = memcpy(memory, ModuleAddr[loaded + 1], currentModule + 1, memory[currentModule])
    /\ currentModule' = currentModule + 1 + memory[currentModule]
    /\ loaded' = loaded + 1
    /\ UNCHANGED <<stage, inputs, moduleCount, process>>

(* clearBSS, over what is left of the image too.                           *)
bssSizeOfBinary == endOfKernel - endOfKernelBinary - 1
bssSize == endOfKernel - endOfKernelBinary
ClearBSS ==
    /\ stage = "loadModules" /\ loaded = moduleCount /\ stage' = "kernel_main"
    /\ memory' = memset(memory, endOfKernelBinary, 0, bssSize)
    /\ UNCHANGED <<inputs, loader, process>>

(* kernel_main takes pages for its tables and its own stacks, and the next *)
(* one is the stack of the first process.                                  *)
StackPage == STACK_POSITION + KernelPages * PAGE_SIZE
KernelMain ==
    /\ stage = "kernel_main" /\ stage' = "addProcess"
    /\ userStackTop' = StackPage + PAGE_SIZE
    /\ UNCHANGED <<inputs, memory, loader, argv, regs>>

-----------------------------------------------------------------------------
(* initializeStack: everything is pushed, so the words in the order of their*)
(* addresses are those of the pushes from the last to the first.           *)
Strings == StringWords(args) \o <<0>>
StringsAt == userStackTop - Len(Strings)
PointerTo(i) == StringsAt + Len(StringWords(SubSeq(args, 1, i - 1)))
Pointers == [i \in DOMAIN args |-> PointerTo(i)] \o <<0>>
ArgvAt == StringsAt - Len(Pointers)

Entry == ModuleAddr[1]
Zeros(n) == [i \in 1 .. n |-> 0]
ReturnAndRBP == Zeros(2)
RSP == ArgvAt - Len(ReturnAndRBP)
InterruptFrame == <<Entry, 8, 514, RSP, 0>>     \* RIP, CS, RFLAGS, RSP, SS
RegistersSwapped == Zeros(10) \o <<Len(args), ArgvAt>> \o Zeros(5)
Registers == Zeros(10) \o <<ArgvAt, Len(args)>> \o Zeros(5)

Pushed == Registers \o InterruptFrame \o ReturnAndRBP \o Pointers \o Strings
InitializeStack ==
    /\ stage = "addProcess" /\ stage' = "dispatch"
    /\ userStackTop' = userStackTop - Len(Pushed)
    /\ memory' = [a \in DOMAIN memory |->
                    IF a \in userStackTop' .. userStackTop - 1 THEN Pushed[a - userStackTop' + 1] ELSE memory[a]]
    /\ argv' = ArgvAt
    /\ UNCHANGED <<inputs, loader, regs>>

(* loadState pops gs, fs, r15 to r8, rsi, rdi, rbp, rdx, rcx, rbx and rax, *)
(* and iretq the rest.                                                     *)
Popped(n) == memory[userStackTop + n]
Dispatch ==
    /\ stage = "dispatch" /\ stage' = "init_d"
    /\ regs' = [rsi |-> Popped(10), rdi |-> Popped(11), rip |-> Popped(17), rsp |-> Popped(20)]
    /\ UNCHANGED <<inputs, memory, loader, userStackTop, argv>>

(* init_d, at the start of the code module, clears the BSS of the Userland.*)
bss == ModuleAddr[1] + Len(modules[1])
init_d ==
    /\ stage = "init_d" /\ stage' = "running"
    /\ memory' = memset(memory, bss, 0, endOfBinary - bss)
    /\ UNCHANGED <<inputs, loader, process>>

Running == stage = "running" /\ UNCHANGED vars
Next == LoadModule \/ ClearBSS \/ KernelMain \/ InitializeStack \/ Dispatch \/ init_d \/ Running
Spec == Init /\ [][Next]_vars

-----------------------------------------------------------------------------
(* What the programs find in the two modules of data.                      *)
SongsAt == ModuleAddr[2]
ImageAt == ModuleAddr[3]
-----------------------------------------------------------------------------
(* Every module is at its address as it was in its file, from the moment it*)
(* is loaded: neither the modules behind it, nor the clearing of the two   *)
(* BSS, nor the stack of the first process write over it.                  *)
ModulesArrive ==
    \A i \in 1 .. loaded : \A c \in DOMAIN modules[i] : memory[ModuleAddr[i] + c - 1] = modules[i][c]

(* The kernel starts with its code whole and its BSS zero, and so does the *)
(* Userland.                                                               *)
StartsClean ==
    /\ \A a \in 0 .. endOfKernelBinary - 1 : memory[a] = Kernel[a + 1]
    /\ stage # "loadModules" => \A a \in endOfKernelBinary .. endOfKernel - 1 : memory[a] = 0
    /\ stage = "running" => \A a \in bss .. endOfBinary - 1 : memory[a] = 0

MachineIsReady == ModulesArrive /\ StartsClean

(* The first process starts at its entry point with argc and argv where the*)
(* calling convention wants them, argv ends with a null, its pointers lead *)
(* to the arguments, and its stack keeps within its page.                  *)
CharFrom(a, i) == (memory[a + (i - 1) \div WordSize] \div ipow(256, (i - 1) % WordSize)) % 256
StringIsAt(a, s) == (\A i \in DOMAIN s : CharFrom(a, i) = s[i]) /\ CharFrom(a, Len(s) + 1) = NUL
FirstProcessStarts ==
    regs # <<>> =>
       /\ regs.rip = Entry /\ regs.rdi = Len(args)
       /\ \A i \in DOMAIN args : StringIsAt(memory[regs.rsi + i - 1], args[i])
       /\ memory[regs.rsi + Len(args)] = 0
       /\ regs.rsp < regs.rsi /\ userStackTop >= StackPage

(* SongPlayer reads every song as songmaker was given it, and the speaker  *)
(* sounds within a hundredth of every note's frequency.                    *)
SongsArePlayed ==
    stage = "running" =>
       /\ songMaxNum(memory, SongsAt) = Len(songs)
       /\ \A k \in DOMAIN songs :
             /\ playSong(memory, SongsAt, k) = songs[k]
             /\ \A i \in DOMAIN songs[k] :
                   LET freq == songs[k][i].freq IN
                   playSound(freq) - freq \in -(freq \div 100 + 1) .. freq \div 100 + 1

(* The image is painted as its pixels one by one in their colours would be,*)
(* wherever it is put, as long as the right edge of the screen does not cut*)
(* it.                                                                     *)
Black == <<0, 0, 0>>
Blank == [p \in (0 .. WIDTH - 1) \X (0 .. HEIGHT - 1) |-> Black]
OneByOne(x, y) ==
    FoldLeft(LAMBDA screen, k : paintColorPixel(screen, x + ((k - 1) % image.width), y + ((k - 1) \div image.width), image.pixels[k]),
             Blank, [k \in DOMAIN image.pixels |-> k])
ImageIsPainted ==
    stage = "running" =>
       \A x \in 0 .. WIDTH - image.width, y \in 0 .. HEIGHT :
          paintImg(Blank, memory, ImageAt, x, y) = OneByOne(x, y)

(* So the programs play and paint what was put into the build.             *)
DataIsUsed == SongsArePlayed /\ ImageIsPainted

(* The library on the arguments and a number: streql is equality, strcmp is*)
(* 0 for equal strings only and changes its sign when they are swapped,    *)
(* what printNum prints is read back, and its digits are as many as        *)
(* decimalDigits says.                                                     *)
Abs(n) == IF n < 0 THEN -n ELSE n
LibraryAgrees ==
    /\ \A i, j \in DOMAIN args :
          /\ streql(args[i], args[j]) <=> args[i] = args[j]
          /\ strcmp(args[i], args[j]) = 0 <=> args[i] = args[j]
          /\ strcmp(args[i], args[j]) = -strcmp(args[j], args[i])
    /\ stringToInt(printNum(number)) = number
    /\ Len(intToStr(Abs(number), 10)) = decimalDigits(Abs(number))
    /\ ipow(10, decimalDigits(Abs(number))) > Abs(number)
    /\ number # 0 => ipow(10, decimalDigits(Abs(number)) - 1) <= Abs(number)
=============================================================================
