-------------------------------- MODULE Shell --------------------------------
(***************************************************************************)
(* The shell, src/kernel/shell.c, between the keyboard and the console:    *)
(* loop reads one key at a time through tty_read, edits input_buf and      *)
(* echoes; analyze_cmd cuts the line into words and obeys.                 *)
(*                                                                         *)
(* printf reaches _putc one character at a time, and a key may come        *)
(* between any two: a character waits in the keyboard's ring (module       *)
(* Keyboard, here a bounded queue, which that module refines), a           *)
(* navigation key scrolls the console at once.                             *)
(***************************************************************************)
EXTENDS Tty, Sequences, Strings

CONSTANTS INPUT,         \* sizeof input_buf, 64
          KBD,           \* characters the keyboard's ring holds
          Typed,         \* keys the user hits
          CLEAR, COLOR,  \* the words of these commands
          ColorArg,      \* the colours by the words that name them
          Outputs,       \* what the other commands print
          MaxKeys        \* bound: keys read from one prompt to the next

NL == "\n"
TABCHAR == "\t"
BS == "\\b"
Prompt_ == <<">", " ">>

ASSUME ShellAssumption ==
    /\ INPUT \in Nat /\ INPUT >= 2 /\ KBD \in Nat \ {0} /\ MaxKeys \in Nat
    /\ Len(Prompt_) + INPUT - 1 < SCREEN_WIDTH    \* 2 + 63 < 80
    /\ ">" \in Chars /\ Chars \cap {NL, TABCHAR, BS} = {}
    /\ Typed \subseteq Chars \cup {" ", NL, TABCHAR, BS} /\ NUL \notin Typed
    /\ Outputs \subseteq Seq(Chars \cup {" ", NL, TABCHAR, BS})
    /\ \A w \in DOMAIN ColorArg : ColorArg[w] \in Colors

VARIABLES
    kbd,        \* characters in the keyboard's ring, oldest first
    input_buf,
    save,       \* s_strtok_save
    words,      \* command and arg of analyze_cmd, as strtok answered them
    pc,         \* "read" in loop, "command" in analyze_cmd, "prompt" behind it
    todo,       \* what the printf under way has still to put
    keys,       \* keys read since the prompt (not in the code)
    plain       \* no tab among them, and the buffer took them all (not in the code)

shell == <<input_buf, save, words, pc, todo, keys, plain>>
vars == <<tty, kbd, shell>>

Buffer == 0..(INPUT - 1)
Cleared == [i \in Buffer |-> NUL]
Delimiters == {" ", "\t", "\r", "\n"}

ShellInit ==
    /\ Init /\ kbd = <<>>
    /\ input_buf = Cleared /\ save = NULL /\ words = <<>>
    /\ pc = "read" /\ todo = Prompt_
    /\ keys = 0 /\ plain = TRUE

-----------------------------------------------------------------------------
(***************************************************************************)
(* The keyboard's interrupt.                                               *)
(***************************************************************************)
KeyIrq(c) ==
    /\ Len(kbd) < KBD
    /\ kbd' = Append(kbd, c)
    /\ UNCHANGED <<tty, shell>>

ScrollIrq == (Scroll \/ ScrollHome \/ ScrollEnd) /\ UNCHANGED <<kbd, shell>>

-----------------------------------------------------------------------------
(***************************************************************************)
(* Output: tty_write, one _putc per step.                                  *)
(***************************************************************************)
putc(t, c) ==
    CASE c = NL -> newline(t)
      [] c = TABCHAR -> tab(t)
      [] c = BS -> backspace(t)
      [] OTHER -> print(t, c)

tty_write ==
    /\ todo # <<>> /\ Room
    /\ tty' = putc(tty, Head(todo))
    /\ todo' = Tail(todo)
    /\ UNCHANGED <<kbd, input_buf, save, words, pc, keys, plain>>

-----------------------------------------------------------------------------
(***************************************************************************)
(* The loop, for the character ch that read has answered.                  *)
(***************************************************************************)
L == strlen(input_buf, 0)

\* analyze_cmd up to the first printf: the first two words.
Enter(ch) ==
    /\ ch = NL
    /\ LET first  == strtok(input_buf, save, 0, Delimiters)
           second == strtok(first.mem, first.save, NULL, Delimiters)
           word(r) == IF r = NULL THEN <<>> ELSE string(second.mem, r)
       IN  /\ input_buf' = second.mem /\ save' = second.save
           /\ words' = <<word(first.ret), word(second.ret)>>
           /\ IF first.ret = NULL THEN pc' = "prompt" /\ todo' = <<>>
                                  ELSE pc' = "command" /\ todo' = <<NL>>
    /\ UNCHANGED <<keys, plain>>

\* Mutant: the echo does not depend on the buffer.
Erase_always(ch) ==
    /\ ch = BS
    /\ input_buf' = IF L > 0 THEN [input_buf EXCEPT ![L - 1] = NUL] ELSE input_buf
    /\ todo' = <<BS, " ", BS>>
    /\ keys' = keys + 1
    /\ UNCHANGED <<save, words, pc, plain>>

Erase(ch) ==
    /\ ch = BS
    /\ IF L > 0 THEN /\ input_buf' = [input_buf EXCEPT ![L - 1] = NUL]
                     /\ todo' = <<BS, " ", BS>>
                ELSE UNCHANGED <<input_buf, todo>>
    /\ keys' = keys + 1
    /\ UNCHANGED <<save, words, pc, plain>>

\* Mutant: the buffer is filled to its last character.
Store_last(ch) ==
    /\ ch \notin {NL, BS}
    /\ input_buf' = IF L < INPUT THEN [input_buf EXCEPT ![L] = ch] ELSE input_buf
    /\ todo' = <<ch>>
    /\ keys' = keys + 1 /\ plain' = (plain /\ ch # TABCHAR /\ L + 1 < INPUT)
    /\ UNCHANGED <<save, words, pc>>

Store(ch) ==
    /\ ch \notin {NL, BS}
    /\ input_buf' = IF L + 1 < INPUT THEN [input_buf EXCEPT ![L] = ch, ![L + 1] = NUL]
                                     ELSE input_buf
    /\ todo' = <<ch>>
    /\ keys' = keys + 1 /\ plain' = (plain /\ ch # TABCHAR /\ L + 1 < INPUT)
    /\ UNCHANGED <<save, words, pc>>

\* Mutant: a character that does not fit is left in the ring.
CanRead_fits == /\ kbd # <<>>
                /\ Head(kbd) = NL \/ (keys < MaxKeys /\ (Head(kbd) = BS \/ L + 1 < INPUT))

CanRead == kbd # <<>> /\ (Head(kbd) = NL \/ keys < MaxKeys)

\* tty_read hands on one character; with none waiting, the loop goes round.
Read ==
    /\ pc = "read" /\ todo = <<>> /\ CanRead
    /\ Enter(Head(kbd)) \/ Erase(Head(kbd)) \/ Store(Head(kbd))
    /\ kbd' = Tail(kbd)
    /\ UNCHANGED tty

\* The rest of analyze_cmd.  color and clear act on the console; the others
\* act on components of their own, print, and may cut more words off the line
\* (outb one, dsk one or three).
cut_more[n \in 0..3] ==
    IF n = 0 THEN [mem |-> input_buf, save |-> save]
    ELSE strtok(cut_more[n - 1].mem, cut_more[n - 1].save, NULL, Delimiters)

Command ==
    /\ pc = "command" /\ todo = <<>>
    /\ \/ /\ words[1] = COLOR
          /\ IF words[2] \in DOMAIN ColorArg
               THEN /\ tty' = [tty EXCEPT !.color = ColorArg[words[2]]]
                    /\ UNCHANGED todo
               ELSE todo' \in Outputs /\ UNCHANGED tty
          /\ UNCHANGED <<input_buf, save>>
       \/ /\ words[1] = CLEAR
          /\ tty' = terminal_clear_screen(tty)
          /\ UNCHANGED <<todo, input_buf, save>>
       \/ /\ words[1] \notin {COLOR, CLEAR}
          /\ todo' \in Outputs
          /\ \E n \in {0, 1, 3} :
               input_buf' = cut_more[n].mem /\ save' = cut_more[n].save
          /\ UNCHANGED tty
    /\ pc' = "prompt"
    /\ UNCHANGED <<kbd, words, keys, plain>>

\* Mutant: the line is not cleared.
Prompt_keeps ==
    /\ pc = "prompt" /\ todo = <<>>
    /\ todo' = <<NL>> \o Prompt_
    /\ words' = <<>> /\ pc' = "read" /\ keys' = 0 /\ plain' = TRUE
    /\ UNCHANGED <<tty, kbd, save, input_buf>>

Prompt ==
    /\ pc = "prompt" /\ todo = <<>>
    /\ input_buf' = memset(input_buf, 0, NUL, INPUT)
    /\ todo' = <<NL>> \o Prompt_
    /\ words' = <<>> /\ pc' = "read" /\ keys' = 0 /\ plain' = TRUE
    /\ UNCHANGED <<tty, kbd, save>>

Loop == tty_write \/ Read \/ Command \/ Prompt

ShellNext == (\E c \in Typed : KeyIrq(c)) \/ ScrollIrq \/ Loop

\* The loop is the main program: it goes on between interrupts.  This is
\* WF_vars(Loop) with ENABLED Loop written out, which TLC evaluates faster.
LoopEnabled ==
    IF todo # <<>> THEN Room ELSE pc # "read" \/ CanRead

Fairness == []<>~LoopEnabled \/ []<><<Loop>>_vars

ShellSpec == ShellInit /\ [][ShellNext]_vars /\ Fairness

-----------------------------------------------------------------------------
ShellTypeOK ==
    /\ tty \in Console /\ tty.x \in Cols
    /\ Len(kbd) <= KBD
    /\ input_buf \in [Buffer -> (Typed \ {NL, BS}) \cup {NUL}]
    /\ \E i \in Buffer : input_buf[i] = NUL      \* strlen stays inside
    /\ save = NULL \/ save \in Buffer
    /\ pc \in {"read", "command", "prompt"}

\* What stands on the caret's line, from the prompt to the caret.
Shown == [i \in 1..(tty.x - Len(Prompt_)) |->
            tty.scrollbuf[ring(caret_line(tty))][Len(Prompt_) + i - 1][1]]

\* The line the user sees is the line the shell will execute: between two
\* keys the caret's line is the prompt and the contents of input_buf, after
\* any typing, erasing, scrolling and clearing.  Not claimed from a tab (its
\* echo has several cells, of which an erase takes one, shell.c:256) or a
\* character the full buffer has not taken (shell.c:264) to the next prompt.
LineShown ==
    pc = "read" /\ todo = <<>> /\ plain =>
      /\ tty.x = Len(Prompt_) + L
      /\ \A i \in 1..Len(Prompt_) :
           tty.scrollbuf[ring(caret_line(tty))][i - 1][1] = Prompt_[i]
      /\ Shown = string(input_buf, 0)
      /\ tty.view_offset = 0 /\ tty.tail_line >= SCREEN_HEIGHT - 1 =>
           tty.screen[tty.y] = tty.scrollbuf[ring(caret_line(tty))]

\* What is executed are the first two words of what is shown.
ExecutesShown ==
    [][pc = "read" /\ pc' # "read" /\ plain =>
         \A n \in {1, 2} :
           words'[n] = IF n <= Len(Words(Shown, Delimiters))
                         THEN Words(Shown, Delimiters)[n] ELSE <<>>]_vars

\* No key waits for ever, whatever the shell is doing and however the user
\* scrolls, unless a bound of the model is reached.
Full == Len(kbd) = KBD
KeysHandled == Full ~> ~Full \/ ~Room \/ keys = MaxKeys
=============================================================================
