------------------------------ MODULE Console ------------------------------
(***************************************************************************)
(* The command line: uart_gets of io/uart.c, ucli.c and the programs of    *)
(* app/selftest/cli_programs.c, up to the calls they make into the drivers *)
(* and the numbers that debug_printf shows of what those return; the words *)
(* around them, and what the built-in tests print, are left out.           *)
(*                                                                         *)
(* The line is an array of characters that stays where it is from one      *)
(* command to the next, like the array of pointers into it: what an        *)
(* earlier command has left there is still there.  A character is a string *)
(* and may stand for a whole name, which is thus one character long.       *)
(*                                                                         *)
(* A definition marked "Fault" is a wrong version of one further down; the *)
(* specification does not use it.                                          *)
(***************************************************************************)
EXTENDS DebugPrintf

CONSTANTS
    BufferSize,     \* UCLI_BUFFER_SIZE
    MaxArgc,        \* UCLI_MAX_ARGC
    Lines,          \* what is typed before Enter: sequences of keys
    Numbers,        \* words that strtoul takes for a number, and their values
    ByteValues,     \* values of a uint8_t
    Addresses,      \* addresses that `i2c scan' tries
    ChunkSize,      \* sizeof(buf) in prog_sf
    Data,           \* values of a byte that is read
    Times,          \* values of time()
    Readings,       \* values of adc_read
    Results         \* what a driver may return, 0 for success
ASSUME ConsoleAssumption ==
    /\ BufferSize \in Nat \ {0} /\ MaxArgc \in Nat \ {0}
    /\ ChunkSize \in Nat \ {0}
    /\ ByteValues \in 1 .. Word /\ Addresses \in 0 .. ByteValues
    /\ \A word \in DOMAIN Numbers : Numbers[word] \in Nat
    /\ Data \subseteq 0 .. ByteValues - 1
    /\ Times \subseteq 0 .. Word - 1 /\ Readings \subseteq 0 .. Word - 1
    /\ Results \subseteq 0 .. Word - 1

NUL == "NUL"
Space == " "
Erase == "BS"

(* A keyboard has no NUL; uart_gets would store it, and the line end there. *)
ASSUME LinesAssumption == Lines \subseteq Seq(STRING \ {NUL})

VARIABLES
    pc,         \* "prompt", "gets", "tokenize", "dispatch", "loop" (a program
                \*   until q is typed) or "rpc" (urpc_server never returns)
    typed,      \* keys still to come before Enter
    i, buf,     \* of uart_gets
    argv, argc,
    probed,     \* sf.spi is not NULL
    did,        \* driver calls of the latest command
    printed,    \* numbers that the latest command, or the latest round of a
                \*   loop, has printed: value, conversion, text
    wraps,      \* how the build negates the most negative number
    screen,     \* history: the terminal's line, and its cursor
    dropped     \* history: a character did not fit into the line

line == <<typed, i, buf>>
effects == <<probed, did, printed>>
vars == <<pc, line, argv, argc, effects, wraps, screen, dropped>>

Places == 0 .. BufferSize - 1

Init ==
    /\ pc = "prompt" /\ typed = <<>>
    /\ i = 0 /\ buf = [p \in Places |-> NUL]
    /\ argv = [k \in 0 .. MaxArgc - 1 |-> 0] /\ argc = 0
    /\ probed = FALSE /\ did = <<>>
    /\ printed = <<>>
    /\ wraps \in BOOLEAN
    /\ screen = [cells |-> <<>>, cursor |-> 0] /\ dropped = FALSE
----------------------------------------------------------------------------
(* The terminal: what uart_putc shows.                                      *)

(* The cursor moves left; the character under it stays.                     *)
MovedLeft == [screen EXCEPT !.cursor = @ - 1]

Overwritten(c) ==
    [cells |-> Append(SubSeq(screen.cells, 1, screen.cursor), c) \o
               SubSeq(screen.cells, screen.cursor + 2, Len(screen.cells)),
     cursor |-> screen.cursor + 1]
----------------------------------------------------------------------------
(* uart_gets, with echo.                                                    *)

Prompt ==
    /\ pc = "prompt"
    /\ pc' = "gets"
    /\ typed' \in Lines
    /\ i' = 0
    /\ did' = <<>> /\ printed' = <<>>
    /\ screen' = [cells |-> <<>>, cursor |-> 0] /\ dropped' = FALSE
    /\ UNCHANGED <<buf, argv, argc, probed, wraps>>

GetErase ==
    /\ pc = "gets" /\ typed # <<>> /\ Head(typed) = Erase
    /\ typed' = Tail(typed)
    /\ IF i = 0 THEN UNCHANGED <<i, screen>> ELSE i' = i - 1 /\ screen' = MovedLeft
    /\ UNCHANGED <<pc, buf, argv, argc, effects, wraps, dropped>>

(* Fault: no place is kept for the NUL.                                     *)
FitsTight == i < BufferSize

Fits == i < BufferSize - 1

GetCharacter ==
    /\ pc = "gets" /\ typed # <<>> /\ Head(typed) # Erase
    /\ typed' = Tail(typed)
    /\ IF Fits
       THEN i' = i + 1 /\ buf' = [buf EXCEPT ![i] = Head(typed)] /\ UNCHANGED dropped
       ELSE dropped' = TRUE /\ UNCHANGED <<i, buf>>
    /\ screen' = Overwritten(Head(typed))
    /\ UNCHANGED <<pc, argv, argc, effects, wraps>>

(* Enter.                                                                   *)
GetNewline ==
    /\ pc = "gets" /\ typed = <<>>
    /\ pc' = "tokenize"
    /\ buf' = [buf EXCEPT ![i] = NUL]
    /\ UNCHANGED <<typed, i, argv, argc, effects, wraps, screen, dropped>>
----------------------------------------------------------------------------
(* cmd_tokenize: strtok cuts the line where it is.                          *)

(* The string that begins at a place.                                       *)
StringAt(p) ==
    LET end == CHOOSE q \in p .. BufferSize :
                  /\ q = BufferSize \/ buf[q] = NUL
                  /\ \A r \in p .. q - 1 : buf[r] # NUL
    IN  [k \in 1 .. end - p |-> buf[p + k - 1]]

Begins(p) ==
    /\ p < Len(StringAt(0)) /\ buf[p] # Space
    /\ p > 0 => buf[p - 1] = Space
Starts == {p \in Places : Begins(p)}
Rank(p) == Cardinality({q \in Starts : q < p})

(* strtok is called once more than there is room for tokens.                *)
CutAfter(p) ==
    /\ buf[p] = Space /\ p > 0 /\ p < Len(StringAt(0)) /\ buf[p - 1] # Space
    /\ \E q \in Starts : q < p /\ Rank(q) <= MaxArgc
                         /\ \A r \in q .. p - 1 : buf[r] # Space

Tokenize ==
    /\ pc = "tokenize"
    /\ pc' = "dispatch"
    /\ argc' = IF Cardinality(Starts) < MaxArgc THEN Cardinality(Starts) ELSE MaxArgc
    /\ argv' = [k \in DOMAIN argv |->
                   IF k < argc' THEN CHOOSE p \in Starts : Rank(p) = k ELSE argv[k]]
    /\ buf' = [p \in Places |-> IF CutAfter(p) THEN NUL ELSE buf[p]]
    /\ UNCHANGED <<typed, i, effects, wraps, screen, dropped>>
----------------------------------------------------------------------------
(* The programs: the driver calls they make, as a function of argc, of the  *)
(* string that each argv[k] points to, and of sf.spi.                       *)

Is(string, name) == string = <<name>>
Number(string) ==
    IF Len(string) = 1 /\ string[1] \in DOMAIN Numbers THEN Numbers[string[1]] ELSE 0
Byte(string) == Number(string) % ByteValues

Tests == {"uart", "spi", "spi_flash", "i2c", "mcp23008", "bmw_ui"}

prog_test(n, arg) ==
    IF n < 2 THEN <<"usage">>
    ELSE IF \E t \in Tests : Is(arg[1], t) THEN <<"test", arg[1], "uart_flush">>
    ELSE <<"uart_flush">>

(* Fault: one argument is enough.                                           *)
prog_led_short(n, arg) ==
    IF n < 2 THEN <<"usage">>
    ELSE IF Number(arg[2]) \notin 1 .. 4 THEN <<"invalid">>
    ELSE IF Is(arg[1], "on") THEN <<"bmw_ui_led_on", Number(arg[2])>>
    ELSE IF Is(arg[1], "off") THEN <<"bmw_ui_led_off", Number(arg[2])>>
    ELSE <<"invalid">>

prog_led(n, arg) ==
    IF n < 3 THEN <<"usage">>
    ELSE IF Number(arg[2]) \notin 1 .. 4 THEN <<"invalid">>
    ELSE IF Is(arg[1], "on") THEN <<"bmw_ui_led_on", Number(arg[2])>>
    ELSE IF Is(arg[1], "off") THEN <<"bmw_ui_led_off", Number(arg[2])>>
    ELSE <<"invalid">>

(* spi_flash_read in pieces of the buffer.                                  *)
Pieces(address, length) ==
    [k \in 1 .. (length + ChunkSize - 1) \div ChunkSize |->
        <<"spi_flash_read", (address + (k - 1) * ChunkSize) % Word,
          IF length - (k - 1) * ChunkSize < ChunkSize
          THEN length - (k - 1) * ChunkSize ELSE ChunkSize>>]

Length(n, arg) == IF n > 3 THEN Number(arg[3]) ELSE ChunkSize

prog_sf(n, arg, spi) ==
    LET address == IF n > 2 THEN Number(arg[2]) ELSE 0
    IN  IF n < 2 THEN <<"usage">>
        ELSE IF Is(arg[1], "probe") THEN <<"spi_flash_probe">>
        ELSE IF Is(arg[1], "read") /\ spi THEN Pieces(address, Length(n, arg))
        ELSE <<"invalid">>

prog_i2c(n, arg) ==
    IF n < 2 THEN <<"usage">>
    ELSE IF Is(arg[1], "scan") THEN [k \in 1 .. Addresses |-> <<"i2c_detect", k - 1>>]
    ELSE IF Is(arg[1], "detect") /\ n >= 3 THEN <<"i2c_detect", Byte(arg[2])>>
    ELSE IF Is(arg[1], "read") /\ n >= 4
         THEN <<"i2c_reg_read", Byte(arg[2]), Byte(arg[3])>>
    ELSE IF Is(arg[1], "write") /\ n >= 5
         THEN <<"i2c_reg_write", Byte(arg[2]), Byte(arg[3]), Byte(arg[4])>>
    ELSE <<"missing">>

Calls(n, arg, spi) ==
    CASE n = 0 -> <<>>
      [] n > 0 /\ Is(arg[0], "test") -> prog_test(n, arg)
      [] n > 0 /\ Is(arg[0], "led") -> prog_led(n, arg)
      [] n > 0 /\ Is(arg[0], "sf") -> prog_sf(n, arg, spi)
      [] n > 0 /\ Is(arg[0], "i2c") -> prog_i2c(n, arg)
      [] n > 0 /\ arg[0] \in {<<"help">>, <<"version">>, <<"time">>, <<"buttons">>,
                              <<"adc">>, <<"rpc_server">>} -> arg[0]
      [] OTHER -> <<"unknown program">>
----------------------------------------------------------------------------
(* cmd_dispatch: the strings are read where argv points.                    *)

Strings == [k \in DOMAIN argv |-> StringAt(argv[k])]
Runs(name) == argc > 0 /\ Is(StringAt(argv[0]), name)

Dispatched ==
    /\ pc = "dispatch"
    /\ did' = Calls(argc, Strings, probed)
    /\ UNCHANGED <<line, argv, argc, wraps, screen, dropped>>

(* A program that was given a first argument, and so many in all.           *)
Asks(name, n) == argc >= n /\ Is(StringAt(argv[1]), name)

Formats == [d |-> <<"%", "d">>, b |-> <<"%", "b">>,
            u |-> <<"%", "0", "5", "u">>, x |-> <<"%", "0", "2", "x">>]
Text(conversion, value) == debug_printf(Formats[conversion], <<value>>, wraps)

Shown(conversion, value) ==
    [value |-> value, conversion |-> conversion, text |-> Text(conversion, value)]
Each(conversion, values) == [k \in DOMAIN values |-> Shown(conversion, values[k])]

(* A conversion that is given no argument takes whatever word it finds.     *)
Unpassed(value, found) ==
    [value |-> value, conversion |-> "unpassed", text |-> Text("x", found)]

(* The programs that print no number.                                       *)
RunQuick ==
    /\ Dispatched
    /\ ~\E name \in {"time", "buttons", "adc", "rpc_server", "sf", "i2c"} : Runs(name)
    /\ pc' = "prompt"
    /\ UNCHANGED <<probed, printed>>

RunTime ==
    /\ Dispatched /\ Runs("time")
    /\ pc' = "prompt"
    /\ \E t \in Times : printed' = Each("d", <<t>>)
    /\ UNCHANGED probed

(* The probe may fail; it then leaves sf.spi = NULL.                        *)
RunProbe ==
    /\ Dispatched /\ Runs("sf") /\ Asks("probe", 2)
    /\ pc' = "prompt"
    /\ \E ret \in Results : probed' = (ret = 0) /\ printed' = Each("d", <<ret>>)

RunRead ==
    /\ Dispatched /\ Runs("sf") /\ ~Asks("probe", 2)
    /\ pc' = "prompt"
    /\ LET length == IF Asks("read", 2) /\ probed THEN Length(argc, Strings) ELSE 0
       IN  \E bytes \in [1 .. length -> Data] : printed' = Each("x", bytes)
    /\ UNCHANGED probed

(* i2c scan: the addresses that answered, in order.                         *)
Scanned(found) == \A k \in DOMAIN found : k > 1 => found[k - 1] < found[k]

RunScan ==
    /\ Asks("scan", 2)
    /\ \E n \in 0 .. Addresses : \E found \in [1 .. n -> 0 .. Addresses - 1] :
          Scanned(found) /\ printed' = Each("x", found)

(* The message of a failed i2c detect has a place for the address, and no   *)
(* argument for it.                                                         *)
RunDetect ==
    /\ Asks("detect", 3)
    /\ \/ \E ret \in Results \ {0}, found \in 0 .. Word - 1 :
             printed' = <<Shown("d", ret), Unpassed(Byte(StringAt(argv[2])), found)>>
       \/ /\ 0 \in Results
          /\ printed' = <<Shown("d", 0), Shown("x", Byte(StringAt(argv[2])))>>

RunRegister ==
    /\ Asks("read", 4)
    /\ \/ \E ret \in Results \ {0} : printed' = <<Shown("d", ret)>>
       \/ /\ 0 \in Results
          /\ \E data \in Data :
                printed' = <<Shown("d", 0), Shown("x", Byte(StringAt(argv[3]))),
                             Shown("x", data)>>

RunI2C ==
    /\ Dispatched /\ Runs("i2c")
    /\ pc' = "prompt"
    /\ \/ RunScan \/ RunDetect \/ RunRegister
       \/ ~Asks("scan", 2) /\ ~Asks("detect", 3) /\ ~Asks("read", 4) /\ UNCHANGED printed
    /\ UNCHANGED probed

RunLoop ==
    /\ Dispatched /\ (Runs("buttons") \/ Runs("adc"))
    /\ pc' = "loop"
    /\ UNCHANGED <<probed, printed>>

(* One round of prog_buttons or prog_adc; a key may have come meanwhile.    *)
Loop ==
    /\ pc = "loop"
    /\ \/ Runs("adc") /\ \E uval \in [1 .. 5 -> Readings] : printed' = Each("u", uval)
       \/ Runs("buttons") /\ \E state \in [1 .. 4 -> {0, 1}] : printed' = Each("b", state)
    /\ pc' \in {"loop", "prompt"}
    /\ UNCHANGED <<line, argv, argc, probed, did, wraps, screen, dropped>>

RunServer ==
    /\ Dispatched /\ Runs("rpc_server")
    /\ pc' = "rpc"
    /\ UNCHANGED <<probed, printed>>

Next ==
    \/ Prompt \/ GetErase \/ GetCharacter \/ GetNewline \/ Tokenize
    \/ RunQuick \/ RunTime \/ RunProbe \/ RunRead \/ RunI2C \/ RunLoop \/ Loop \/ RunServer

Spec == Init /\ [][Next]_vars
----------------------------------------------------------------------------
(* The words a person reads on the screen left of the cursor: a character   *)
(* after a space begins one, a character after another makes it longer.     *)
WordsShown ==
    LET cells == screen.cells
        words[k \in 0 .. screen.cursor] ==
            IF k = 0 THEN <<>>
            ELSE LET before == words[k - 1]
                 IN  IF cells[k] = Space THEN before
                     ELSE IF k = 1 \/ cells[k - 1] = Space THEN Append(before, <<cells[k]>>)
                     ELSE Append(Front(before), Append(Last(before), cells[k]))
    IN  words[screen.cursor]

(* What a program would do if it saw these words and nothing else.          *)
Meaning(words, spi) ==
    LET n == IF Len(words) < MaxArgc THEN Len(words) ELSE MaxArgc
    IN  Calls(n, [k \in 0 .. MaxArgc - 1 |->
                     IF k < n THEN words[k + 1] ELSE <<"not typed">>], spi)

(* The drivers are called for what the screen shows, and for nothing else:  *)
(* no word that was erased, none that an earlier command has left in the    *)
(* line or in argv.  Only a line longer than the buffer is different, since *)
(* what is dropped is still echoed (uart.c:75-110, ucli.c:7-52,             *)
(* cli_programs.c).                                                         *)
ScreenIsCommand ==
    [][Dispatched /\ ~dropped => did' = Meaning(WordsShown, probed)]_vars

(* Whatever is typed, the line ends inside of its buffer (uart.c:102, 109). *)
LineInBuffer ==
    /\ i \in Places
    /\ pc \in {"tokenize", "dispatch"} => \E p \in Places : buf[p] = NUL

(* Every number on the screen reads as the value it stands for, in its      *)
(* radix, with its sign and padded to its width: times, results, registers, *)
(* addresses and data of every program.  Two are excepted: the most         *)
(* negative one, whose negation overflows, and the one whose argument is    *)
(* missing, of which AddressShown speaks (debug.c:11-44, 82-127,            *)
(* cli_programs.c:90-251).                                                  *)
ReadsAs(text, conversion, value) ==
    CASE conversion = "d" ->
            value # MostNegative => SignedNumberIn(text, 10) = Signed(value)
      [] conversion = "b" -> NumberIn(text, 2) = value
      [] conversion = "u" -> NumberIn(text, 10) = value /\ Len(text) >= 5
      [] conversion = "x" -> NumberIn(text, 16) = value /\ Len(text) >= 2

NumbersPrinted ==
    \A k \in DOMAIN printed :
        printed[k].conversion # "unpassed" =>
            /\ printed[k].text # <<>>
            /\ ReadsAs(printed[k].text, printed[k].conversion, printed[k].value)

(* The message about a failed i2c detect, "detect 0x%02x failure"           *)
(* (cli_programs.c:218), shows the address, as that about a successful one  *)
(* does (cli_programs.c:216).                                               *)
AddressShown ==
    \A k \in DOMAIN printed :
        printed[k].conversion = "unpassed" =>
            ReadsAs(printed[k].text, "x", printed[k].value)
============================================================================
