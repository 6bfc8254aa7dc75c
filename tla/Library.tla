------------------------------ MODULE Library ------------------------------
(***************************************************************************)
(* Code that is a function of its input: vsnprintf and itoa (sys/lib/      *)
(* string), how acpi_query finds a table (sys/acpi/acpi.c), and how long   *)
(* hpet_msleep waits (sys/dev/clkdev/hpet.c).  One call is one step: call  *)
(* holds its arguments and result, once it has returned, its value.        *)
(*                                                                         *)
(* A C string is a sequence of characters without its terminating zero.  A *)
(* format is memory from its first character on: a sequence of items, each *)
(* a literal character or a conversion with the digits of its width and    *)
(* its argument, up to the zero (an item "end"), and then whatever is      *)
(* behind it.                                                              *)
(***************************************************************************)
EXTENDS Integers, SequencesExt

CONSTANTS Bits,        \* width of an integer: 64 in the code
          FEMTOS,      \* femtoseconds in a millisecond, 10^12
          Calls,       \* the calls to make
          Nil

ASSUME LibraryAssumption ==
  /\ Bits \in Nat /\ Bits % 4 = 0 /\ FEMTOS \in Nat
  /\ {2^Bits, 2^(Bits \div 2)} \subseteq Nat \ {0}

(* hpet_init panics on a clock whose period is 0.                          *)
ASSUME CallsAssumption ==
  \A c \in Calls \ {Nil} :
    /\ c.op = "hpet_msleep" =>
         /\ {c.counter, c.elapsed, c.period, c.ms} \subseteq Nat
         /\ c.period > 0 /\ c.hpet_enabled \in BOOLEAN
    /\ c.op = "acpi_query" =>
         LET tables == c.root.tables
         IN  /\ c.root.revision \in Nat /\ Len(tables) \in Nat /\ DOMAIN tables = 1 .. Len(tables)
             /\ \A i \in DOMAIN tables : tables[i] # Nil
             /\ c.root.low # Nil

VARIABLES call, result

libraryVars == <<call, result>>

Wrap(v) == ((v + 2^(Bits - 1)) % 2^Bits) - 2^(Bits - 1)
Least == -(2^(Bits - 1))
-----------------------------------------------------------------------------
ascii_nums == <<"0", "1", "2", "3", "4", "5", "6", "7", "8", "9",
                "A", "B", "C", "D", "E", "F">>

(* The digits of n as the loops of itoa produce them, the lowest first;    *)
(* nothing for zero and below.                                             *)
LowFirst(n, base) ==
  LET digits[k \in Int] ==
        IF k <= 0 THEN <<>> ELSE <<ascii_nums[(k % base) + 1]>> \o digits[k \div base]
  IN  digits[n]

(* value *= -1 wraps for the least integer.                                *)
itoa_base10_convert(v) ==
  IF v = 0 THEN <<"0">>
  ELSE IF v > 0 THEN Reverse(LowFirst(v, 10))
  ELSE Reverse(Append(LowFirst(Wrap(-v), 10), "-"))

(* Two digits at least, behind "0x".                                       *)
itoa_convert_base16(n) ==
  LET pad == IF n < 16 THEN <<"0">> ELSE <<>>
  IN  IF n = 0 THEN <<"0", "x", "0", "0">>
      ELSE Reverse(LowFirst(n, 16) \o pad \o <<"x", "0">>)

printc(buf, size, c) == IF Len(buf) < size - 1 THEN Append(buf, c) ELSE buf

Cut(s, n) == SubSeq(s, 1, Min({n, Len(s)}))

(* printstr without room for the zero.                                     *)
printstr_Late(buf, size, s) == buf \o Cut(s, size - Len(buf))

printstr(buf, size, s) == buf \o Cut(s, size - 1 - Len(buf))

(* printc of n zeros, one after the other.                                 *)
Zeros(buf, size, n) == buf \o Cut([i \in 1 .. n |-> "0"], size - 1 - Len(buf))

(* One literal or conversion: nothing once the buffer is full.  The digits *)
(* of "%0N" go to a width that only %d uses up.  A conversion it does not  *)
(* know ("other") prints nothing; after a '%' that is the last character   *)
(* ("trail") it has skipped the zero and reads on.                         *)
Convert(st, size, item) ==
  LET width == FoldLeft(LAMBDA w, digit : (w * 10 + digit) % 256, st.pad_width, item.pad)
      num == IF item.conv = "d" THEN itoa_base10_convert(item.arg)
             ELSE itoa_convert_base16(item.arg % 2^Bits)
      digits == SubSeq(num, 3, Len(num))
      prefix == printc(printc(st.buf, size, "0"), size, "x")
      Printed(buf, w) == [st EXCEPT !.buf = buf, !.ended = TRUE, !.pad_width = w]
  IN  IF st.returned \/ Len(st.buf) >= size - 1 THEN st
      ELSE CASE item.conv = "end" -> [st EXCEPT !.returned = TRUE]
             [] item.conv \in {"other", "trail"} -> [st EXCEPT !.pad_width = width]
             [] item.conv \in {"literal", "c"} -> Printed(printc(st.buf, size, item.arg), width)
             [] item.conv = "s" -> Printed(printstr(st.buf, size, item.arg), width)
             [] item.conv = "d" ->
                  Printed(printstr(Zeros(st.buf, size, width - Len(num)), size, num), 0)
             [] item.conv = "x" -> Printed(printstr(st.buf, size, digits), width)
             [] item.conv = "p" ->
                  Printed(printstr(Zeros(prefix, size, Bits \div 4 + 2 - Len(num)), size, digits),
                          width)

(* The text, and whether a zero was written behind it: printc and printstr *)
(* do so, the function itself does not.  (The callers drop its result.)    *)
vsnprintf(size, fmt) ==
  LET blank == [buf |-> <<>>, ended |-> FALSE, pad_width |-> 0, returned |-> FALSE]
      last == FoldLeft(LAMBDA st, item : Convert(st, size, item), blank, fmt)
  IN  [text |-> last.buf, ended |-> last.ended]
-----------------------------------------------------------------------------
(* acpi_init: as many entries as the root table has, whose entries are 4   *)
(* bytes wide in an RSDT and 8 in an XSDT.  acpi_query reads them as 32    *)
(* bits either way, so half of what it sees of an XSDT are upper halves of *)
(* addresses, here 0, where it finds what low says.                        *)
Seen(root) ==
  IF root.revision > 1
  THEN [i \in DOMAIN root.tables |-> IF i % 2 = 0 THEN root.low ELSE root.tables[(i + 1) \div 2]]
  ELSE root.tables

(* acpi_query without the checksum.                                        *)
acpi_query_Any(root, s) ==
  LET hits == {i \in DOMAIN Seen(root) : Seen(root)[i].signature = s}
  IN  IF hits = {} THEN Nil ELSE Seen(root)[Min(hits)]

acpi_query(root, s) ==
  LET hits == {i \in DOMAIN Seen(root) : Seen(root)[i].signature = s}
      hdr == Seen(root)[Min(hits)]
  IN  IF hits # {} /\ hdr.checksum = 0 THEN hdr ELSE Nil
-----------------------------------------------------------------------------
(* A write of 32 of the register's 64 bits.                                *)
hpet_writeq(reg, val) ==
  LET half == 2^(Bits \div 2) IN (reg \div half) * half + (val % half)

(* hpet_sleep that does not add to the counter.                            *)
hpet_sleep_FromZero(counter, period, n, units) ==
  LET ticks == (n * (units \div period)) % 2^Bits
  IN  IF counter < ticks THEN ticks - counter ELSE 0

(* How many ticks the loop waits.  The sum may wrap, and then it does not. *)
hpet_sleep(counter, period, n, units) ==
  LET ticks == (counter + n * (units \div period)) % 2^Bits
  IN  IF counter < ticks THEN ticks - counter ELSE 0

(* The counter was cleared by hpet_init as far as the write reaches, and   *)
(* has counted since.                                                      *)
CounterNow(c) == (hpet_writeq(c.counter, 0) + c.elapsed) % 2^Bits

hpet_msleep(c) ==
  IF c.hpet_enabled THEN hpet_sleep(CounterNow(c), c.period, c.ms, FEMTOS) ELSE 0
-----------------------------------------------------------------------------
LibraryInit == call \in Calls /\ result = <<>>

Answer(c) ==
  CASE c.op = "vsnprintf" -> vsnprintf(c.size, c.fmt)
    [] c.op = "acpi_query" -> acpi_query(c.root, c.s)
    [] c.op = "hpet_msleep" -> hpet_msleep(c)

Run ==
  /\ call # Nil /\ result = <<>>
  /\ result' = <<Answer(call)>>
  /\ UNCHANGED call

LibrarySpec == LibraryInit /\ [][Run]_libraryVars
-----------------------------------------------------------------------------
Returned(op) == result # <<>> /\ call.op = op
value == result[1]

(* What a text of digits, with or without a sign, says.                    *)
Denotes(text, base) ==
  LET digit(c) == (CHOOSE i \in 1 .. 16 : ascii_nums[i] = c) - 1
      magnitude(s) == FoldLeft(LAMBDA v, c : v * base + digit(c), 0, s)
  IN  IF text # <<>> /\ Head(text) = "-" THEN -magnitude(Tail(text)) ELSE magnitude(text)

(* The items of the format itself, and what one of them prints alone.      *)
Items(fmt) == SubSeq(fmt, 1, Min({i \in DOMAIN fmt : fmt[i].conv \in {"end", "trail"}}) - 1)
Alone(item) == vsnprintf(100, <<item>>).text

(* FormatExact: what vsnprintf leaves in the buffer fits with its zero,    *)
(* which is there unless nothing was printed, and is the conversions one   *)
(* after the other, cut off at the end of the buffer; a number that was    *)
(* not cut off reads as its argument in its least number of digits or its  *)
(* width.  Excepted are formats that end in '%', widths that are left to a *)
(* later %d, and the least integer.                                        *)
FormatExact ==
  Returned("vsnprintf") =>
    LET items == Items(call.fmt)
        ranOn == \E i \in DOMAIN call.fmt : call.fmt[i].conv = "trail"
        leftOver == \E i \in DOMAIN items : items[i].pad # <<>> /\ items[i].conv # "d"
        whole == FlattenSeq([i \in DOMAIN items |-> Alone(items[i])])
    IN  /\ Len(value.text) <= call.size - 1
        /\ value.ended \/ call.size = 1 \/ whole = <<>>
        /\ ~ranOn /\ ~leftOver => value.text = Cut(whole, call.size - 1)
        /\ \A i \in DOMAIN items :
             LET item == items[i]
                 text == Alone(item)
             IN  /\ item.conv = "d" /\ item.arg # Least /\ item.pad = <<>> =>
                      /\ Denotes(text, 10) = item.arg
                      /\ Head(text) = "0" => text = <<"0">>
                 /\ item.conv = "d" /\ item.arg >= 0 /\ item.pad # <<>> =>
                      Denotes(text, 10) = item.arg /\ Len(text) >= item.pad[1]
                 /\ item.conv = "x" => Denotes(text, 16) = item.arg % 2^Bits /\ Len(text) >= 2
                 /\ item.conv = "p" =>
                      /\ Len(text) = Bits \div 4 + 2
                      /\ Denotes(SubSeq(text, 3, Len(text)), 16) = item.arg % 2^Bits

(* TextEnded: as POSIX has it, whatever the format there is a zero behind  *)
(* the text.  Violated: vsnprintf returns without one from an empty format *)
(* or with a buffer of one byte.                                           *)
TextEnded == Returned("vsnprintf") => value.ended

(* WidthOwn: as POSIX has it, the text is that of the conversions, each    *)
(* with its own width.  Violated: a width before %x waits for the next %d. *)
WidthOwn ==
  Returned("vsnprintf") =>
    LET items == Items(call.fmt)
    IN  Len(items) + 1 \in DOMAIN call.fmt /\ call.fmt[Len(items) + 1].conv = "end" =>
          value.text = Cut(FlattenSeq([i \in DOMAIN items |-> Alone(items[i])]), call.size - 1)

(* LeastPrinted: itoa converts every integer.  Violated: the least one     *)
(* stays negative when it is negated, and comes out as a sign.             *)
LeastPrinted ==
  Returned("vsnprintf") =>
    \A i \in DOMAIN Items(call.fmt) :
      LET item == call.fmt[i]
      IN  item.conv = "d" /\ item.pad = <<>> => Denotes(Alone(item), 10) = item.arg

(* QueryFound: acpi_query returns a table with the signature and a correct *)
(* checksum that the firmware lists, or of an XSDT one it found at address *)
(* 0, or nothing; of an RSDT it never misses one that is the first with    *)
(* its signature.                                                          *)
QueryFound ==
  Returned("acpi_query") =>
    LET same == {i \in DOMAIN call.root.tables : call.root.tables[i].signature = call.s}
        valid == {i \in same : call.root.tables[i].checksum = 0}
    IN  /\ value # Nil =>
             \/ \E i \in valid : value = call.root.tables[i]
             \/ /\ call.root.revision > 1 /\ value = call.root.low
                /\ value.signature = call.s /\ value.checksum = 0
        /\ call.root.revision < 2 /\ same # {} /\ Min(same) \in valid
             => value = call.root.tables[Min(same)]

(* SleepExact: hpet_msleep never waits longer than it is asked to, and if  *)
(* the clock is on and its counter, whose upper half hpet_init does not    *)
(* clear, does not wrap within that time, it waits shorter by less than    *)
(* one clock period for each millisecond.                                  *)
SleepExact ==
  Returned("hpet_msleep") =>
    LET asked == call.ms * FEMTOS
        due == call.ms * (FEMTOS \div call.period)
    IN  /\ value * call.period <= asked
        /\ call.hpet_enabled /\ CounterNow(call) + due < 2^Bits /\ call.ms > 0 =>
             value * call.period > asked - call.ms * call.period

(* SleepLasts: once the clock is on, hpet_msleep sleeps for the            *)
(* milliseconds it is given, but for less than a clock period each, if the *)
(* counter is wide enough to count them.  Violated: when the counter is    *)
(* about to wrap the sum does, and the loop ends at once.                  *)
SleepLasts ==
  Returned("hpet_msleep") =>
    LET due == call.ms * (FEMTOS \div call.period)
    IN  call.hpet_enabled /\ due < 2^Bits /\ call.ms > 0 =>
          value * call.period > call.ms * FEMTOS - call.ms * call.period
=============================================================================
