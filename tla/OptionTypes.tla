---------------------------- MODULE OptionTypes ----------------------------
(***************************************************************************)
(* The values of options (m_option.c): what the text of a flag, a number, a *)
(* time, a size or a string is read as, what a value is printed as, and the *)
(* sub-options that one text may hold.                                      *)
(*                                                                         *)
(* A text is a sequence of characters.  A number is <<numerator,            *)
(* denominator>>; a denominator of 0 is what C calls infinite or not a      *)
(* number.  An option is [type, min, max], min and max being Unlimited or   *)
(* an integer.  A result is [r, v]: r is 1, or 0 for one of the codes       *)
(* below zero (M_OPT_INVALID, M_OPT_MISSING_PARAM, M_OPT_OUT_OF_RANGE).      *)
(***************************************************************************)
EXTENDS Integers, Sequences, SequencesExt, FiniteSetsExt

IntHalf == 128        \* an int holds -128..127 here, not -2^31..2^31-1
Decimals == 2         \* %f prints two places here, not six
Unlimited == 1000000  \* for a limit that is not set
Nopts == <<-1, 0>>    \* MP_NOPTS_VALUE

Digit == <<"0", "1", "2", "3", "4", "5", "6", "7", "8", "9">>
DigitOf == [c \in Range(Digit) |-> CHOOSE d \in 0..9 : Digit[d + 1] = c]
Hex == DigitOf @@ ("a" :> 10 @@ "f" :> 15)
Refused == [r |-> 0, v |-> <<0, 1>>]
Read(v) == [r |-> 1, v |-> v]

-----------------------------------------------------------------------------
(* What the C library makes of the start of a text, and how much of it.     *)

\* The longest start of text from position i on that is in the set
Span(text, i, set) ==
    LET end == Min({n \in i..Len(text) + 1 : n = Len(text) + 1 \/ text[n] \notin set})
    IN SubSeq(text, i, end - 1)
Value(digits, base) == FoldLeft(LAMBDA v, c : v * base + Hex[c], 0, digits)
Pow(b, n) == FoldLeft(LAMBDA v, i : v * b, 1, [i \in 1..n |-> i])
Sign(text) == IF text # <<>> /\ text[1] \in {"-", "+"} THEN 1 ELSE 0
Signed(text, n) == IF text # <<>> /\ text[1] = "-" THEN -n ELSE n

Rest(text, len) == SubSeq(text, len + 1, Len(text))
At(text, i, set) == i <= Len(text) /\ text[i] \in set

\* strtoll(): [v, len], len = 0 when there is no number
Integer(text, base, from, digits) ==
    IF digits = <<>> THEN [v |-> 0, len |-> 0]
    ELSE [v |-> Signed(text, Value(digits, base)), len |-> from - 1 + Len(digits)]
IsHex(text, s) == At(text, s + 1, {"0"}) /\ At(text, s + 2, {"x"}) /\ At(text, s + 3, DOMAIN Hex)
strtoll(text, base) ==
    IF base = 0 /\ IsHex(text, Sign(text)) THEN Integer(text, 16, Sign(text) + 3, Span(text, Sign(text) + 3, DOMAIN Hex))
    ELSE Integer(text, 10, Sign(text) + 1, Span(text, Sign(text) + 1, Range(Digit)))
\* strtod(): digits, and perhaps a point and more of them
Decimal(text, whole, len, part) ==
    IF whole = <<>> /\ part = <<>> THEN [v |-> <<0, 1>>, len |-> 0]
    ELSE [v |-> <<Signed(text, Value(whole \o part, 10)), Pow(10, Len(part))>>, len |-> len + Len(part)]
Pointed(text, whole, point) ==
    IF At(text, point, {"."}) THEN Decimal(text, whole, point, Span(text, point + 1, Range(Digit)))
    ELSE Decimal(text, whole, point - 1, <<>>)
Real(text, whole) == Pointed(text, whole, Sign(text) + Len(whole) + 1)
strtod(text) == Real(text, Span(text, Sign(text) + 1, Range(Digit)))

Plus(a, b) == <<a[1] * b[2] + b[1] * a[2], a[2] * b[2]>>
Over(a, b) == IF b[1] < 0 THEN <<-a[1] * b[2], -a[2] * b[1]>> ELSE <<a[1] * b[2], a[2] * b[1]>>
Times(n, a) == <<n * a[1], a[2]>>
Same(a, b) == a[1] * b[2] = b[1] * a[2] /\ (a[2] = 0) = (b[2] = 0)

-----------------------------------------------------------------------------
(* The types.                                                               *)

\* Infinity is more than every limit; 0/0 is neither more nor less than any
Within(opt, v) ==
    /\ opt.min # Unlimited => ~(v[1] < opt.min * v[2])
    /\ opt.max # Unlimited => ~(v[1] > opt.max * v[2])
Checked(opt, v) == IF Within(opt, v) THEN Read(v) ELSE Refused
Truncated(n) == ((n + IntHalf) % (2 * IntHalf)) - IntHalf
\* Seeded error: the limits are those of what is left when the number has been cut to an int.
Cut(opt, text, n) ==
    IF n.len < Len(text) \/ ~Within(opt, <<Truncated(n.v), 1>>) THEN Refused ELSE Read(<<n.v, 1>>)
parse_int_cut(opt, text) == Cut(opt, text, strtoll(text, 0))
\* A number in base 10, or as C writes numbers when that leaves something
Whole(opt, text, n) ==
    IF n.len < Len(text) \/ ~Within(opt, <<n.v, 1>>) THEN Refused ELSE Read(<<Truncated(n.v), 1>>)
parse_int(opt, text) ==
    Whole(opt, text, strtoll(text, IF strtoll(text, 10).len < Len(text) THEN 0 ELSE 10))
\* sscanf() with a second conversion that must not find anything
parse_position(opt, text) ==
    IF strtoll(text, 10).len \in {0} \cup 0..Len(text) - 1 THEN Refused ELSE Checked(opt, <<strtoll(text, 10).v, 1>>)
\* A number, a ratio of two, or one with a comma for a point
Comma(a, part) == IF a[1] < 0 THEN Plus(a, Times(-1, part)) ELSE Plus(a, part)
Second(opt, a, rest, b) ==
    IF b.len < Len(rest) - 1 THEN Refused
    ELSE IF rest[1] \in {":", "/"} THEN Checked(opt, Over(a, b.v))
    ELSE IF rest[1] \in {".", ","} THEN Checked(opt, Comma(a, Over(b.v, <<Pow(10, Len(rest) - 1), 1>>)))
    ELSE Refused
First(opt, text, a) ==
    IF a.len = Len(text) THEN Checked(opt, a.v) ELSE Second(opt, a.v, Rest(text, a.len), strtod(Rest(text, a.len + 1)))
parse_double(opt, text) == First(opt, text, strtod(text))
YesWords == {"yes", "on", "ja", "si", "igen", "y", "j", "i", "tak", "true", "1"}
NoWords == {"no", "off", "nein", "nicht", "nem", "n", "nie", "nej", "false", "0"}
\* A flag is a word, taken as a text of one character; on the command line there is none
parse_flag(opt, text, in_file) ==
    IF ~in_file THEN [r |-> 1, v |-> <<opt.max, 1>>]
    ELSE IF Len(text) # 1 THEN Refused
    ELSE IF text[1] \in YesWords THEN Read(<<opt.max, 1>>)
    ELSE IF text[1] \in NoWords THEN Read(<<opt.min, 1>>) ELSE Refused
parse_str(opt, text) ==
    IF Within(opt, <<Len(text), 1>>) THEN [r |-> 1, v |-> text] ELSE Refused

\* h:m:s, m:s or s, the last of which may have decimals: what was read, and how much of the text
Seconds(text, s) ==
    IF s.len > 0 THEN s
    ELSE IF text = <<"nopts">> THEN [v |-> Nopts, len |-> 1] ELSE [v |-> <<0, 1>>, len |-> 0]
After(n, units, s) == [v |-> Plus(<<units, 1>>, s.v), len |-> n + s.len]
MinuteSecond(text, m, s) ==
    IF s.len > 0 THEN After(m.len + 1, 60 * m.v, s) ELSE Seconds(text, strtod(text))
HourMinuteSecond(text, h, m, s) ==
    IF s.len > 0 THEN After(h.len + m.len + 2, 3600 * h.v + 60 * m.v, s)
    ELSE MinuteSecond(text, h, strtod(Rest(text, h.len + 1)))
Minutes(text, one, two) ==
    IF two.len > 0 /\ At(text, one.len + two.len + 2, {":"})
    THEN HourMinuteSecond(text, one, two, strtod(Rest(text, one.len + two.len + 2)))
    ELSE MinuteSecond(text, one, strtod(Rest(text, one.len + 1)))
Hours(text, one) ==
    IF one.len > 0 /\ At(text, one.len + 1, {":"}) THEN Minutes(text, one, strtoll(Rest(text, one.len + 1), 10))
    ELSE Seconds(text, strtod(text))
parse_timestring(text) == Hours(text, strtoll(text, 10))
\* No limit is looked at
WholeTime(text, t) == IF t.len = 0 \/ t.len < Len(text) THEN Refused ELSE Read(t.v)
parse_time(text) == WholeTime(text, parse_timestring(text))
Units == << <<"b">>, <<"k", "b">>, <<"m", "b">>, <<"g", "b">> >>
\* An end: a number of bytes in units of 1024, or a time, the fraction of either dropped
UnitOf(rest) == SubSeq(rest, 1, Min({3, Len(rest)}))
SizeIn(a, unit) == [r |-> 1, v |-> <<"size", (a.v[1] * Pow(1024, (CHOOSE i \in DOMAIN Units : Units[i] = unit) - 1)) \div a.v[2]>>]
TimeOnly(t) == IF t.r = 1 THEN [r |-> 1, v |-> <<"time", t.v[1] \div t.v[2]>>] ELSE Refused
SizeOrTime(text, a) ==
    IF a.len > 0 /\ UnitOf(Rest(text, a.len)) \in Range(Units) THEN SizeIn(a, UnitOf(Rest(text, a.len)))
    ELSE TimeOnly(parse_time(text))
parse_time_size(text) == SizeOrTime(text, strtod(text))

-----------------------------------------------------------------------------
(* Printing.                                                                *)

DigitsOf(n, count) == [i \in 1..count |-> Digit[((n \div Pow(10, count - i)) % 10) + 1]]
Digits(n) == DigitsOf(n, Min({k \in 1..9 : n < Pow(10, k)}))
print_int(n) == IF n < 0 THEN <<"-">> \o Digits(-n) ELSE Digits(n)
Places(n) == Digits(n \div Pow(10, Decimals)) \o <<".">> \o Tail(Digits(Pow(10, Decimals) + (n % Pow(10, Decimals))))
print_double(v) ==
    (IF v[1] < 0 THEN <<"-">> ELSE <<>>) \o Places(((IF v[1] < 0 THEN -v[1] ELSE v[1]) * Pow(10, Decimals)) \div v[2])
print_flag(opt, v) == IF v[1] = opt.min THEN <<"no">> ELSE <<"yes">>

m_option_parse(opt, text) ==
    CASE opt.type = "int" -> parse_int(opt, text)
      [] opt.type \in {"float", "double"} -> parse_double(opt, text)
      [] opt.type = "position" -> parse_position(opt, text)
      [] opt.type = "time" -> parse_time(text)
      [] opt.type = "flag" -> parse_flag(opt, text, TRUE)
m_option_print(opt, v) ==
    CASE opt.type \in {"int", "position"} -> print_int(v[1])
      [] opt.type \in {"float", "double", "time"} -> print_double(v)
      [] opt.type = "flag" -> print_flag(opt, v)

-----------------------------------------------------------------------------
(* Sub-options: name, name=value, name="value" or name=%length%value, with  *)
(* ":" between them (parse_subconf).                                        *)

\* The value at the start of a text: [ok, v, rest]
QuotedAs(t, v) == [ok |-> Len(v) + 1 < Len(t), v |-> v, rest |-> Rest(t, Len(v) + 2)]
Quoted(t) == QuotedAs(t, Span(t, 2, Range(t) \ {"q"}))
CountedAs(n, then) ==
    IF At(then, 1, {"%"}) /\ n \in 0..Len(then) - 1
    THEN [ok |-> TRUE, v |-> SubSeq(then, 2, n + 1), rest |-> Rest(then, n + 1)]
    ELSE [ok |-> FALSE, v |-> <<>>, rest |-> then]
Counted(t) == CountedAs(strtoll(Tail(t), 0).v, Rest(t, strtoll(Tail(t), 0).len + 1))
PlainValue(t) == LET v == Span(t, 1, Range(t) \ {":"}) IN [ok |-> TRUE, v |-> v, rest |-> Rest(t, Len(v))]
ValueOf(t) ==
    IF t = <<>> THEN [ok |-> TRUE, v |-> <<>>, rest |-> <<>>]
    ELSE IF t[1] = "q" THEN Quoted(t)
    ELSE IF t[1] = "%" THEN Counted(t) ELSE PlainValue(t)
\* What the next sub-option is; an option that takes a value is refused without one
Taken(st, name, val, needs_value) ==
    IF /\ val.ok /\ (val.rest = <<>> \/ val.rest[1] = ":")
       /\ name \in DOMAIN needs_value /\ (needs_value[name] => val.v # <<>>)
    THEN [r |-> 1, rest |-> IF val.rest = <<>> THEN <<>> ELSE Tail(val.rest), list |-> Append(st.list, <<name, val.v>>)]
    ELSE [st EXCEPT !.r = 0]
AfterName(after) == IF At(after, 1, {"="}) THEN ValueOf(Tail(after)) ELSE [ok |-> TRUE, v |-> <<>>, rest |-> after]
SubOptionNamed(st, name, needs_value) == Taken(st, name, AfterName(Rest(st.rest, Len(name))), needs_value)
SubOption(st, needs_value) == SubOptionNamed(st, Span(st.rest, 1, Range(st.rest) \ {":", "="}), needs_value)
AllOrNothing(text, end) == IF text = <<>> \/ end.r = 0 THEN [r |-> 0, list |-> <<>>] ELSE [r |-> 1, list |-> end.list]
\* The pairs found, and whether all was well; those before a mistake are lost with it
parse_subconf(text, needs_value) ==
    AllOrNothing(text, FoldLeft(LAMBDA st, c : IF st.r = 0 \/ st.rest = <<>> THEN st ELSE SubOption(st, needs_value),
                                [r |-> 1, rest |-> text, list |-> <<>>], text))

-----------------------------------------------------------------------------
(* What the code promises.                                                  *)

\* What is printed for a value is read back as the value, by every type that can be set by name: as
\* the documentation of M_PROPERTY_TO_STRING has it, the string is a parsable representation.
PrintedReadBack(opt, v) ==
    LET back == m_option_parse(opt, m_option_print(opt, v))
    IN back.r = 1 /\ Same(back.v, v)

\* Nothing outside the limits of its option gets in, in whatever base, as a ratio, with a comma or
\* with zeros in front; without limits a number too large for an int becomes another one.
NothingOutside(opt, text) ==
    LET got == m_option_parse(opt, text)
    IN got.r = 1 /\ got.v[2] # 0 =>
         /\ opt.min # Unlimited => got.v[1] >= opt.min * got.v[2]
         /\ opt.max # Unlimited => got.v[1] <= opt.max * got.v[2]

\* A number means the same to every type that takes it: with a comma what it means with a point, and
\* as a time its number of seconds.  The comma is left out where it counts for more: between -1 and 0
\* the sign is lost ("-0,5" is half a second late and not early).
CommaAsPoint(digits, parts) ==
    LET opt  == [type |-> "double", min |-> Unlimited, max |-> Unlimited]
        with(c) == parse_double(opt, digits \o <<c>> \o parts)
    IN ~(digits[1] = "-" /\ Value(Tail(digits), 10) = 0) =>
         with(",").r = 1 /\ Same(with(",").v, with(".").v)

\* Hours, minutes and seconds are a time wherever there are two colons or one, and the same number of
\* seconds as a plain number; whatever follows makes it no time at all.
TimeTold(h, m, s, junk) ==
    LET text == Digits(h) \o <<":">> \o Digits(m) \o <<":">> \o Digits(s)
        short == Digits(60 * h + m) \o <<":">> \o Digits(s)
        whole == <<3600 * h + 60 * m + s, 1>>
    IN /\ parse_time(text) = Read(whole) /\ parse_time(short) = Read(whole)
       /\ Same(parse_time(Digits(whole[1])).v, whole)
       /\ parse_time(text \o junk).r = 0 /\ parse_time(short \o junk).r = 0
       /\ parse_time_size(text) = [r |-> 1, v |-> <<"time", whole[1]>>]
\* One unit is 1024 of the one before
SizeTold(n) ==
    \A k \in 2..4 : parse_time_size(Digits(n) \o Units[k]) = parse_time_size(Digits(1024 * n) \o Units[k - 1])

\* Sub-options that are written so that they can be told apart are told apart.
Written(item) ==
    item.name \o
    CASE item.form = "no value" -> <<>>
      [] item.form = "plain" -> <<"=">> \o item.value
      [] item.form = "quoted" -> <<"=", "q">> \o item.value \o <<"q">>
      [] item.form = "counted" -> <<"=", "%">> \o Digits(Len(item.value)) \o <<"%">> \o item.value
Together(items) == FoldLeft(LAMBDA text, n : text \o (IF n = 1 THEN <<>> ELSE <<":">>) \o Written(items[n]), <<>>, [n \in DOMAIN items |-> n])
SubOptionsRead(items, needs_value) ==
    parse_subconf(Together(items), needs_value) = [r |-> 1, list |-> [n \in DOMAIN items |-> <<items[n].name, items[n].value>>]]
=============================================================================
