------------------------------- MODULE MCArcana -------------------------------
(* Birth dates of a few years, and days around a new year and a leap day. *)
EXTENDS Arcana

MCDates == [d: 1..28, m: 1..12, y: {1999}] \cup [d: {1, 9, 19, 29, 30, 31}, m: {1, 10, 12}, y: {1899, 1985, 2004}]
MCDays == {[d |-> 31, m |-> 12, y |-> 2024], [d |-> 1, m |-> 1, y |-> 2025], [d |-> 28, m |-> 2, y |-> 2025]}
=============================================================================
