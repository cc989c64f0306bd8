------------------------------ MODULE MCEntries ------------------------------
(* Instances of Entries for TLC. *)
EXTENDS Entries

NumberOf(type, number, introduced) ==
  [type |-> type, introduced |-> introduced, argument |-> number, deprecated |-> NoVersion]
ValuesOf(values, introduced, deprecated) ==
  [type |-> "VALUE", introduced |-> introduced, argument |-> values, deprecated |-> deprecated]
Default(value, introduced) == [value |-> value, introduced |-> introduced]

First == <<1, 0>>
Second == <<1, 1>>

\* Two allowed values in the first version, one of them in the second.
Number == [kind |-> "NUMBER", deprecated |-> NoVersion,
           defaults |-> <<Default(1, First), Default(2, Second)>>,
           restrictions |-> <<ValuesOf({1, 2}, First, Second), ValuesOf({2}, Second, NoVersion)>>]

\* At least one in the first version, two in the second.
Growing == [Number EXCEPT !.restrictions =
              @ \o <<NumberOf("MAX", 2, First), NumberOf("MIN", 2, Second)>>]

\* The default is not the allowed value, one entry at least.
Wrong == [Number EXCEPT !.defaults = <<Default(2, First)>>,
                        !.restrictions = <<ValuesOf({1}, First, NoVersion)>>]

\* An enum that has a value in the second version only.
Enum == [kind |-> "ENUM", deprecated |-> NoVersion, defaults |-> <<Default(1, First)>>,
         restrictions |-> <<ValuesOf({1}, Second, NoVersion), NumberOf("MIN", 0, First)>>]

\* A section that is gone in the second version.
Section == [kind |-> "SECTION", deprecated |-> Second, defaults |-> <<Default(1, First)>>,
            restrictions |-> <<NumberOf("MIN", 0, First), NumberOf("MAX", 2, First)>>]

AllMolds == {<<Number, Section>>, <<Growing, Enum>>, <<Wrong, Number>>}
\* One is later than the mold.
Versions3 == {First, Second, <<2, 0>>}
Late == Second
=============================================================================
