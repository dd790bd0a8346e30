-------------------------- MODULE MCSettingsWatch ---------------------------
(* Small contents for SettingsWatch.  Balance is the test suite's          *)
(* main_balance; Note is Balance re-saved under another note, which changes*)
(* the bytes and no value; Void is what a truncating save leaves behind.   *)
EXTENDS SettingsWatchProperties

CONSTANTS NotToml, AlsoNotToml

Entry(value, note) == [value |-> value, unit |-> "usd", note |-> note]
Only(name, table) == [f \in {name} |-> table]

Balance == Only("main_balance", Entry("1000.0", "a"))
Note    == Only("main_balance", Entry("1000.0", "b"))
Raised  == [f \in {"main_balance", "leverage"} |->
              IF f = "leverage" THEN Entry("3", "a") ELSE Entry("2500.0", "a")]
Blank   == Only("main_balance", Entry("", "a"))
Void    == [f \in {} |-> BareValue]
Bare    == Only("main_balance", BareValue)
Unitless == Only("main_balance", [value |-> "1000.0", note |-> "a"])

MCFields == {"main_balance", "leverage"}
MCValues == {"", "1000.0", "2500.0", "3"}

OneGoodOneBad    == {Balance, NotToml}
TwoGoodOneBad    == {Balance, Raised, NotToml}
EveryKind        == {Balance, Note, Raised, Blank, Void, Bare, Unitless, NotToml}
OneGoodTwoBad    == {Balance, NotToml, AlsoNotToml}
NotTomls         == {NotToml, AlsoNotToml}
JustNotToml      == {NotToml}
=============================================================================
