----------------------------- MODULE MCTrigger -----------------------------
(* A two-digit display over 20: "25" and "18" read whole, "?5" a 25 read    *)
(* partly, "End" a word, "" a dark frame; the pattern matches a 25 read     *)
(* whole or partly.                                                         *)
EXTENDS Trigger

MCText     == {"25", "18", "?5", "End", ""}
MCBlank    == ""
MCPartial  == {"?5"}
MCLettered == {"End"}
MCMatching == {"25", "?5"}
MCNumeric  == {"25", "18", "?5"}
MCBeyond   == {"25"}
MCFit      == {<<"?5", "25">>, <<"25", "?5">>} \cup {<<t, t>> : t \in MCText}
MCPercent  == 0..3
MCConfigs  ==
    [type : ConditionTypes, sevenSeg : BOOLEAN, counter : {FALSE}]
    \cup [type : {"numeric"}, sevenSeg : {TRUE}, counter : {TRUE}]
    \cup [type : {"ocr_changed"}, sevenSeg : BOOLEAN, counter : {FALSE}]
    \cup [type : {"value"}, sevenSeg : {TRUE}, counter : {FALSE}]
    \cup [type : {"pixel_change"}, sevenSeg : {FALSE}, counter : {FALSE}]
=============================================================================
