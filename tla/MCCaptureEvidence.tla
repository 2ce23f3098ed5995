-------------------------- MODULE MCCaptureEvidence --------------------------
(* Instances of CaptureEvidence for TLC: three messages, two scan passes.    *)
EXTENDS CaptureEvidence

Row(m) == [msg |-> m, ver |-> "v1"]
Edit(m) == [msg |-> m, ver |-> "v2"]

Obs(id, source, rows, pass, ends) ==
    [id |-> id, source |-> source, invalid |-> 0, pass |-> pass,
     rows |-> [i \in DOMAIN rows |-> [msg |-> rows[i].msg, ver |-> rows[i].ver,
                                      at |-> i - 1]],
     oldest |-> "oldest" \in ends, latest |-> "latest" \in ends]

Visible == "chrome_visible_dom"

\* The windows of a first pass, in two parts, and of a second.
PassOneOld == Obs("a", Visible, <<Row(1), Row(2)>>, 1, {"oldest"})
PassOneNew == Obs("b", Visible, <<Row(2), Row(3)>>, 1, {"latest"})
PassTwo    == Obs("c", Visible, <<Row(1), Row(2), Row(3)>>, 2, {"oldest", "latest"})

\* The first pass in one window, and one of its windows seen again after an edit.
PassOneWhole  == Obs("b", Visible, <<Row(1), Row(2), Row(3)>>, 1, {"oldest", "latest"})
PassTwoEdited == Obs("c", Visible, <<Row(1), Edit(2), Row(3)>>, 2, {"oldest", "latest"})

\* The second pass with a row that has no id, and one in the other order.
PassTwoInvalid == [PassTwo EXCEPT !.invalid = 1]
Backwards      == Obs("d", Visible, <<Row(3), Row(1)>>, NoPass, {})

\* The same again, behind a row that has no id; and one with no other row.
BackwardsMoved == [Backwards EXCEPT
    !.invalid = 1, !.rows = [i \in DOMAIN @ |-> [@[i] EXCEPT !.at = i]]]
NoIds == [Obs("e", Visible, <<>>, NoPass, {}) EXCEPT !.invalid = 1]

\* Cached windows with one id: one repeats a message, one skips a message.
Cached    == Obs("e", "saved_cache", <<Row(3), Row(3)>>, NoPass, {})
OtherRows == Obs("e", "saved_cache", <<Row(1), Row(3)>>, NoPass, {})

MCObservation == {PassOneOld, PassOneNew, PassTwo, PassTwoEdited,
                  Backwards, BackwardsMoved, NoIds, Cached, OtherRows}
MCBatch == {<<PassOneNew, Cached>>, <<PassOneOld, OtherRows, PassTwo>>}

MCStraight == {PassOneWhole, PassTwo, PassTwoEdited, PassTwoInvalid}
MCNoBatch == {}
==============================================================================
