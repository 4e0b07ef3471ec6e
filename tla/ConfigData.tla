----------------------------- MODULE ConfigData -----------------------------
(***************************************************************************)
(* What config.toml says, as the loader decodes it: the cameras in their   *)
(* order, each with the keys of its block, and the other sections with     *)
(* theirs.  The page changes the file as text (ConfigText); this is what   *)
(* those changes are meant to do, and what ConfigText is shown to do.      *)
(***************************************************************************)
EXTENDS Naturals, Sequences, SequencesExt, Functions

CONSTANTS Names,     \* names of cameras
          Sections,  \* names of the sections a form rewrites
          FormValues \* what a form puts into a block: a sequence of keys

VARIABLES cams,      \* <<[name, value], ...>> in the order of the file
          sections   \* section name -> keys, for those the file has

NamesIn == {cams[i].name : i \in DOMAIN cams}
Set(s, v) == [t \in DOMAIN sections \cup {s} |-> IF t = s THEN v ELSE sections[t]]

Save(n, v) ==
  /\ LET c == [name |-> n, value |-> v]
     IN cams' = IF n \notin NamesIn THEN Append(cams, c)
                ELSE [i \in DOMAIN cams |-> IF cams[i].name = n THEN c ELSE cams[i]]
  /\ UNCHANGED sections

Drop(n) == /\ cams' = SelectSeq(cams, LAMBDA c : c.name /= n)
             /\ UNCHANGED sections

Rename(n, m) == /\ m \notin NamesIn
                /\ cams' = [i \in DOMAIN cams |-> IF cams[i].name = n
                              THEN [cams[i] EXCEPT !.name = m] ELSE cams[i]]
                /\ UNCHANGED sections

(* The cameras asked for come first, in the order asked for.               *)
Reorder(q) == /\ LET Asked == SelectSeq(q, LAMBDA n : n \in NamesIn)
                     Rest == SelectSeq(cams, LAMBDA c : c.name \notin ToSet(Asked))
                     Of(n) == cams[CHOOSE i \in DOMAIN cams : cams[i].name = n]
                 IN cams' = [i \in DOMAIN Asked |-> Of(Asked[i])] \o Rest
              /\ UNCHANGED sections

SetSection(s, v) == sections' = Set(s, v) /\ UNCHANGED cams

(* One key of a section that is there, or that may be made.                *)
SetListen(s, v) ==
  LET l == <<"listen", v>>
      Has(k) == s \in DOMAIN sections /\ \E i \in DOMAIN sections[s] : sections[s][i][1] = k
  IN /\ s \in DOMAIN sections \cup {"rtsp"}
     /\ sections' = Set(s, IF s \notin DOMAIN sections THEN <<l>>
                           ELSE IF ~Has("listen") THEN <<l>> \o sections[s]
                           ELSE [i \in DOMAIN sections[s] |->
                                   IF sections[s][i][1] = "listen" THEN l ELSE sections[s][i]])
     /\ UNCHANGED cams

SetPassword(p) ==
  /\ "control" \in DOMAIN sections
  /\ sections' = Set("control", [i \in DOMAIN sections["control"] |->
                   IF sections["control"][i][1] = "password" THEN <<"password", p>>
                   ELSE sections["control"][i]])
  /\ UNCHANGED cams

Init == /\ IsInjective([i \in DOMAIN cams |-> cams[i].name])
        /\ NamesIn \subseteq Names

Next == \/ \E n \in Names, v \in FormValues : Save(n, v)
        \/ \E n \in Names : Drop(n)
        \/ \E n, m \in Names : Rename(n, m)
        \/ \E q \in UNION {[1..k -> Names] : k \in 1..2} : IsInjective(q) /\ Reorder(q)
        \/ \E s \in Sections, v \in FormValues : SetSection(s, v)
        \/ \E s \in {"", "rtsp", "control"}, v \in {0, 1} : SetListen(s, v)
        \/ \E p \in {0, 1} : SetPassword(p)

Spec == Init /\ [][Next]_<<cams, sections>>
=============================================================================
