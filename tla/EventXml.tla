------------------------------ MODULE EventXml ------------------------------
(***************************************************************************)
(* The fields of the XML of a Windows event (extract_xml_fields,           *)
(* crates/loghound-parsers/src/oplc.rs).  The XML is a sequence of markup  *)
(* [tag, name, attrs, text] as the reader yields it: "start", "end" and    *)
(* "empty" elements, "text", "other" (comments, CDATA) and "broken" for    *)
(* what the reader does not accept; attrs is a sequence of <<key, value>>. *)
(***************************************************************************)
EXTENDS Integers, Sequences, SequencesExt, TLC

CONSTANTS
    Missing,        \* None
    Trim(_)         \* str::trim

NoFields     == [k \in {} |-> ""]
Put(f, k, v) == (k :> v) @@ f

\* BTreeMap::entry: what is there already stays.
PutNew(f, k, v) == f @@ (k :> v)

\* record_attrs: the attributes of a System element are fields of their own.
RecordAttrs(fields, name, attrs) ==
    FoldLeft(LAMBDA f, a : Put(f, name \o "_" \o a[1], a[2]), fields, attrs)

\* attr_value: the first attribute of that name.
AttrValue(attrs, want) ==
    LET k == SelectInSeq(attrs, LAMBDA a : a[1] = want)
    IN IF k = 0 THEN Missing ELSE attrs[k][2]

Sections == {"System", "EventData"}
Outside  == [section |-> Missing, key |-> Missing, text |-> "", fields |-> NoFields]

Started(s, m) ==
    CASE m.name \in Sections -> [s EXCEPT !.section = m.name]
      [] m.name \notin Sections /\ s.section = "System" ->
           [s EXCEPT !.fields = RecordAttrs(@, m.name, m.attrs), !.key = m.name, !.text = ""]
      [] m.name = "Data" /\ s.section = "EventData" ->
           [s EXCEPT !.key = AttrValue(m.attrs, "Name"), !.text = ""]
      [] OTHER -> s

Emptied(s, m) ==
    CASE s.section = "System" /\ m.name # "System" ->
           [s EXCEPT !.fields = RecordAttrs(@, m.name, m.attrs)]
      [] s.section = "EventData" /\ m.name = "Data" /\ AttrValue(m.attrs, "Name") # Missing ->
           [s EXCEPT !.fields = PutNew(@, AttrValue(m.attrs, "Name"), "")]
      [] OTHER -> s

\* A closing element ends what is being accumulated, whatever its name.
Ended(s, m) ==
    CASE m.name \in Sections -> [s EXCEPT !.section = Missing, !.key = Missing, !.text = ""]
      [] m.name \notin Sections /\ s.key # Missing ->
           [s EXCEPT !.key = Missing, !.text = "",
                     !.fields = IF Trim(s.text) = "" THEN @ ELSE PutNew(@, s.key, Trim(s.text))]
      [] OTHER -> s

Read(s, m) ==
    CASE m.tag = "start" -> Started(s, m)
      [] m.tag = "empty" -> Emptied(s, m)
      [] m.tag = "text"  -> [s EXCEPT !.text = @ \o m.text]
      [] m.tag = "end"   -> Ended(s, m)
      [] m.tag = "other" -> s

\* Nothing is kept of XML that breaks off, nor of XML without a field.
XmlFields(xml)   == FoldLeft(Read, Outside, xml).fields
XmlReadable(xml) == (\A k \in DOMAIN xml : xml[k].tag # "broken") /\ XmlFields(xml) # NoFields
=============================================================================
