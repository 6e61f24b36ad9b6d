----------------------------- MODULE MCCsvTable ------------------------------
(* A small instance of CsvTable for TLC. *)
EXTENDS CsvTable

\* Nothing, a quote behind text and one before what else has to be quoted, a line end
\* of two characters, one beyond ASCII, and bytes that are not UTF-8.
MCInputs == {<<>>, <<plain, quote>>, <<quote, sep, cr, lf>>, <<high, cr>>, <<"invalid">>}

Kind(c, h, q) == [carriageReturn |-> c, forceHeader |-> h, quoting |-> q]
MCSettings == {Kind(FALSE, TRUE, "always"), Kind(FALSE, TRUE, "needed"),  \* PayPal, TicketMatic
               Kind(TRUE, FALSE, "needed"), Kind(TRUE, TRUE, "never")}

\* No name, and the name that a repeated one of a table that was read may get.  With
\* three columns, one name can be there three times.
MCTexts == {<<>>, Numbered(<<plain, quote>>, 0)}
=============================================================================
