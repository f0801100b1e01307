------------------------------- MODULE MCSdo -------------------------------
EXTENDS Sdo
MCRequest ==
  << { [kind |-> "download", size |-> 1, sized |-> TRUE],
       [kind |-> "download", size |-> 2, sized |-> TRUE],
       [kind |-> "download", size |-> 3, sized |-> FALSE],
       [kind |-> "upload", size |-> 0, sized |-> FALSE],
       [kind |-> "download_block", size |-> 2, sized |-> FALSE],
       [kind |-> "upload_block", size |-> 0, sized |-> FALSE] },
     { [kind |-> "download", size |-> 3, sized |-> FALSE],
       [kind |-> "upload", size |-> 0, sized |-> FALSE],
       [kind |-> "upload_block", size |-> 0, sized |-> FALSE] } >>
=============================================================================
