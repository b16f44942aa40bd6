--------------------------- MODULE MCUadeReading ---------------------------
EXTENDS UadeReading

NoLimit == -1
=============================================================================
