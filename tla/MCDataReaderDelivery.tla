------------------------ MODULE MCDataReaderDelivery ------------------------
EXTENDS DataReaderDelivery
=============================================================================
